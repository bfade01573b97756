---------------------------- MODULE SumTheorems ----------------------------
(***************************************************************************)
(* Sums of integers over finite sets (SumFunctionOnSet of Functions): what  *)
(* the ledgers' proofs need to know of them.                                *)
(***************************************************************************)
EXTENDS Functions, FiniteSets, FiniteSetTheorems, TLAPS

-----------------------------------------------------------------------------
(* Induction, by a minimal counterexample                                  *)

\* A set with 0 that is closed under successor has every natural.
LEMMA SetOfNaturals ==
    ASSUME NEW N, 0 \in N, \A n \in Nat : n \in N => n + 1 \in N
    PROVE  Nat \subseteq N
  <1> DEFINE C == Nat \ N
             R == OpToRel(<, Nat)
  <1> SUFFICES ASSUME C # {} PROVE FALSE
    OBVIOUS
  <1>1. IsWellFoundedOn(R, Nat)
    BY NatLessThanWellFounded
  <1>2. R = {ss \in Nat \X Nat : ss[1] < ss[2]}
    BY Zenon DEF OpToRel
  <1> HIDE DEF R
  <1>3. PICK n \in C : \A m \in C : ~(<<m, n>> \in R)
    BY <1>1, WFMin
  <1>4. n \in Nat /\ n # 0 /\ n - 1 \in Nat
    BY <1>3
  <1>5. <<n - 1, n>> \in R
    <2>1. <<n - 1, n>> \in Nat \X Nat /\ <<n - 1, n>>[1] = n - 1 /\ <<n - 1, n>>[2] = n
      BY <1>4
    <2> QED
      BY <1>2, <1>4, <2>1
  <1>6. n - 1 \in N
    BY <1>3, <1>4, <1>5
  <1> QED
    BY <1>3, <1>4, <1>6

\* A set that counts more than nothing has an element.
LEMMA CountedNonempty ==
    ASSUME NEW S, IsFiniteSet(S), NEW n \in Nat, Cardinality(S) = n + 1
    PROVE  S # {}
  BY FS_EmptySet

\* Without one element a set counts one less.
LEMMA OneLess ==
    ASSUME NEW S, IsFiniteSet(S), NEW x \in S, NEW n \in Nat, Cardinality(S) = n + 1
    PROVE  Cardinality(S \ {x}) = n
  <1>1. Cardinality(S \ {x}) = Cardinality(S) - 1
    BY FS_RemoveElement
  <1> QED
    BY <1>1

-----------------------------------------------------------------------------
(* The fold behind a sum                                                   *)

\* The element that the fold takes next.
Pick(s) == CHOOSE x \in s : TRUE

\* h folds f over the subsets of S, as the definition of the sum does.
FoldsOver(h, f, S) ==
    h = [s \in SUBSET S |-> IF s = {} THEN 0 ELSE f[Pick(s)] + h[s \ {Pick(s)}]]

\* It is an element.
LEMMA PickIn == \A s : s # {} => Pick(s) \in s
  BY DEF Pick

\* The recursive definition of the fold has a solution.
LEMMA FoldExists ==
    ASSUME NEW f, NEW S, IsFiniteSet(S)
    PROVE  \E h : FoldsOver(h, f, S)
  <1> DEFINE Small(n) == {s \in SUBSET S : Cardinality(s) <= n}
             Folds(h, n) == h = [s \in Small(n) |->
                                    IF s = {} THEN 0 ELSE f[Pick(s)] + h[s \ {Pick(s)}]]
             N == {n \in Nat : \E h : Folds(h, n)}
  <1>1. \A s \in SUBSET S : IsFiniteSet(s) /\ Cardinality(s) \in Nat
    BY FS_Subset, FS_CardinalityType
  <1>2. 0 \in N
    <2>1. \A s \in Small(0) : s = {}
      BY <1>1, FS_EmptySet
    <2>2. Folds([s \in Small(0) |-> 0], 0)
      BY <2>1
    <2> QED
      BY <2>2
  <1>3. ASSUME NEW n \in Nat, n \in N PROVE n + 1 \in N
    <2>1. PICK h : Folds(h, n)
      BY <1>3
    <2> DEFINE g == [s \in Small(n + 1) |-> IF s = {} THEN 0 ELSE f[Pick(s)] + h[s \ {Pick(s)}]]
    <2>2. ASSUME NEW s \in Small(n) PROVE s \in Small(n + 1) /\ g[s] = h[s]
      <3>1. Cardinality(s) \in Nat /\ Cardinality(s) <= n
        BY <1>1
      <3>2. s \in Small(n + 1)
        BY <3>1
      <3>3. h[s] = IF s = {} THEN 0 ELSE f[Pick(s)] + h[s \ {Pick(s)}]
        BY <2>1
      <3> QED
        BY <3>2, <3>3
    <2>3. ASSUME NEW s \in Small(n + 1), s # {} PROVE s \ {Pick(s)} \in Small(n)
      <3>1. IsFiniteSet(s) /\ Pick(s) \in s /\ Cardinality(s) \in Nat /\ Cardinality(s) <= n + 1
        BY <1>1, <2>3, PickIn
      <3>2. Cardinality(s \ {Pick(s)}) = Cardinality(s) - 1
        BY <3>1, FS_RemoveElement
      <3> QED
        BY <3>1, <3>2
    <2>4. \A s \in Small(n + 1) :
             g[s] = IF s = {} THEN 0 ELSE f[Pick(s)] + g[s \ {Pick(s)}]
      BY <2>2, <2>3
    <2>5. g = [s \in Small(n + 1) |-> g[s]]
      OBVIOUS
    <2> HIDE DEF g, Small
    <2>6. Folds(g, n + 1)
      BY <2>4, <2>5
    <2> HIDE DEF Folds
    <2> QED
      BY <2>6
  <1>4. Cardinality(S) \in Nat
    BY FS_CardinalityType
  <1>5. PICK h : Folds(h, Cardinality(S))
    <2> HIDE DEF N
    <2>1. Cardinality(S) \in N
      BY <1>2, <1>3, <1>4, SetOfNaturals
    <2> QED
      BY <2>1 DEF N
  <1>6. Small(Cardinality(S)) = SUBSET S
    BY FS_Subset
  <1> QED
    BY <1>5, <1>6 DEF FoldsOver

\* The sum is the value that a solution gives to the whole set.
LEMMA SumIsFold ==
    ASSUME NEW f, NEW S, IsFiniteSet(S)
    PROVE  \E h : FoldsOver(h, f, S) /\ SumFunctionOnSet(f, S) = h[S]
  <1> DEFINE Folded(h) == h = [s \in SUBSET S |->
                 IF s = {} THEN 0 ELSE f[CHOOSE x \in s : TRUE] + h[s \ {CHOOSE x \in s : TRUE}]]
  <1>1. \A h : Folded(h) <=> FoldsOver(h, f, S)
    BY DEF FoldsOver, Pick
  <1>2. SumFunctionOnSet(f, S) = (CHOOSE h : Folded(h))[S]
    BY DEF SumFunctionOnSet, FoldFunctionOnSet, MapThenFoldSet
  <1> HIDE DEF Folded
  <1>3. \E h : Folded(h)
    BY <1>1, FoldExists
  <1>4. Folded(CHOOSE h : Folded(h))
    BY <1>3
  <1> QED
    BY <1>1, <1>2, <1>4

\* Folds over two sets agree on what they have in common.
LEMMA FoldsAgree ==
    ASSUME NEW f, NEW S, NEW T, IsFiniteSet(S), NEW g, NEW h,
           FoldsOver(g, f, S), FoldsOver(h, f, T)
    PROVE  \A U \in SUBSET (S \cap T) : g[U] = h[U]
  <1> DEFINE N == {n \in Nat : \A U \in SUBSET (S \cap T) : Cardinality(U) = n => g[U] = h[U]}
  <1>1. \A U \in SUBSET (S \cap T) : IsFiniteSet(U) /\ Cardinality(U) \in Nat
    BY FS_Subset, FS_CardinalityType
  <1>2. 0 \in N
    BY <1>1, FS_EmptySet DEF FoldsOver
  <1>3. ASSUME NEW n \in Nat, n \in N PROVE n + 1 \in N
    <2> SUFFICES ASSUME NEW U \in SUBSET (S \cap T), Cardinality(U) = n + 1 PROVE g[U] = h[U]
      OBVIOUS
    <2>1. U # {}
      BY <1>1, FS_EmptySet
    <2>2. Cardinality(U \ {Pick(U)}) = n
      BY <1>1, <2>1, PickIn, OneLess
    <2>3. g[U \ {Pick(U)}] = h[U \ {Pick(U)}]
      BY <1>3, <2>2
    <2> QED
      BY <2>1, <2>3 DEF FoldsOver
  <1> HIDE DEF N
  <1>4. Nat \subseteq N
    BY <1>2, <1>3, SetOfNaturals
  <1> QED
    BY <1>1, <1>4 DEF N

-----------------------------------------------------------------------------
(* Sums                                                                    *)

\* The sum over no element.
THEOREM SumEmpty == \A f : SumFunctionOnSet(f, {}) = 0
  <1> TAKE f
  <1>1. IsFiniteSet({})
    BY FS_EmptySet
  <1>2. PICK h : FoldsOver(h, f, {}) /\ SumFunctionOnSet(f, {}) = h[{}]
    BY <1>1, SumIsFold
  <1> QED
    BY <1>2 DEF FoldsOver

\* A sum is the value of the element taken next and the sum of the others.
LEMMA SumPicks ==
    ASSUME NEW f, NEW S, IsFiniteSet(S), S # {}
    PROVE  SumFunctionOnSet(f, S) = f[Pick(S)] + SumFunctionOnSet(f, S \ {Pick(S)})
  <1> DEFINE T == S \ {Pick(S)}
  <1>1. IsFiniteSet(T)
    BY FS_RemoveElement
  <1>2. PICK g : FoldsOver(g, f, S) /\ SumFunctionOnSet(f, S) = g[S]
    BY SumIsFold
  <1>3. PICK h : FoldsOver(h, f, T) /\ SumFunctionOnSet(f, T) = h[T]
    BY <1>1, SumIsFold
  <1>4. g[T] = h[T]
    <2>1. T \in SUBSET (S \cap T)
      OBVIOUS
    <2> HIDE DEF T
    <2> QED
      BY <1>2, <1>3, <2>1, FoldsAgree
  <1>5. g[S] = f[Pick(S)] + g[T]
    BY <1>2 DEF FoldsOver
  <1> QED
    BY <1>2, <1>3, <1>4, <1>5

\* A sum of integers is one, and any element can be taken out of it.
THEOREM SumType ==
    ASSUME NEW S, IsFiniteSet(S), NEW f, \A x \in S : f[x] \in Int
    PROVE  SumFunctionOnSet(f, S) \in Int
  <1> DEFINE Sum(T) == SumFunctionOnSet(f, T)
             N == {n \in Nat : \A T \in SUBSET S : Cardinality(T) = n => Sum(T) \in Int}
  <1>1. \A T \in SUBSET S : IsFiniteSet(T) /\ Cardinality(T) \in Nat
    BY FS_Subset, FS_CardinalityType
  <1>2. 0 \in N
    BY <1>1, FS_EmptySet, SumEmpty
  <1>3. ASSUME NEW n \in Nat, n \in N PROVE n + 1 \in N
    <2> SUFFICES ASSUME NEW T \in SUBSET S, Cardinality(T) = n + 1 PROVE Sum(T) \in Int
      OBVIOUS
    <2>1. IsFiniteSet(T) /\ T # {} /\ Pick(T) \in T
      BY <1>1, CountedNonempty, PickIn
    <2>2. Cardinality(T \ {Pick(T)}) = n
      BY <2>1, OneLess
    <2>3. Sum(T \ {Pick(T)}) \in Int
      BY <1>3, <2>2
    <2> QED
      BY <2>1, <2>3, SumPicks
  <1> HIDE DEF N
  <1>4. Nat \subseteq N
    BY <1>2, <1>3, SetOfNaturals
  <1> QED
    BY <1>1, <1>4 DEF N

\* Any element can be taken out of a sum, whichever the fold takes.
THEOREM SumRemove ==
    ASSUME NEW S, IsFiniteSet(S), NEW f, \A x \in S : f[x] \in Int, NEW e \in S
    PROVE  SumFunctionOnSet(f, S) = f[e] + SumFunctionOnSet(f, S \ {e})
  <1> DEFINE Sum(T) == SumFunctionOnSet(f, T)
             N == {n \in Nat : \A T \in SUBSET S : \A x \in T :
                      Cardinality(T) = n => Sum(T) = f[x] + Sum(T \ {x})}
  <1>1. \A T \in SUBSET S : IsFiniteSet(T) /\ Cardinality(T) \in Nat /\ Sum(T) \in Int
    BY FS_Subset, FS_CardinalityType, SumType
  <1>2. 0 \in N
    BY <1>1, FS_EmptySet
  <1>3. ASSUME NEW n \in Nat, n \in N PROVE n + 1 \in N
    <2> SUFFICES ASSUME NEW T \in SUBSET S, NEW x \in T, Cardinality(T) = n + 1
                 PROVE  Sum(T) = f[x] + Sum(T \ {x})
      OBVIOUS
    <2> DEFINE y == Pick(T)
    <2>1. IsFiniteSet(T) /\ y \in T
      BY <1>1, PickIn
    <2>2. Sum(T) = f[y] + Sum(T \ {y})
      BY <2>1, SumPicks
    <2>3. CASE y = x
      BY <2>2, <2>3
    <2>4. CASE y # x
      <3>1. Cardinality(T \ {y}) = n /\ Cardinality(T \ {x}) = n
        BY <2>1, OneLess
      <3>2. Sum(T \ {y}) = f[x] + Sum((T \ {y}) \ {x})
        BY <1>3, <2>4, <3>1
      <3>3. Sum(T \ {x}) = f[y] + Sum((T \ {x}) \ {y})
        BY <1>3, <2>1, <2>4, <3>1
      <3>4. (T \ {y}) \ {x} = (T \ {x}) \ {y}
        OBVIOUS
      <3>5. f[x] \in Int /\ f[y] \in Int /\ Sum((T \ {x}) \ {y}) \in Int
        BY <1>1, <2>1
      <3>6. PICK rest : rest = Sum((T \ {x}) \ {y})
        OBVIOUS
      <3>7. Sum(T \ {y}) = f[x] + rest /\ Sum(T \ {x}) = f[y] + rest
        BY <3>2, <3>3, <3>4, <3>6
      <3>8. Sum(T) = f[y] + (f[x] + rest)
        BY <2>2, <3>7
      <3>9. f[y] + (f[x] + rest) = f[x] + (f[y] + rest)
        BY <3>5, <3>6
      <3> QED
        BY <3>7, <3>8, <3>9
    <2> QED
      BY <2>3, <2>4
  <1> HIDE DEF N
  <1>4. Nat \subseteq N
    BY <1>2, <1>3, SetOfNaturals
  <1> QED
    BY <1>1, <1>4 DEF N

\* The sum over one element is its value.
THEOREM SumSingleton == \A f, x : f[x] \in Int => SumFunctionOnSet(f, {x}) = f[x]
  <1> TAKE f, x
  <1> HAVE f[x] \in Int
  <1>1. IsFiniteSet({x}) /\ \A y \in {x} : f[y] \in Int
    BY FS_Singleton
  <1>2. SumFunctionOnSet(f, {x}) = f[x] + SumFunctionOnSet(f, {x} \ {x})
    BY <1>1, SumRemove
  <1>3. {x} \ {x} = {}
    OBVIOUS
  <1> QED
    BY <1>2, <1>3, SumEmpty

\* Functions with the same values have the same sum.
THEOREM SumSame ==
    ASSUME NEW S, IsFiniteSet(S), NEW f, NEW g, \A x \in S : f[x] \in Int /\ f[x] = g[x]
    PROVE  SumFunctionOnSet(f, S) = SumFunctionOnSet(g, S)
  <1> DEFINE N == {n \in Nat : \A T \in SUBSET S :
                      Cardinality(T) = n => SumFunctionOnSet(f, T) = SumFunctionOnSet(g, T)}
  <1>1. \A T \in SUBSET S : IsFiniteSet(T) /\ Cardinality(T) \in Nat
    BY FS_Subset, FS_CardinalityType
  <1>2. 0 \in N
    BY <1>1, FS_EmptySet, SumEmpty
  <1>3. ASSUME NEW n \in Nat, n \in N PROVE n + 1 \in N
    <2> SUFFICES ASSUME NEW T \in SUBSET S, Cardinality(T) = n + 1
                 PROVE  SumFunctionOnSet(f, T) = SumFunctionOnSet(g, T)
      OBVIOUS
    <2>1. IsFiniteSet(T) /\ T # {} /\ Pick(T) \in T
      BY <1>1, CountedNonempty, PickIn
    <2>2. SumFunctionOnSet(f, T \ {Pick(T)}) = SumFunctionOnSet(g, T \ {Pick(T)})
      BY <1>3, <2>1, OneLess
    <2> QED
      BY <2>1, <2>2, SumPicks
  <1> HIDE DEF N
  <1>4. Nat \subseteq N
    BY <1>2, <1>3, SetOfNaturals
  <1> QED
    BY <1>1, <1>4 DEF N

\* Sums of values that compare, compare.
THEOREM SumMonotone ==
    ASSUME NEW S, IsFiniteSet(S), NEW f, NEW g,
           \A x \in S : f[x] \in Int /\ g[x] \in Int /\ f[x] <= g[x]
    PROVE  SumFunctionOnSet(f, S) <= SumFunctionOnSet(g, S)
  <1> DEFINE N == {n \in Nat : \A T \in SUBSET S :
                      Cardinality(T) = n => SumFunctionOnSet(f, T) <= SumFunctionOnSet(g, T)}
  <1>1. \A T \in SUBSET S : /\ IsFiniteSet(T) /\ Cardinality(T) \in Nat
                            /\ SumFunctionOnSet(f, T) \in Int /\ SumFunctionOnSet(g, T) \in Int
    BY FS_Subset, FS_CardinalityType, SumType
  <1>2. 0 \in N
    BY <1>1, FS_EmptySet, SumEmpty
  <1>3. ASSUME NEW n \in Nat, n \in N PROVE n + 1 \in N
    <2> SUFFICES ASSUME NEW T \in SUBSET S, Cardinality(T) = n + 1
                 PROVE  SumFunctionOnSet(f, T) <= SumFunctionOnSet(g, T)
      OBVIOUS
    <2>1. IsFiniteSet(T) /\ T # {} /\ Pick(T) \in T
      BY <1>1, CountedNonempty, PickIn
    <2> DEFINE U == T \ {Pick(T)}
    <2>2. SumFunctionOnSet(f, U) <= SumFunctionOnSet(g, U)
      BY <1>3, <2>1, OneLess
    <2>3. /\ SumFunctionOnSet(f, T) = f[Pick(T)] + SumFunctionOnSet(f, U)
          /\ SumFunctionOnSet(g, T) = g[Pick(T)] + SumFunctionOnSet(g, U)
      BY <2>1, SumPicks
    <2>4. SumFunctionOnSet(f, U) \in Int /\ SumFunctionOnSet(g, U) \in Int
      BY <1>1
    <2>5. f[Pick(T)] \in Int /\ g[Pick(T)] \in Int /\ f[Pick(T)] <= g[Pick(T)]
      BY <2>1
    <2> HIDE DEF U
    <2> QED
      BY <2>2, <2>3, <2>4, <2>5
  <1> HIDE DEF N
  <1>4. Nat \subseteq N
    BY <1>2, <1>3, SetOfNaturals
  <1> QED
    BY <1>1, <1>4 DEF N

\* The sum over two sets without a common element.
THEOREM SumUnion ==
    ASSUME NEW S, IsFiniteSet(S), NEW R, IsFiniteSet(R), S \cap R = {},
           NEW f, \A x \in S \cup R : f[x] \in Int
    PROVE  SumFunctionOnSet(f, S \cup R) = SumFunctionOnSet(f, S) + SumFunctionOnSet(f, R)
  <1> DEFINE N == {n \in Nat : \A T \in SUBSET R : Cardinality(T) = n =>
                      SumFunctionOnSet(f, S \cup T) = SumFunctionOnSet(f, S) + SumFunctionOnSet(f, T)}
  <1>1. \A T \in SUBSET R : /\ IsFiniteSet(T) /\ Cardinality(T) \in Nat
                            /\ IsFiniteSet(S \cup T)
                            /\ SumFunctionOnSet(f, T) \in Int
                            /\ SumFunctionOnSet(f, S \cup T) \in Int
    BY FS_Subset, FS_CardinalityType, FS_Union, SumType
  <1>2. SumFunctionOnSet(f, S) \in Int
    BY SumType
  <1>3. 0 \in N
    <2> SUFFICES ASSUME NEW T \in SUBSET R, Cardinality(T) = 0
                 PROVE  SumFunctionOnSet(f, S \cup T) = SumFunctionOnSet(f, S) + SumFunctionOnSet(f, T)
      OBVIOUS
    <2>1. T = {} /\ S \cup T = S
      BY <1>1, FS_EmptySet
    <2> QED
      BY <1>2, <2>1, SumEmpty
  <1>4. ASSUME NEW n \in Nat, n \in N PROVE n + 1 \in N
    <2> SUFFICES ASSUME NEW T \in SUBSET R, Cardinality(T) = n + 1
                 PROVE  SumFunctionOnSet(f, S \cup T) = SumFunctionOnSet(f, S) + SumFunctionOnSet(f, T)
      OBVIOUS
    <2>1. IsFiniteSet(T) /\ T # {} /\ Pick(T) \in T
      BY <1>1, CountedNonempty, PickIn
    <2>2. PICK e, U : e = Pick(T) /\ U = T \ {Pick(T)}
      OBVIOUS
    <2>3. U \in SUBSET R /\ (S \cup T) \ {e} = S \cup U /\ e \in S \cup T /\ e \in T /\ f[e] \in Int
      BY <2>1, <2>2
    <2>4. SumFunctionOnSet(f, S \cup U) = SumFunctionOnSet(f, S) + SumFunctionOnSet(f, U)
      BY <1>4, <2>1, <2>2, OneLess
    <2>5. SumFunctionOnSet(f, T) = f[e] + SumFunctionOnSet(f, U)
      BY <2>1, <2>2, SumPicks
    <2>6. SumFunctionOnSet(f, S \cup T) = f[e] + SumFunctionOnSet(f, S \cup U)
      <3>1. IsFiniteSet(S \cup T) /\ \A x \in S \cup T : f[x] \in Int
        BY <1>1
      <3>2. SumFunctionOnSet(f, S \cup T) = f[e] + SumFunctionOnSet(f, (S \cup T) \ {e})
        BY <2>3, <3>1, SumRemove
      <3> QED
        BY <2>3, <3>2
    <2>7. SumFunctionOnSet(f, U) \in Int
      BY <1>1, <2>3
    <2> QED
      BY <1>2, <2>3, <2>4, <2>5, <2>6, <2>7
  <1> HIDE DEF N
  <1>5. Nat \subseteq N
    BY <1>3, <1>4, SetOfNaturals
  <1> QED
    BY <1>1, <1>5 DEF N

\* The sum of two functions.
THEOREM SumPlus ==
    ASSUME NEW S, IsFiniteSet(S), NEW f, NEW g, NEW h,
           \A x \in S : f[x] \in Int /\ g[x] \in Int /\ h[x] = f[x] + g[x]
    PROVE  SumFunctionOnSet(h, S) = SumFunctionOnSet(f, S) + SumFunctionOnSet(g, S)
  <1> DEFINE N == {n \in Nat : \A T \in SUBSET S : Cardinality(T) = n =>
                      SumFunctionOnSet(h, T) = SumFunctionOnSet(f, T) + SumFunctionOnSet(g, T)}
  <1>1. \A T \in SUBSET S : /\ IsFiniteSet(T) /\ Cardinality(T) \in Nat
                            /\ SumFunctionOnSet(f, T) \in Int /\ SumFunctionOnSet(g, T) \in Int
    BY FS_Subset, FS_CardinalityType, SumType
  <1>2. 0 \in N
    <2> SUFFICES ASSUME NEW T \in SUBSET S, Cardinality(T) = 0
                 PROVE  SumFunctionOnSet(h, T) = SumFunctionOnSet(f, T) + SumFunctionOnSet(g, T)
      OBVIOUS
    <2>1. T = {}
      BY <1>1, FS_EmptySet
    <2>2. SumFunctionOnSet(h, T) = 0 /\ SumFunctionOnSet(f, T) = 0 /\ SumFunctionOnSet(g, T) = 0
      BY <2>1, SumEmpty
    <2> QED
      BY <2>2
  <1>3. ASSUME NEW n \in Nat, n \in N PROVE n + 1 \in N
    <2> SUFFICES ASSUME NEW T \in SUBSET S, Cardinality(T) = n + 1
                 PROVE  SumFunctionOnSet(h, T) = SumFunctionOnSet(f, T) + SumFunctionOnSet(g, T)
      OBVIOUS
    <2>1. IsFiniteSet(T) /\ T # {} /\ Pick(T) \in T
      BY <1>1, CountedNonempty, PickIn
    <2>2. PICK e, U : e = Pick(T) /\ U = T \ {Pick(T)}
      OBVIOUS
    <2>3. SumFunctionOnSet(h, U) = SumFunctionOnSet(f, U) + SumFunctionOnSet(g, U)
      BY <1>3, <2>1, <2>2, OneLess
    <2>4. /\ SumFunctionOnSet(h, T) = h[e] + SumFunctionOnSet(h, U)
          /\ SumFunctionOnSet(f, T) = f[e] + SumFunctionOnSet(f, U)
          /\ SumFunctionOnSet(g, T) = g[e] + SumFunctionOnSet(g, U)
      BY <2>1, <2>2, SumPicks
    <2>5. SumFunctionOnSet(f, U) \in Int /\ SumFunctionOnSet(g, U) \in Int
      BY <1>1, <2>2
    <2>6. f[e] \in Int /\ g[e] \in Int /\ h[e] = f[e] + g[e]
      BY <2>1, <2>2
    <2> QED
      BY <2>3, <2>4, <2>5, <2>6
  <1> HIDE DEF N
  <1>4. Nat \subseteq N
    BY <1>2, <1>3, SetOfNaturals
  <1> QED
    BY <1>1, <1>4 DEF N

\* A sum over the elements that an injection picks.
THEOREM SumImage ==
    ASSUME NEW S, IsFiniteSet(S), NEW at, \A x, y \in S : at[x] = at[y] => x = y,
           NEW f, NEW g, \A x \in S : f[at[x]] \in Int /\ g[x] = f[at[x]]
    PROVE  /\ IsFiniteSet({at[x] : x \in S})
           /\ SumFunctionOnSet(f, {at[x] : x \in S}) = SumFunctionOnSet(g, S)
  <1> DEFINE Image(T) == {at[x] : x \in T}
             N == {n \in Nat : \A T \in SUBSET S : Cardinality(T) = n =>
                      /\ IsFiniteSet(Image(T))
                      /\ SumFunctionOnSet(f, Image(T)) = SumFunctionOnSet(g, T)}
  <1>1. \A T \in SUBSET S : IsFiniteSet(T) /\ Cardinality(T) \in Nat
    BY FS_Subset, FS_CardinalityType
  <1>2. 0 \in N
    <2> SUFFICES ASSUME NEW T \in SUBSET S, Cardinality(T) = 0
                 PROVE  /\ IsFiniteSet(Image(T))
                        /\ SumFunctionOnSet(f, Image(T)) = SumFunctionOnSet(g, T)
      OBVIOUS
    <2>1. T = {} /\ Image(T) = {}
      BY <1>1, FS_EmptySet
    <2> QED
      BY <2>1, FS_EmptySet, SumEmpty
  <1>3. ASSUME NEW n \in Nat, n \in N PROVE n + 1 \in N
    <2> SUFFICES ASSUME NEW T \in SUBSET S, Cardinality(T) = n + 1
                 PROVE  /\ IsFiniteSet(Image(T))
                        /\ SumFunctionOnSet(f, Image(T)) = SumFunctionOnSet(g, T)
      OBVIOUS
    <2>1. IsFiniteSet(T) /\ T # {} /\ Pick(T) \in T
      BY <1>1, CountedNonempty, PickIn
    <2>2. PICK e, U : e = Pick(T) /\ U = T \ {Pick(T)}
      OBVIOUS
    <2>3. IsFiniteSet(Image(U)) /\ SumFunctionOnSet(f, Image(U)) = SumFunctionOnSet(g, U)
      <3>1. U \in SUBSET S /\ Cardinality(U) = n
        BY <2>1, <2>2, OneLess
      <3> QED
        BY <1>3, <3>1
    <2>4. /\ Image(T) = Image(U) \cup {at[e]}
          /\ Image(T) \ {at[e]} = Image(U)
          /\ at[e] \in Image(T)
      BY <2>1, <2>2
    <2>5. \A y \in Image(T) : f[y] \in Int
      OBVIOUS
    <2> HIDE DEF Image
    <2>6. IsFiniteSet(Image(T))
      <3>1. IsFiniteSet(Image(U) \cup {at[e]})
        BY <2>3, FS_AddElement
      <3> QED
        BY <2>4, <3>1
    <2>7. SumFunctionOnSet(f, Image(T)) = f[at[e]] + SumFunctionOnSet(f, Image(U))
      BY <2>4, <2>6, <2>5, SumRemove
    <2>8. SumFunctionOnSet(g, T) = g[e] + SumFunctionOnSet(g, U)
      BY <2>1, <2>2, SumPicks
    <2> QED
      BY <2>1, <2>2, <2>3, <2>6, <2>7, <2>8
  <1> HIDE DEF N
  <1>4. Nat \subseteq N
    BY <1>2, <1>3, SetOfNaturals
  <1> QED
    BY <1>1, <1>4 DEF N

\* A sum of zeros is zero (it is twice itself), and of what is never negative
\* is never negative.
THEOREM SumZero ==
    ASSUME NEW S, IsFiniteSet(S), NEW f, \A x \in S : f[x] = 0
    PROVE  SumFunctionOnSet(f, S) = 0
  <1>1. SumFunctionOnSet(f, S) \in Int
    BY SumType
  <1>2. SumFunctionOnSet(f, S) = SumFunctionOnSet(f, S) + SumFunctionOnSet(f, S)
    <2>1. \A x \in S : f[x] \in Int /\ f[x] = f[x] + f[x]
      OBVIOUS
    <2> QED
      BY <2>1, SumPlus
  <1>3. \A n \in Int : n = n + n => n = 0
    OBVIOUS
  <1> QED
    BY <1>1, <1>2, <1>3, Zenon

\* A sum of naturals is a natural.
THEOREM SumNatural ==
    ASSUME NEW S, IsFiniteSet(S), NEW f, \A x \in S : f[x] \in Nat
    PROVE  SumFunctionOnSet(f, S) \in Nat
  <1> DEFINE zero == [x \in S |-> 0]
  <1>1. SumFunctionOnSet(f, S) \in Int
    BY SumType
  <1>2. SumFunctionOnSet(zero, S) = 0
    BY SumZero
  <1>3. \A x \in S : zero[x] \in Int /\ f[x] \in Int /\ zero[x] <= f[x]
    OBVIOUS
  <1> HIDE DEF zero
  <1>4. SumFunctionOnSet(zero, S) <= SumFunctionOnSet(f, S)
    BY <1>3, SumMonotone
  <1> QED
    BY <1>1, <1>2, <1>4

\* Elements whose value is zero do not count.
THEOREM SumWithoutZeros ==
    ASSUME NEW S, IsFiniteSet(S), NEW T \in SUBSET S, NEW f,
           \A x \in S : f[x] \in Int, \A x \in S \ T : f[x] = 0
    PROVE  SumFunctionOnSet(f, S) = SumFunctionOnSet(f, T)
  <1>1. IsFiniteSet(T) /\ IsFiniteSet(S \ T) /\ T \cup (S \ T) = S /\ T \cap (S \ T) = {}
    BY FS_Subset
  <1>2. SumFunctionOnSet(f, T \cup (S \ T)) = SumFunctionOnSet(f, T) + SumFunctionOnSet(f, S \ T)
    BY <1>1, SumUnion
  <1>3. SumFunctionOnSet(f, S \ T) = 0
    BY <1>1, SumZero
  <1>4. SumFunctionOnSet(f, T) \in Int
    BY <1>1, SumType
  <1>5. SumFunctionOnSet(f, S) = SumFunctionOnSet(f, T) + 0
    BY <1>1, <1>2, <1>3, Zenon
  <1>6. \A n \in Int : n + 0 = n
    OBVIOUS
  <1> QED
    BY <1>4, <1>5, <1>6, Zenon

\* The sum of a function of which one value changes.
THEOREM SumUpdate ==
    ASSUME NEW S, IsFiniteSet(S), NEW e \in S, NEW f, NEW g,
           \A x \in S : f[x] \in Int /\ g[x] \in Int,
           \A x \in S \ {e} : g[x] = f[x]
    PROVE  SumFunctionOnSet(g, S) = SumFunctionOnSet(f, S) + (g[e] - f[e])
  <1> DEFINE rest == S \ {e}
  <1>1. IsFiniteSet(rest)
    BY FS_RemoveElement
  <1>2. SumFunctionOnSet(f, S) = f[e] + SumFunctionOnSet(f, rest)
    BY SumRemove
  <1>3. SumFunctionOnSet(g, S) = g[e] + SumFunctionOnSet(g, rest)
    BY SumRemove
  <1>4. SumFunctionOnSet(f, rest) = SumFunctionOnSet(g, rest)
    BY <1>1, SumSame
  <1>5. SumFunctionOnSet(f, rest) \in Int /\ f[e] \in Int /\ g[e] \in Int
    BY <1>1, SumType
  <1> QED
    BY <1>2, <1>3, <1>4, <1>5

\* A sum can be taken group by group: x belongs to the group of at[x], and g
\* is the sum of each group.
THEOREM SumByGroup ==
    ASSUME NEW S, IsFiniteSet(S), NEW D, IsFiniteSet(D),
           NEW f, \A x \in S : f[x] \in Int,
           NEW at, \A x \in S : at[x] \in D,
           NEW group, \A d \in D : group[d] \subseteq S /\ \A x \in S : x \in group[d] <=> at[x] = d,
           NEW g, \A d \in D : g[d] = SumFunctionOnSet(f, group[d])
    PROVE  SumFunctionOnSet(g, D) = SumFunctionOnSet(f, S)
  <1> DEFINE Group(T, d) == {x \in T : at[x] = d}
             Groups(T) == [d \in D |-> SumFunctionOnSet(f, Group(T, d))]
             N == {n \in Nat : \A T \in SUBSET S : Cardinality(T) = n =>
                      SumFunctionOnSet(Groups(T), D) = SumFunctionOnSet(f, T)}
  <1>1. \A T \in SUBSET S : /\ IsFiniteSet(T) /\ Cardinality(T) \in Nat
                            /\ SumFunctionOnSet(f, T) \in Int
    BY FS_Subset, FS_CardinalityType, SumType
  <1>2. 0 \in N
    <2> SUFFICES ASSUME NEW T \in SUBSET S, Cardinality(T) = 0
                 PROVE  SumFunctionOnSet(Groups(T), D) = SumFunctionOnSet(f, T)
      OBVIOUS
    <2>1. T = {} /\ \A d \in D : Group(T, d) = {}
      BY <1>1, FS_EmptySet
    <2>2. \A d \in D : Groups(T)[d] = 0
      BY <2>1, SumEmpty
    <2> HIDE DEF Groups
    <2>3. SumFunctionOnSet(Groups(T), D) = 0
      BY <2>2, SumZero
    <2> QED
      BY <2>1, <2>3, SumEmpty
  <1>3. ASSUME NEW n \in Nat, n \in N PROVE n + 1 \in N
    <2> SUFFICES ASSUME NEW T \in SUBSET S, Cardinality(T) = n + 1
                 PROVE  SumFunctionOnSet(Groups(T), D) = SumFunctionOnSet(f, T)
      OBVIOUS
    <2>1. IsFiniteSet(T) /\ T # {} /\ Pick(T) \in T
      BY <1>1, CountedNonempty, PickIn
    <2>2. PICK e, U : e = Pick(T) /\ U = T \ {Pick(T)}
      OBVIOUS
    <2>3. e \in T /\ e \in S /\ U \in SUBSET S /\ f[e] \in Int /\ at[e] \in D
      BY <2>1, <2>2
    <2>4. SumFunctionOnSet(Groups(U), D) = SumFunctionOnSet(f, U)
      <3>1. Cardinality(U) = n
        BY <2>1, <2>2, OneLess
      <3> HIDE DEF Groups
      <3> QED
        BY <1>3, <2>3, <3>1
    <2>5. SumFunctionOnSet(f, T) = f[e] + SumFunctionOnSet(f, U)
      BY <2>1, <2>2, SumPicks
    <2>6. \A d \in D : Group(T, d) \in SUBSET S /\ Group(U, d) \in SUBSET S
      BY <2>3
    <2>7. \A d \in D : Groups(T)[d] \in Int /\ Groups(U)[d] \in Int
      BY <1>1, <2>6
    <2>8. \A d \in D \ {at[e]} : Groups(T)[d] = Groups(U)[d]
      <3>1. \A d \in D \ {at[e]} : Group(T, d) = Group(U, d)
        BY <2>2
      <3> QED
        BY <3>1
    <2>9. Groups(T)[at[e]] = f[e] + Groups(U)[at[e]]
      <3> DEFINE G == Group(T, at[e])
      <3>1. e \in G /\ G \ {e} = Group(U, at[e])
        BY <2>2, <2>3
      <3>2. IsFiniteSet(G) /\ \A x \in G : f[x] \in Int
        BY <1>1, <2>3, <2>6
      <3> HIDE DEF G
      <3>3. SumFunctionOnSet(f, G) = f[e] + SumFunctionOnSet(f, G \ {e})
        BY <3>1, <3>2, SumRemove
      <3> QED
        BY <2>3, <3>1, <3>3 DEF G
    <2> HIDE DEF Groups, Group
    <2>10. SumFunctionOnSet(Groups(T), D)
             = SumFunctionOnSet(Groups(U), D) + (Groups(T)[at[e]] - Groups(U)[at[e]])
      BY <2>3, <2>7, <2>8, SumUpdate
    <2>11. SumFunctionOnSet(f, U) \in Int /\ Groups(U)[at[e]] \in Int
      BY <1>1, <2>3, <2>7
    <2> QED
      BY <2>3, <2>4, <2>5, <2>9, <2>10, <2>11
  <1> HIDE DEF N
  <1>4. Nat \subseteq N
    BY <1>2, <1>3, SetOfNaturals
  <1>5. SumFunctionOnSet(Groups(S), D) = SumFunctionOnSet(f, S)
    <2>1. S \in SUBSET S /\ Cardinality(S) \in N
      BY <1>1, <1>4
    <2> QED
      BY <2>1 DEF N
  <1>6. \A d \in D : g[d] \in Int /\ g[d] = Groups(S)[d]
    <2>1. \A d \in D : Group(S, d) \in SUBSET S /\ group[d] = Group(S, d)
      OBVIOUS
    <2> QED
      BY <1>1, <2>1
  <1> HIDE DEF Groups
  <1>7. SumFunctionOnSet(g, D) = SumFunctionOnSet(Groups(S), D)
    BY <1>6, SumSame
  <1> QED
    BY <1>5, <1>7

\* What a function returns for the elements of a finite set is finite.
THEOREM ImageFinite ==
    ASSUME NEW S, IsFiniteSet(S), NEW at
    PROVE  IsFiniteSet({at[x] : x \in S})
  <1> DEFINE T == {at[x] : x \in S}
             onto == [x \in S |-> at[x]]
  <1>1. onto \in Surjection(S, T)
    BY Zenon DEF Surjection
  <1> HIDE DEF onto, T
  <1>2. IsFiniteSet(T)
    BY <1>1, FS_Surjection
  <1> QED
    BY <1>2 DEF T

\* Two finite sets have a finite union.
THEOREM UnionFinite == \A S, T : IsFiniteSet(S) /\ IsFiniteSet(T) => IsFiniteSet(S \cup T)
  BY FS_Union

\* The sum of the opposite values.
THEOREM SumNegated ==
    ASSUME NEW S, IsFiniteSet(S), NEW f, NEW g, \A x \in S : f[x] \in Int /\ g[x] = -f[x]
    PROVE  SumFunctionOnSet(g, S) = -SumFunctionOnSet(f, S)
  <1> DEFINE zero == [x \in S |-> 0]
  <1>1. SumFunctionOnSet(f, S) \in Int /\ SumFunctionOnSet(g, S) \in Int
    BY SumType
  <1>2. SumFunctionOnSet(zero, S) = 0
    BY SumZero
  <1>3. \A x \in S : f[x] \in Int /\ g[x] \in Int /\ zero[x] = f[x] + g[x]
    OBVIOUS
  <1> HIDE DEF zero
  <1>4. SumFunctionOnSet(zero, S) = SumFunctionOnSet(f, S) + SumFunctionOnSet(g, S)
    BY <1>3, SumPlus
  <1>5. \A m, n \in Int : 0 = m + n => n = -m
    OBVIOUS
  <1> QED
    BY <1>1, <1>2, <1>4, <1>5, Zenon

-----------------------------------------------------------------------------
(* Sums over the first elements of a sequence                              *)

\* The first numbers are finitely many.
LEMMA FirstFinite == \A n \in Nat : IsFiniteSet(1 .. n)
  <1> TAKE n \in Nat
  <1>1. 1 \in Int /\ n \in Int
    OBVIOUS
  <1> QED
    BY <1>1, FS_Interval

\* One element more.
THEOREM SumNext ==
    ASSUME NEW f, NEW n \in Nat, \A i \in 1 .. n + 1 : f[i] \in Int
    PROVE  SumFunctionOnSet(f, 1 .. n + 1) = SumFunctionOnSet(f, 1 .. n) + f[n + 1]
  <1>1. IsFiniteSet(1 .. n + 1) /\ IsFiniteSet(1 .. n)
    <2>1. n + 1 \in Nat
      OBVIOUS
    <2> QED
      BY <2>1, FirstFinite
  <1>2. n + 1 \in 1 .. n + 1 /\ (1 .. n + 1) \ {n + 1} = 1 .. n
    OBVIOUS
  <1>3. SumFunctionOnSet(f, 1 .. n + 1) = f[n + 1] + SumFunctionOnSet(f, (1 .. n + 1) \ {n + 1})
    BY <1>1, <1>2, SumRemove, Zenon
  <1>4. SumFunctionOnSet(f, 1 .. n) \in Int /\ f[n + 1] \in Int
    <2>1. \A i \in 1 .. n : f[i] \in Int
      OBVIOUS
    <2> QED
      BY <1>1, <1>2, <2>1, SumType
  <1>5. SumFunctionOnSet(f, 1 .. n + 1) = f[n + 1] + SumFunctionOnSet(f, 1 .. n)
    BY <1>2, <1>3, Zenon
  <1>6. \A x, y \in Int : x + y = y + x
    OBVIOUS
  <1> QED
    BY <1>4, <1>5, <1>6, Zenon

\* h has the first m values of f and then the first n of g.
Joins(h, f, m, g, n) ==
    /\ \A i \in 1 .. m : f[i] \in Int /\ h[i] = f[i]
    /\ \A i \in 1 .. n : g[i] \in Int /\ h[m + i] = g[i]

\* Its sum is that of both.
THEOREM SumJoined ==
    \A m, n \in Nat : \A f, g, h : Joins(h, f, m, g, n) =>
        SumFunctionOnSet(h, 1 .. m + n) = SumFunctionOnSet(f, 1 .. m) + SumFunctionOnSet(g, 1 .. n)
  <1> TAKE m, n \in Nat
  <1> TAKE f, g, h
  <1> HAVE Joins(h, f, m, g, n)
  <1> USE DEF Joins
  <1> DEFINE N == {k \in Nat : k <= n => SumFunctionOnSet(h, 1 .. m + k)
                      = SumFunctionOnSet(f, 1 .. m) + SumFunctionOnSet(g, 1 .. k)}
  <1>1. SumFunctionOnSet(f, 1 .. m) \in Int /\ SumFunctionOnSet(h, 1 .. m) = SumFunctionOnSet(f, 1 .. m)
    BY FirstFinite, SumType, SumSame
  <1>2. 0 \in N
    <2>1. 1 .. 0 = {} /\ m + 0 = m
      OBVIOUS
    <2>2. SumFunctionOnSet(g, 1 .. 0) = 0
      BY <2>1, SumEmpty
    <2> QED
      BY <1>1, <2>1, <2>2
  <1>3. ASSUME NEW k \in Nat, k \in N PROVE k + 1 \in N
    <2> SUFFICES ASSUME k + 1 <= n
                 PROVE  SumFunctionOnSet(h, 1 .. m + (k + 1))
                          = SumFunctionOnSet(f, 1 .. m) + SumFunctionOnSet(g, 1 .. k + 1)
      OBVIOUS
    <2>1. SumFunctionOnSet(h, 1 .. m + k) = SumFunctionOnSet(f, 1 .. m) + SumFunctionOnSet(g, 1 .. k)
      BY <1>3
    <2>2. \A i \in 1 .. k + 1 : g[i] \in Int
      OBVIOUS
    <2>3. SumFunctionOnSet(g, 1 .. k + 1) = SumFunctionOnSet(g, 1 .. k) + g[k + 1]
      BY <2>2, SumNext
    <2>4. SumFunctionOnSet(h, 1 .. (m + k) + 1) = SumFunctionOnSet(h, 1 .. m + k) + h[(m + k) + 1]
      <3>1. ASSUME NEW i \in 1 .. (m + k) + 1 PROVE h[i] \in Int
        <4>1. CASE i <= m
          BY <4>1
        <4>2. CASE i > m
          <5>1. i - m \in 1 .. n /\ m + (i - m) = i
            BY <4>2
          <5> QED
            BY <5>1
        <4> QED
          BY <4>1, <4>2
      <3>2. m + k \in Nat
        OBVIOUS
      <3> QED
        BY <3>1, <3>2, SumNext
    <2>5. (m + k) + 1 = m + (k + 1) /\ k + 1 \in 1 .. n
      OBVIOUS
    <2>6. h[m + (k + 1)] = g[k + 1] /\ g[k + 1] \in Int
      BY <2>5
    <2>7. SumFunctionOnSet(g, 1 .. k) \in Int
      <3>1. IsFiniteSet(1 .. k) /\ \A i \in 1 .. k : g[i] \in Int
        BY FirstFinite
      <3> QED
        BY <3>1, SumType
    <2> QED
      BY <1>1, <2>1, <2>3, <2>4, <2>5, <2>6, <2>7
  <1> HIDE DEF N
  <1>4. Nat \subseteq N
    BY <1>2, <1>3, SetOfNaturals
  <1> QED
    BY <1>4 DEF N
=============================================================================
