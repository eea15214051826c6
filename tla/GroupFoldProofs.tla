-------------------------- MODULE GroupFoldProofs --------------------------
(***************************************************************************)
(* That the fold of a factorized representation into groups, and the merge *)
(* of what the buckets give, name exactly the groups of the flat join,     *)
(* with their exact counts and sums, and their exact extremes where the    *)
(* keys do not lie in sibling branches: for every f-tree, representation   *)
(* over it, keys, aggregates and buckets.                                  *)
(*                                                                         *)
(* The argument. A fold "stands" for a set of rows over some levels of the *)
(* f-tree if it counts and sums them (Standing). Rows over disjoint levels *)
(* multiply, and then Combine stands for the product (StandingTimes);      *)
(* disjoint sets of rows over the same levels add, and then Alternatives   *)
(* stands for the union (StandingFamily). The rows below a record are the  *)
(* product of its copies and of the rows of its slots (RowsSplit), those   *)
(* of a slot the union of its children's, so by induction over the levels  *)
(* the subtree aggregates are those of the rows below the record (SizeIs,  *)
(* SumsAre, ExtremesAre).                                                  *)
(*                                                                         *)
(* A call of the walk is right if the groups it returns are those of the   *)
(* product of the rows that its fold stands for with the rows below the    *)
(* slots it has to take, each group standing for its own rows (CrossGood); *)
(* by induction on the number of levels left every call is (CrossAll).     *)
(* Where two slots have to be crossed the walk starts a branch from        *)
(* NewFold, whose extremes stand for nothing: it is there, and only there, *)
(* that the extremes of a group can be wrong.                              *)
(*                                                                         *)
(* tlapm knows a recursive function by its definition as a CHOOSE only:    *)
(* that there is a function with that body is proved for each of them from *)
(* Recursion, whose rank falls with every call.                            *)
(***************************************************************************)
EXTENDS GroupFold, FiniteSetTheorems, WellFoundedInduction, NaturalsInduction, TLAPS

(* A set of numbers that is not empty has a least one.                     *)
LEMMA LeastOf ==
  ASSUME NEW T \in SUBSET Nat, T # {}
  PROVE  \E n \in T : \A m \in T : n <= m
<1>1. PICK n \in T : \A m \in T : ~(<<m, n>> \in OpToRel(<, Nat))
  BY WFMin, NatLessThanWellFounded
<1>2. \A m \in T : ~(m < n) BY <1>1 DEF OpToRel
<1> QED BY <1>2

(* What is zero's and passes from a number to the next is every number's.  *)
LEMMA Climb ==
  ASSUME NEW S \in SUBSET Nat, 0 \in S, \A n \in S : n + 1 \in S
  PROVE  S = Nat
<1> SUFFICES ASSUME NEW m \in Nat, m \notin S PROVE FALSE OBVIOUS
<1> DEFINE T == Nat \ S
<1>1. PICK n \in T : \A k \in T : n <= k BY LeastOf
<1>2. n # 0 /\ n - 1 \in Nat BY <1>1
<1>3. n - 1 \in S BY <1>1, <1>2
<1> QED BY <1>1, <1>2, <1>3

(* G computes the value at a place from the values of lower rank.          *)
Guarded(D, V, bound, rank, G) ==
  /\ bound \in Nat /\ rank \in [D -> 0 .. bound] /\ G \in [D -> [[D -> V] -> V]]
  /\ \A x \in D : \A f, g \in [D -> V] :
       (\A y \in D : rank[y] < rank[x] => f[y] = g[y]) => G[x][f] = G[x][g]

(* A definition by recursion on a rank defines a function.                 *)
LEMMA Recursion ==
  ASSUME NEW D, NEW V, NEW v \in V, NEW bound, NEW rank, NEW G, Guarded(D, V, bound, rank, G)
  PROVE  \E f \in [D -> V] : \A x \in D : f[x] = G[x][f]
<1> USE DEF Guarded
<1> DEFINE S == {n \in Nat : \E f \in [D -> V] : \A x \in D : rank[x] < n => f[x] = G[x][f]}
<1>1. 0 \in S
  <2>1. [x \in D |-> v] \in [D -> V] OBVIOUS
  <2>2. \A x \in D : ~(rank[x] < 0) OBVIOUS
  <2> QED BY <2>1, <2>2
<1>2. ASSUME NEW n \in S PROVE n + 1 \in S
  <2>1. PICK f \in [D -> V] : \A x \in D : rank[x] < n => f[x] = G[x][f] OBVIOUS
  <2> DEFINE g == [x \in D |-> IF rank[x] < n THEN f[x] ELSE G[x][f]]
  <2>2. g \in [D -> V] OBVIOUS
  <2>3. \A y \in D : rank[y] < n => g[y] = f[y] OBVIOUS
  <2>4. ASSUME NEW x \in D, rank[x] < n + 1 PROVE g[x] = G[x][g]
    <3>1. rank[x] \in Nat /\ rank[x] <= n BY <2>4
    <3>2. \A y \in D : rank[y] < rank[x] => f[y] = g[y]
      <4>1. \A y \in D : rank[y] \in Nat OBVIOUS
      <4> QED BY <3>1, <2>3, <4>1
    <3> HIDE DEF g
    <3>3. G[x][f] = G[x][g] BY <3>2, <2>2
    <3>4. g[x] = G[x][f] BY <2>1, <3>1 DEF g
    <3> QED BY <3>3, <3>4
  <2> HIDE DEF g
  <2>5. n + 1 \in Nat OBVIOUS
  <2> QED BY <2>2, <2>4, <2>5
<1>3. S \in SUBSET Nat OBVIOUS
<1> HIDE DEF S
<1>4. S = Nat BY <1>1, <1>2, <1>3, Climb
<1>5. bound + 1 \in S BY <1>4
<1>6. PICK f \in [D -> V] : \A x \in D : rank[x] < bound + 1 => f[x] = G[x][f] BY <1>5 DEF S
<1>7. \A x \in D : rank[x] < bound + 1 OBVIOUS
<1> QED BY <1>6, <1>7

-----------------------------------------------------------------------------
(* A finite set has fewer elements without one of them.                    *)
LEMMA Without ==
  ASSUME NEW S, IsFiniteSet(S), NEW x \in S
  PROVE  /\ IsFiniteSet(S \ {x}) /\ Cardinality(S) \in Nat /\ Cardinality(S \ {x}) \in Nat
         /\ Cardinality(S) = Cardinality(S \ {x}) + 1
<1>1. Cardinality(S) \in Nat BY FS_CardinalityType
<1>2. IsFiniteSet(S \ {x}) /\ Cardinality(S \ {x}) = Cardinality(S) - 1 BY FS_RemoveElement
<1>3. Cardinality(S \ {x}) \in Nat BY <1>2, FS_CardinalityType
<1> QED BY <1>1, <1>2, <1>3

(* A measure of the subsets of S gains f for each element.                 *)
Gains(m, S, f) ==
  /\ m \in [SUBSET S -> Int] /\ m[{}] = 0
  /\ \A T \in SUBSET S : \A x \in S \ T : m[T \cup {x}] = m[T] + f[x]

(* Set measures that gain the same for each element are the same.          *)
LEMMA SameMeasure ==
  ASSUME NEW S, IsFiniteSet(S), NEW f \in [S -> Int], NEW m, NEW k, Gains(m, S, f), Gains(k, S, f)
  PROVE  m[S] = k[S]
<1> USE DEF Gains
<1> DEFINE Same(n) == \A T \in SUBSET S : IsFiniteSet(T) /\ Cardinality(T) = n => m[T] = k[T]
           N == {n \in Nat : Same(n)}
<1>1. 0 \in N
  <2>1. \A T \in SUBSET S : IsFiniteSet(T) /\ Cardinality(T) = 0 => T = {} BY FS_EmptySet
  <2> QED BY <2>1
<1>2. ASSUME NEW n \in N PROVE n + 1 \in N
  <2> SUFFICES ASSUME NEW T \in SUBSET S, IsFiniteSet(T), Cardinality(T) = n + 1
               PROVE  m[T] = k[T]
    OBVIOUS
  <2>1. T # {} BY FS_EmptySet
  <2>2. PICK x \in T : TRUE BY <2>1
  <2> DEFINE U == T \ {x}
  <2>3. /\ IsFiniteSet(U) /\ Cardinality(U) = n /\ U \in SUBSET S /\ x \in S \ U
        /\ U \cup {x} = T
    <3>1. IsFiniteSet(U) /\ Cardinality(U) \in Nat /\ Cardinality(T) = Cardinality(U) + 1
      BY Without
    <3>2. Cardinality(U) = n BY <3>1
    <3> QED BY <3>1, <3>2
  <2>4. m[U] = k[U] BY <2>3
  <2> HIDE DEF U
  <2>5. m[U \cup {x}] = m[U] + f[x] /\ k[U \cup {x}] = k[U] + f[x] BY <2>3
  <2> QED BY <2>3, <2>4, <2>5
<1>3. N = Nat
  <2> HIDE DEF Same
  <2> QED BY <1>1, <1>2, Climb
<1>4. Cardinality(S) \in N BY <1>3, FS_CardinalityType
<1> QED BY <1>4

(* What SumFunction computes: one element after the other, in any order.   *)
LEMMA SumSteps ==
  ASSUME NEW S, IsFiniteSet(S), NEW f \in [S -> Int]
  PROVE  \E m : Gains(m, S, f) /\ SumFunction(f) = m[S]
<1> DEFINE D == SUBSET S
           Pick(s) == CHOOSE x \in s : TRUE
           rank == [s \in D |-> Cardinality(s)]
           G == [s \in D |-> [g \in [D -> Int] |->
                   IF s = {} THEN 0 ELSE f[Pick(s)] + g[s \ {Pick(s)}]]]
           bound == Cardinality(S)
<1>1. \A s \in D : IsFiniteSet(s) /\ Cardinality(s) \in Nat /\ Cardinality(s) <= bound
  BY FS_Subset, FS_CardinalityType
<1>2. bound \in Nat /\ rank \in [D -> 0 .. bound]
  <2>1. bound \in Nat BY FS_CardinalityType
  <2> QED BY <1>1, <2>1
<1>3. \A s \in D : s # {} => /\ Pick(s) \in s /\ s \ {Pick(s)} \in D
                             /\ Cardinality(s) = Cardinality(s \ {Pick(s)}) + 1
  <2> SUFFICES ASSUME NEW s \in D, s # {}
               PROVE  /\ Pick(s) \in s /\ s \ {Pick(s)} \in D
                      /\ Cardinality(s) = Cardinality(s \ {Pick(s)}) + 1
    OBVIOUS
  <2>1. Pick(s) \in s OBVIOUS
  <2> HIDE DEF Pick
  <2> QED BY <2>1, <1>1, Without
<1> HIDE DEF Pick
<1>4. G \in [D -> [[D -> Int] -> Int]]
  <2>1. ASSUME NEW s \in D, NEW g \in [D -> Int] PROVE G[s][g] \in Int
    <3>1. CASE s = {} BY <3>1
    <3>2. CASE s # {}
      <4>1. Pick(s) \in S /\ s \ {Pick(s)} \in D BY <3>2, <1>3
      <4>2. f[Pick(s)] \in Int /\ g[s \ {Pick(s)}] \in Int BY <4>1
      <4> QED BY <3>2, <4>2
    <3> QED BY <3>1, <3>2
  <2> QED BY <2>1
<1>5. ASSUME NEW s \in D, NEW g \in [D -> Int], NEW h \in [D -> Int],
             \A y \in D : rank[y] < rank[s] => g[y] = h[y]
      PROVE  G[s][g] = G[s][h]
  <2>1. CASE s = {} BY <2>1
  <2>2. CASE s # {}
    <3> DEFINE t == s \ {Pick(s)}
    <3>1. t \in D /\ rank[t] < rank[s] BY <2>2, <1>3, <1>1
    <3>2. g[t] = h[t] BY <3>1, <1>5
    <3> QED BY <2>2, <3>2
  <2> QED BY <2>1, <2>2
<1>6. \E g \in [D -> Int] : \A s \in D : g[s] = G[s][g]
  <2>1. \A s \in D : \A g, h \in [D -> Int] :
          (\A y \in D : rank[y] < rank[s] => g[y] = h[y]) => G[s][g] = G[s][h]
    BY <1>5
  <2> HIDE DEF D, rank, G, bound
  <2>2. Guarded(D, Int, bound, rank, G) BY <1>2, <1>4, <2>1 DEF Guarded
  <2> QED BY <2>2, Recursion
<1>7. PICK m \in [D -> Int] : \A s \in D : m[s] = G[s][m] BY <1>6
<1>8. \A s \in D : m[s] = IF s = {} THEN 0 ELSE f[Pick(s)] + m[s \ {Pick(s)}]
  BY <1>7
<1> DEFINE Iter(g) == [s \in D |-> IF s = {} THEN 0 ELSE f[Pick(s)] + g[s \ {Pick(s)}]]
<1>9. m = Iter(m) BY <1>8
<1>10. SumFunction(f) = (CHOOSE g : g = Iter(g))[S]
  <2>1. DOMAIN f = S OBVIOUS
  <2> QED BY <2>1 DEF SumFunction, SumFunctionOnSet, FoldFunctionOnSet, MapThenFoldSet, Pick
<1> DEFINE k == CHOOSE g : g = Iter(g)
<1>11. k = Iter(k) BY <1>9
<1> HIDE DEF k
<1>12. DOMAIN k = D /\ \A s \in D : k[s] = IF s = {} THEN 0 ELSE f[Pick(s)] + k[s \ {Pick(s)}]
  BY <1>11
<1> HIDE DEF Iter
<1>13. \A s \in D : k[s] = m[s]
  <2> DEFINE N == {n \in Nat : \A s \in D : Cardinality(s) = n => k[s] = m[s]}
  <2>1. 0 \in N
    <3>1. \A s \in D : Cardinality(s) = 0 => s = {} BY <1>1, FS_EmptySet
    <3> QED BY <3>1, <1>8, <1>12
  <2>2. ASSUME NEW n \in N PROVE n + 1 \in N
    <3> SUFFICES ASSUME NEW s \in D, Cardinality(s) = n + 1 PROVE k[s] = m[s] OBVIOUS
    <3>1. s # {} BY FS_EmptySet
    <3>2. s \ {Pick(s)} \in D /\ Cardinality(s \ {Pick(s)}) = n
      <4>1. s \ {Pick(s)} \in D /\ Cardinality(s) = Cardinality(s \ {Pick(s)}) + 1 BY <3>1, <1>3
      <4>2. Cardinality(s \ {Pick(s)}) \in Nat BY <4>1, <1>1
      <4> QED BY <4>1, <4>2
    <3>3. k[s \ {Pick(s)}] = m[s \ {Pick(s)}] BY <3>2
    <3> QED BY <3>1, <3>3, <1>8, <1>12
  <2>3. N \in SUBSET Nat OBVIOUS
  <2> HIDE DEF N
  <2>4. N = Nat BY <2>1, <2>2, <2>3, Climb
  <2> QED BY <2>4, <1>1 DEF N
<1>14. SumFunction(f) = m[S] BY <1>10, <1>13 DEF k
<1> DEFINE Any(n) == \A s \in D : Cardinality(s) = n => \A x \in s : m[s] = m[s \ {x}] + f[x]
           N == {n \in Nat : Any(n)}
<1>15. 0 \in N
  <2>1. \A s \in D : Cardinality(s) = 0 => s = {} BY <1>1, FS_EmptySet
  <2> QED BY <2>1
<1>16. ASSUME NEW n \in N PROVE n + 1 \in N
  <2> SUFFICES ASSUME NEW s \in D, Cardinality(s) = n + 1, NEW x \in s
               PROVE  m[s] = m[s \ {x}] + f[x]
    OBVIOUS
  <2> DEFINE c == Pick(s)
  <2>1. s # {} OBVIOUS
  <2>2. c \in s BY <1>3, <2>1
  <2> HIDE DEF c
  <2>3. m[s] = f[c] + m[s \ {c}] BY <1>8, <2>1 DEF c
  <2>4. CASE c = x
    <3>1. s \ {x} \in D OBVIOUS
    <3>2. m[s \ {x}] \in Int /\ f[x] \in Int BY <3>1
    <3> QED BY <2>3, <2>4, <3>2
  <2>5. CASE c # x
    <3> DEFINE r == (s \ {c}) \ {x}
    <3>1. /\ s \ {c} \in D /\ s \ {x} \in D /\ r \in D /\ r = (s \ {x}) \ {c}
          /\ x \in s \ {c} /\ c \in s \ {x}
      BY <2>2, <2>5
    <3>2. Cardinality(s \ {c}) = n /\ Cardinality(s \ {x}) = n
      <4>1. IsFiniteSet(s) BY <1>1
      <4>2. /\ Cardinality(s \ {c}) \in Nat /\ Cardinality(s) = Cardinality(s \ {c}) + 1
        BY <2>2, <4>1, Without
      <4>3. /\ Cardinality(s \ {x}) \in Nat /\ Cardinality(s) = Cardinality(s \ {x}) + 1
        BY <4>1, Without
      <4> QED BY <4>2, <4>3
    <3>3. m[s \ {c}] = m[r] + f[x] BY <3>1, <3>2
    <3>4. m[s \ {x}] = m[r] + f[c]
      <4> DEFINE t == s \ {x}
      <4>1. t \in D /\ Cardinality(t) = n /\ c \in t /\ r = t \ {c} BY <3>1, <3>2
      <4> HIDE DEF t
      <4>2. m[t] = m[t \ {c}] + f[c] BY <4>1
      <4> QED BY <4>1, <4>2 DEF t
    <3>5. m[r] \in Int /\ f[c] \in Int /\ f[x] \in Int BY <3>1, <2>2
    <3> HIDE DEF r
    <3> QED BY <2>3, <3>3, <3>4, <3>5
  <2> QED BY <2>4, <2>5
<1>17. N = Nat
  <2> HIDE DEF Any
  <2> QED BY <1>15, <1>16, Climb
<1>18. ASSUME NEW T \in SUBSET S, NEW x \in S \ T PROVE m[T \cup {x}] = m[T] + f[x]
  <2>1. T \cup {x} \in D /\ (T \cup {x}) \ {x} = T /\ x \in T \cup {x} OBVIOUS
  <2>2. Cardinality(T \cup {x}) \in N BY <2>1, <1>1, <1>17
  <2> QED BY <2>1, <2>2
<1>19. m[{}] = 0 BY <1>8
<1>20. Gains(m, S, f) BY <1>18, <1>19 DEF Gains
<1> QED BY <1>14, <1>20

(* A sum is what any measure with its gains makes of the whole set.        *)
LEMMA SumOf ==
  ASSUME NEW S, IsFiniteSet(S), NEW f \in [S -> Int],
         NEW k, Gains(k, S, f)
  PROVE  SumFunction(f) = k[S]
<1>1. PICK m : Gains(m, S, f) /\ SumFunction(f) = m[S] BY SumSteps
<1> QED BY <1>1, SameMeasure

(* The sum of f over a set. *)
Total(S, f) == SumFunction([x \in S |-> f[x]])

(* m is the sum over each subset of S. *)
Measures(m, S, f) == Gains(m, S, f) /\ \A T \in SUBSET S : Total(T, f) = m[T]

(* The sums over the subsets are such a measure. *)
LEMMA TotalSteps ==
  ASSUME NEW S, IsFiniteSet(S), NEW f \in [S -> Int]
  PROVE  \E m : Measures(m, S, f)
<1>1. PICK m : Gains(m, S, f) /\ SumFunction(f) = m[S] BY SumSteps
<1> USE DEF Gains
<1>2. ASSUME NEW T \in SUBSET S PROVE Total(T, f) = m[T]
  <2> DEFINE h == [x \in T |-> f[x]]
             k == [U \in SUBSET T |-> m[U]]
  <2>1. IsFiniteSet(T) BY FS_Subset
  <2>2. h \in [T -> Int] /\ k \in [SUBSET T -> Int] /\ k[{}] = 0 BY <1>1
  <2>3. \A U \in SUBSET T : \A x \in T \ U : k[U \cup {x}] = k[U] + h[x]
    <3> SUFFICES ASSUME NEW U \in SUBSET T, NEW x \in T \ U PROVE k[U \cup {x}] = k[U] + h[x]
      OBVIOUS
    <3>1. U \in SUBSET S /\ x \in S \ U /\ U \cup {x} \in SUBSET T OBVIOUS
    <3> QED BY <3>1, <1>1
  <2>4. Total(T, f) = SumFunction(h) /\ k[T] = m[T] BY DEF Total
  <2> HIDE DEF h, k
  <2>5. Gains(k, T, h) BY <2>1, <2>2, <2>3, <2>4 DEF Gains
  <2> QED BY <2>1, <2>2, <2>3, <2>4, <2>5, SumOf
<1> QED BY <1>1, <1>2 DEF Measures

(* The sum of f over all of its domain. *)
LEMMA TotalWhole == ASSUME NEW S, NEW f \in [S -> Int] PROVE Total(S, f) = SumFunction(f)
<1>1. [x \in S |-> f[x]] = f OBVIOUS
<1> QED BY <1>1 DEF Total

(* The sum of finitely many integers is one. *)
LEMMA SumType ==
  ASSUME NEW S, IsFiniteSet(S), NEW f \in [S -> Int] PROVE SumFunction(f) \in Int
<1>1. PICK m : Measures(m, S, f) BY TotalSteps
<1> QED BY <1>1, TotalWhole DEF Measures, Gains

(* So is the sum over a part of them. *)
LEMMA TotalType ==
  ASSUME NEW S, IsFiniteSet(S), NEW f \in [S -> Int], NEW T \in SUBSET S PROVE Total(T, f) \in Int
<1>1. PICK m : Measures(m, S, f) BY TotalSteps
<1> QED BY <1>1 DEF Measures, Gains

(* The sum over nothing. *)
LEMMA TotalEmpty == ASSUME NEW f PROVE Total({}, f) = 0
<1> DEFINE h == [x \in {} |-> 0]
<1>1. IsFiniteSet({}) BY FS_EmptySet
<1>2. h \in [{} -> Int] OBVIOUS
<1>3. [x \in {} |-> f[x]] = h OBVIOUS
<1>4. Total({}, f) = SumFunction(h) BY <1>3 DEF Total
<1> DEFINE k == [U \in SUBSET {} |-> 0]
<1>5. k \in [SUBSET {} -> Int] /\ k[{}] = 0 OBVIOUS
<1>6. \A U \in SUBSET {} : \A x \in {} \ U : k[U \cup {x}] = k[U] + h[x] OBVIOUS
<1> HIDE DEF h, k
<1>6a. Gains(k, {}, h) BY <1>5, <1>6 DEF Gains
<1>7. SumFunction(h) = k[{}] BY <1>1, <1>2, <1>6a, SumOf
<1> QED BY <1>4, <1>5, <1>7

(* One element more. *)
LEMMA TotalMore ==
  ASSUME NEW S, IsFiniteSet(S), NEW f \in [S -> Int], NEW T \in SUBSET S, NEW x \in S \ T
  PROVE  Total(T \cup {x}, f) = Total(T, f) + f[x]
<1>1a. PICK m : Measures(m, S, f) BY TotalSteps
<1>1. m \in [SUBSET S -> Int] /\ m[{}] = 0
       /\ (\A V \in SUBSET S : Total(V, f) = m[V])
       /\ (\A V \in SUBSET S : \A y \in S \ V : m[V \cup {y}] = m[V] + f[y])
  BY <1>1a DEF Measures, Gains
<1>2. T \cup {x} \in SUBSET S OBVIOUS
<1> QED BY <1>1, <1>2

(* The sum over two disjoint sets. *)
LEMMA TotalUnion ==
  ASSUME NEW S, IsFiniteSet(S), NEW f \in [S -> Int],
         NEW T \in SUBSET S, NEW U \in SUBSET S, T \cap U = {}
  PROVE  Total(T \cup U, f) = Total(T, f) + Total(U, f)
<1>1a. PICK m : Measures(m, S, f) BY TotalSteps
<1>1. m \in [SUBSET S -> Int] /\ m[{}] = 0
       /\ (\A V \in SUBSET S : Total(V, f) = m[V])
       /\ (\A V \in SUBSET S : \A y \in S \ V : m[V \cup {y}] = m[V] + f[y])
  BY <1>1a DEF Measures, Gains
<1> DEFINE k == [V \in SUBSET T |-> m[V \cup U] - m[U]]
           h == [x \in T |-> f[x]]
<1>2. IsFiniteSet(T) BY FS_Subset
<1>3. h \in [T -> Int] /\ k \in [SUBSET T -> Int] /\ k[{}] = 0
  <2>1. \A V \in SUBSET T : V \cup U \in SUBSET S OBVIOUS
  <2>2. k \in [SUBSET T -> Int] BY <2>1, <1>1
  <2>3. {} \cup U = U OBVIOUS
  <2>4. k[{}] = m[U] - m[U] BY <2>3
  <2> QED BY <2>2, <2>4, <1>1
<1>4. \A V \in SUBSET T : \A x \in T \ V : k[V \cup {x}] = k[V] + h[x]
  <2> SUFFICES ASSUME NEW V \in SUBSET T, NEW x \in T \ V PROVE k[V \cup {x}] = k[V] + h[x]
    OBVIOUS
  <2>1. (V \cup {x}) \cup U = (V \cup U) \cup {x} OBVIOUS
  <2>2. V \cup U \in SUBSET S /\ x \in S \ (V \cup U) /\ V \cup {x} \in SUBSET T OBVIOUS
  <2>3. m[(V \cup U) \cup {x}] = m[V \cup U] + f[x] BY <2>2, <1>1
  <2>4. m[V \cup U] \in Int /\ m[U] \in Int /\ f[x] \in Int BY <2>2, <1>1
  <2>5. k[V \cup {x}] = m[(V \cup U) \cup {x}] - m[U] BY <2>1, <2>2
  <2> QED BY <2>3, <2>4, <2>5
<1>5. SumFunction(h) = k[T]
  <2> HIDE DEF k, h
  <2>5. Gains(k, T, h) BY <1>2, <1>3, <1>4 DEF Gains
  <2> QED BY <1>2, <1>3, <1>4, <2>5, SumOf
<1>6. Total(T, f) = m[T \cup U] - m[U] BY <1>5 DEF Total
<1>7. T \cup U \in SUBSET S OBVIOUS
<1>8. Total(T \cup U, f) = m[T \cup U] /\ Total(U, f) = m[U] BY <1>1, <1>7
<1>9. m[T \cup U] \in Int /\ m[U] \in Int BY <1>7, <1>1
<1> QED BY <1>6, <1>8, <1>9

(* The order of the terms, and their names, do not matter. *)
LEMMA SumReindex ==
  ASSUME NEW S, NEW T, IsFiniteSet(S), IsFiniteSet(T), NEW f \in [T -> Int], NEW h \in [S -> T],
         \A x, y \in S : h[x] = h[y] => x = y, \A t \in T : \E x \in S : h[x] = t
  PROVE  SumFunction([x \in S |-> f[h[x]]]) = SumFunction(f)
<1>1a. PICK m : Measures(m, T, f) BY TotalSteps
<1>1. m \in [SUBSET T -> Int] /\ m[{}] = 0
       /\ (\A V \in SUBSET T : Total(V, f) = m[V])
       /\ (\A V \in SUBSET T : \A y \in T \ V : m[V \cup {y}] = m[V] + f[y])
  BY <1>1a DEF Measures, Gains
<1> DEFINE Image(U) == {h[x] : x \in U}
           k == [U \in SUBSET S |-> m[Image(U)]]
           g == [x \in S |-> f[h[x]]]
<1>2. g \in [S -> Int] /\ k \in [SUBSET S -> Int] /\ k[{}] = 0
  <2>1. \A U \in SUBSET S : Image(U) \in SUBSET T OBVIOUS
  <2>2. Image({}) = {} OBVIOUS
  <2>3. {} \in SUBSET S OBVIOUS
  <2> HIDE DEF Image
  <2> QED BY <1>1, <2>1, <2>2, <2>3
<1>3. \A U \in SUBSET S : \A x \in S \ U : k[U \cup {x}] = k[U] + g[x]
  <2> SUFFICES ASSUME NEW U \in SUBSET S, NEW x \in S \ U PROVE k[U \cup {x}] = k[U] + g[x]
    OBVIOUS
  <2>1. Image(U \cup {x}) = Image(U) \cup {h[x]} /\ h[x] \in T \ Image(U) /\ Image(U) \in SUBSET T
    OBVIOUS
  <2> HIDE DEF Image
  <2>2. U \cup {x} \in SUBSET S OBVIOUS
  <2>3. m[Image(U) \cup {h[x]}] = m[Image(U)] + f[h[x]] BY <2>1, <1>1
  <2> QED BY <2>1, <2>2, <2>3
<1>4. Image(S) = T OBVIOUS
<1>5. SumFunction(g) = k[S]
  <2> HIDE DEF k, g
  <2>5. Gains(k, S, g) BY <1>2, <1>3 DEF Gains
  <2> QED BY <1>2, <1>3, <2>5, SumOf
<1>6. SumFunction(g) = m[T] BY <1>4, <1>5
<1>7. SumFunction(f) = m[T] BY <1>1, TotalWhole
<1> QED BY <1>6, <1>7

(* Scaling, and adding to each term. *)
LEMMA SumLinear ==
  ASSUME NEW S, IsFiniteSet(S), NEW f \in [S -> Int], NEW g \in [S -> Int], NEW c \in Int
  PROVE  SumFunction([x \in S |-> c * f[x] + g[x]]) = c * SumFunction(f) + SumFunction(g)
<1>1a. PICK m : Measures(m, S, f) BY TotalSteps
<1>1. m \in [SUBSET S -> Int] /\ m[{}] = 0
       /\ (\A V \in SUBSET S : Total(V, f) = m[V])
       /\ (\A V \in SUBSET S : \A y \in S \ V : m[V \cup {y}] = m[V] + f[y])
  BY <1>1a DEF Measures, Gains
<1>2b. PICK n : Measures(n, S, g) BY TotalSteps
<1>2. n \in [SUBSET S -> Int] /\ n[{}] = 0
       /\ (\A V \in SUBSET S : Total(V, g) = n[V])
       /\ (\A V \in SUBSET S : \A y \in S \ V : n[V \cup {y}] = n[V] + g[y])
  BY <1>2b DEF Measures, Gains
<1> DEFINE k == [U \in SUBSET S |-> c * m[U] + n[U]]
           h == [x \in S |-> c * f[x] + g[x]]
<1>3. \A a, b \in Int : c * a + b \in Int OBVIOUS
<1>4. h \in [S -> Int] /\ k \in [SUBSET S -> Int] /\ k[{}] = 0
  <2>1. k[{}] = c * 0 + 0 BY <1>1, <1>2
  <2>2. c * 0 + 0 = 0 OBVIOUS
  <2> QED BY <1>1, <1>2, <1>3, <2>1, <2>2
<1>5. \A U \in SUBSET S : \A x \in S \ U : k[U \cup {x}] = k[U] + h[x]
  <2> SUFFICES ASSUME NEW U \in SUBSET S, NEW x \in S \ U PROVE k[U \cup {x}] = k[U] + h[x]
    OBVIOUS
  <2>1. U \cup {x} \in SUBSET S OBVIOUS
  <2>2. m[U \cup {x}] = m[U] + f[x] /\ n[U \cup {x}] = n[U] + g[x] BY <1>1, <1>2
  <2>3. k[U \cup {x}] = c * (m[U] + f[x]) + (n[U] + g[x]) BY <2>1, <2>2
  <2>4. k[U] = c * m[U] + n[U] /\ h[x] = c * f[x] + g[x] OBVIOUS
  <2>5. m[U] \in Int /\ n[U] \in Int /\ f[x] \in Int /\ g[x] \in Int BY <1>1, <1>2
  <2>6. \A a, b, p, q \in Int : c * (a + p) + (b + q) = (c * a + b) + (c * p + q) OBVIOUS
  <2> HIDE DEF k, h
  <2> QED BY <2>3, <2>4, <2>5, <2>6
<1>6. SumFunction(h) = k[S]
  <2> HIDE DEF k, h
  <2>5. Gains(k, S, h) BY <1>4, <1>5 DEF Gains
  <2> QED BY <1>4, <1>5, <2>5, SumOf
<1>7. SumFunction(f) = m[S] /\ SumFunction(g) = n[S] BY <1>1, <1>2, TotalWhole
<1> QED BY <1>6, <1>7

(* Scaling each term scales the sum. *)
LEMMA SumScale ==
  ASSUME NEW S, IsFiniteSet(S), NEW f \in [S -> Int], NEW c \in Int
  PROVE  SumFunction([x \in S |-> c * f[x]]) = c * SumFunction(f)
<1>1a. PICK m : Measures(m, S, f) BY TotalSteps
<1>1. m \in [SUBSET S -> Int] /\ m[{}] = 0
       /\ (\A V \in SUBSET S : Total(V, f) = m[V])
       /\ (\A V \in SUBSET S : \A y \in S \ V : m[V \cup {y}] = m[V] + f[y])
  BY <1>1a DEF Measures, Gains
<1> DEFINE k == [U \in SUBSET S |-> c * m[U]]
           h == [x \in S |-> c * f[x]]
<1>2. \A a, b \in Int : c * a \in Int /\ c * (a + b) = c * a + c * b /\ c * 0 = 0 OBVIOUS
<1>4. h \in [S -> Int] /\ k \in [SUBSET S -> Int] /\ k[{}] = 0
  <2>1. k[{}] = c * 0 BY <1>1
  <2> QED BY <1>1, <1>2, <2>1
<1>5. \A U \in SUBSET S : \A x \in S \ U : k[U \cup {x}] = k[U] + h[x]
  <2> SUFFICES ASSUME NEW U \in SUBSET S, NEW x \in S \ U PROVE k[U \cup {x}] = k[U] + h[x]
    OBVIOUS
  <2>1. U \cup {x} \in SUBSET S OBVIOUS
  <2>2. m[U \cup {x}] = m[U] + f[x] BY <1>1
  <2>3. k[U \cup {x}] = c * (m[U] + f[x]) BY <2>1, <2>2
  <2>4. k[U] = c * m[U] /\ h[x] = c * f[x] OBVIOUS
  <2>5. m[U] \in Int /\ f[x] \in Int BY <1>1
  <2> HIDE DEF k, h
  <2> QED BY <2>3, <2>4, <2>5, <1>2
<1>6. SumFunction(h) = k[S]
  <2> HIDE DEF k, h
  <2>5. Gains(k, S, h) BY <1>4, <1>5 DEF Gains
  <2> QED BY <1>4, <1>5, <2>5, SumOf
<1>7. SumFunction(f) = m[S] BY <1>1, TotalWhole
<1> QED BY <1>6, <1>7

(* Terms that are all the same. *)
LEMMA SumConst ==
  ASSUME NEW S, IsFiniteSet(S), NEW c \in Int
  PROVE  SumFunction([x \in S |-> c]) = c * Cardinality(S)
<1> DEFINE k == [U \in SUBSET S |-> c * Cardinality(U)]
           h == [x \in S |-> c]
<1>1. \A U \in SUBSET S : IsFiniteSet(U) /\ Cardinality(U) \in Nat
  BY FS_Subset, FS_CardinalityType
<1>2. h \in [S -> Int] /\ k \in [SUBSET S -> Int] /\ k[{}] = 0
  <2>1. k[{}] = c * 0 BY FS_EmptySet
  <2>2. c * 0 = 0 /\ \A n \in Nat : c * n \in Int OBVIOUS
  <2> QED BY <1>1, <2>1, <2>2
<1>3. \A U \in SUBSET S : \A x \in S \ U : k[U \cup {x}] = k[U] + h[x]
  <2> SUFFICES ASSUME NEW U \in SUBSET S, NEW x \in S \ U PROVE k[U \cup {x}] = k[U] + h[x]
    OBVIOUS
  <2>1. U \cup {x} \in SUBSET S OBVIOUS
  <2>2. Cardinality(U \cup {x}) = Cardinality(U) + 1 BY <1>1, FS_AddElement
  <2>3. \A n \in Nat : c * (n + 1) = c * n + c OBVIOUS
  <2> QED BY <1>1, <2>1, <2>2, <2>3
<1>4. SumFunction(h) = k[S]
  <2> HIDE DEF k, h
  <2>5. Gains(k, S, h) BY <1>2, <1>3 DEF Gains
  <2> QED BY <1>2, <1>3, <2>5, SumOf
<1> QED BY <1>4

(* All terms but one are zero. *)
LEMMA SumOnly ==
  ASSUME NEW S, IsFiniteSet(S), NEW f \in [S -> Int], NEW a \in S, \A x \in S \ {a} : f[x] = 0
  PROVE  SumFunction(f) = f[a]
<1> DEFINE k == [U \in SUBSET S |-> IF a \in U THEN f[a] ELSE 0]
<1>1. k \in [SUBSET S -> Int] /\ k[{}] = 0 OBVIOUS
<1>2. \A U \in SUBSET S : \A x \in S \ U : k[U \cup {x}] = k[U] + f[x]
  <2> SUFFICES ASSUME NEW U \in SUBSET S, NEW x \in S \ U PROVE k[U \cup {x}] = k[U] + f[x]
    OBVIOUS
  <2>1. U \cup {x} \in SUBSET S OBVIOUS
  <2>2. CASE x = a BY <2>1, <2>2
  <2>3. CASE x # a
    <3>1. f[x] = 0 BY <2>3
    <3>2. k[U \cup {x}] = k[U] /\ k[U] \in Int BY <2>1, <2>3
    <3> QED BY <3>1, <3>2
  <2> QED BY <2>2, <2>3
<1>3. SumFunction(f) = k[S]
  <2> HIDE DEF k
  <2>5. Gains(k, S, f) BY <1>1, <1>2 DEF Gains
  <2> QED BY <1>1, <1>2, <2>5, SumOf
<1> QED BY <1>3

(* The sum over a family of disjoint sets.                                 *)
LEMMA SumFamily ==
  ASSUME NEW S, IsFiniteSet(S), NEW f \in [S -> Int],
         NEW I, IsFiniteSet(I), NEW P \in [I -> SUBSET S],
         UNION {P[i] : i \in I} = S, \A i, j \in I : i # j => P[i] \cap P[j] = {}
  PROVE  SumFunction(f) = SumFunction([i \in I |-> Total(P[i], f)])
<1>1a. PICK m : Measures(m, S, f) BY TotalSteps
<1>1. m \in [SUBSET S -> Int] /\ m[{}] = 0
       /\ (\A V \in SUBSET S : Total(V, f) = m[V])
       /\ (\A V \in SUBSET S : \A y \in S \ V : m[V \cup {y}] = m[V] + f[y])
  BY <1>1a DEF Measures, Gains
<1> DEFINE Of(J) == UNION {P[i] : i \in J}
           k == [J \in SUBSET I |-> m[Of(J)]]
           g == [i \in I |-> Total(P[i], f)]
<1>2. \A J \in SUBSET I : Of(J) \in SUBSET S OBVIOUS
<1>3. g \in [I -> Int] /\ k \in [SUBSET I -> Int] /\ k[{}] = 0
  <2>1. Of({}) = {} OBVIOUS
  <2>2. {} \in SUBSET I OBVIOUS
  <2> HIDE DEF Of
  <2> QED BY <1>1, <1>2, <2>1, <2>2
<1>4. \A J \in SUBSET I : \A i \in I \ J : k[J \cup {i}] = k[J] + g[i]
  <2> SUFFICES ASSUME NEW J \in SUBSET I, NEW i \in I \ J PROVE k[J \cup {i}] = k[J] + g[i]
    OBVIOUS
  <2>1. Of(J \cup {i}) = Of(J) \cup P[i] OBVIOUS
  <2>2. Of(J) \cap P[i] = {} OBVIOUS
  <2> HIDE DEF Of
  <2>3. Of(J) \in SUBSET S /\ P[i] \in SUBSET S /\ J \cup {i} \in SUBSET I BY <1>2
  <2>4. Total(Of(J) \cup P[i], f) = Total(Of(J), f) + Total(P[i], f) BY <2>2, <2>3, TotalUnion
  <2>5. Of(J) \cup P[i] \in SUBSET S BY <2>3
  <2> QED BY <1>1, <2>1, <2>3, <2>4, <2>5
<1>5. SumFunction(g) = k[I]
  <2> HIDE DEF k, g
  <2>5. Gains(k, I, g) BY <1>3, <1>4 DEF Gains
  <2> QED BY <1>3, <1>4, <2>5, SumOf
<1>6. SumFunction(f) = m[S] BY <1>1, TotalWhole
<1> QED BY <1>5, <1>6

(* Counting is summing ones. *)
LEMMA SumOnes ==
  ASSUME NEW S, IsFiniteSet(S) PROVE SumFunction([x \in S |-> 1]) = Cardinality(S)
<1>1. PICK c \in Int : c = 1 OBVIOUS
<1>2. SumFunction([x \in S |-> c]) = c * Cardinality(S) BY SumConst
<1>3. Cardinality(S) \in Nat BY FS_CardinalityType
<1>4. [x \in S |-> c] = [x \in S |-> 1] BY <1>1
<1> QED BY <1>1, <1>2, <1>3, <1>4

(* Zeros sum to zero. *)
LEMMA SumZeros ==
  ASSUME NEW S, IsFiniteSet(S) PROVE SumFunction([x \in S |-> 0]) = 0
<1>1. PICK c \in Int : c = 0 OBVIOUS
<1>2. SumFunction([x \in S |-> c]) = c * Cardinality(S) BY SumConst
<1>3. Cardinality(S) \in Nat BY FS_CardinalityType
<1>4. [x \in S |-> c] = [x \in S |-> 0] BY <1>1
<1> QED BY <1>1, <1>2, <1>3, <1>4

(* The same added to each term. *)
LEMMA SumShift ==
  ASSUME NEW S, IsFiniteSet(S), NEW f \in [S -> Int], NEW c \in Int
  PROVE  SumFunction([x \in S |-> c + f[x]]) = c * Cardinality(S) + SumFunction(f)
<1> DEFINE g == [x \in S |-> c]
<1>1. g \in [S -> Int] /\ \A x \in S : g[x] = c OBVIOUS
<1>2. SumFunction(g) = c * Cardinality(S) BY SumConst
<1>3. [x \in S |-> c + f[x]] = [x \in S |-> 1 * f[x] + g[x]] OBVIOUS
<1> HIDE DEF g
<1>4. SumFunction([x \in S |-> 1 * f[x] + g[x]]) = 1 * SumFunction(f) + SumFunction(g)
  BY <1>1, SumLinear
<1>5. SumFunction(f) \in Int /\ SumFunction(g) \in Int BY <1>1, SumType
<1> QED BY <1>2, <1>3, <1>4, <1>5

(* Z pairs every element of X with every element of Y. *)
Pairs(Z, X, Y, a, b) ==
  /\ a \in [Z -> X] /\ b \in [Z -> Y]
  /\ \A x \in X : \A y \in Y : \E z \in Z : a[z] = x /\ b[z] = y
  /\ \A z, t \in Z : a[z] = a[t] /\ b[z] = b[t] => z = t

(* The sum over all pairs of what the two of a pair add. *)
LEMMA SumPairs ==
  ASSUME NEW Z, NEW X, NEW Y, IsFiniteSet(Z), IsFiniteSet(X), IsFiniteSet(Y),
         NEW a, NEW b, Pairs(Z, X, Y, a, b), NEW u \in [X -> Int], NEW w \in [Y -> Int]
  PROVE  SumFunction([z \in Z |-> u[a[z]] + w[b[z]]])
           = Cardinality(Y) * SumFunction(u) + Cardinality(X) * SumFunction(w)
<1> DEFINE f == [z \in Z |-> u[a[z]] + w[b[z]]]
           P == [x \in X |-> {z \in Z : a[z] = x}]
           sum == SumFunction(w)
           count == Cardinality(Y)
<1>1. /\ a \in [Z -> X] /\ b \in [Z -> Y]
      /\ \A x \in X : \A y \in Y : \E z \in Z : a[z] = x /\ b[z] = y
      /\ \A z, t \in Z : a[z] = a[t] /\ b[z] = b[t] => z = t
  BY DEF Pairs
<1>2. f \in [Z -> Int]
  <2>1. \A z \in Z : u[a[z]] \in Int /\ w[b[z]] \in Int BY <1>1
  <2> QED BY <2>1
<1>3. SumFunction(f) = SumFunction([x \in X |-> Total(P[x], f)])
  <2>1. P \in [X -> SUBSET Z] /\ UNION {P[x] : x \in X} = Z BY <1>1
  <2>2. \A x, y \in X : x # y => P[x] \cap P[y] = {} OBVIOUS
  <2> HIDE DEF P, f
  <2> QED BY <2>1, <2>2, <1>2, SumFamily
<1>4. sum \in Int /\ count \in Int BY SumType, FS_CardinalityType
<1> HIDE DEF sum, count
<1>5. ASSUME NEW x \in X PROVE Total(P[x], f) = count * u[x] + sum
  <2> DEFINE Q == {z \in Z : a[z] = x}
             g == [y \in Y |-> u[x] + w[y]]
             h == [z \in Q |-> b[z]]
  <2>1. IsFiniteSet(Q) BY FS_Subset
  <2>2. g \in [Y -> Int] /\ h \in [Q -> Y] BY <1>1
  <2>3. \A z, t \in Q : h[z] = h[t] => z = t BY <1>1
  <2>4. \A y \in Y : \E z \in Q : h[z] = y BY <1>1
  <2>5. [z \in Q |-> f[z]] = [z \in Q |-> g[h[z]]] BY <1>1
  <2>6. P[x] = Q OBVIOUS
  <2>7. u[x] \in Int OBVIOUS
  <2>8. SumFunction(g) = u[x] * count + sum BY SumShift, <2>7 DEF count, sum
  <2> HIDE DEF Q, g, h, f, P
  <2>9. SumFunction([z \in Q |-> g[h[z]]]) = SumFunction(g) BY <2>1, <2>2, <2>3, <2>4, SumReindex
  <2>10. u[x] * count = count * u[x] BY <1>4, <2>7
  <2> QED BY <2>5, <2>6, <2>8, <2>9, <2>10 DEF Total
<1> DEFINE c == [x \in X |-> sum]
<1>6. [x \in X |-> Total(P[x], f)] = [x \in X |-> count * u[x] + c[x]] BY <1>5
<1>7. c \in [X -> Int] BY <1>4
<1>8. SumFunction(c) = sum * Cardinality(X) BY <1>4, SumConst
<1> HIDE DEF c, f, P
<1>9. SumFunction([x \in X |-> count * u[x] + c[x]]) = count * SumFunction(u) + SumFunction(c)
  BY <1>4, <1>7, SumLinear
<1>10. sum * Cardinality(X) = Cardinality(X) * sum
  <2>1. Cardinality(X) \in Nat BY FS_CardinalityType
  <2> QED BY <2>1, <1>4
<1> QED BY <1>3, <1>6, <1>8, <1>9, <1>10 DEF f, sum, count

(* There are as many pairs as the product says. *)
LEMMA CardinalityPairs ==
  ASSUME NEW Z, NEW X, NEW Y, IsFiniteSet(Z), IsFiniteSet(X), IsFiniteSet(Y),
         NEW a, NEW b, Pairs(Z, X, Y, a, b)
  PROVE  Cardinality(Z) = Cardinality(X) * Cardinality(Y)
<1> DEFINE u == [x \in X |-> 1]
           w == [y \in Y |-> 0]
<1>1. u \in [X -> Int] /\ w \in [Y -> Int] OBVIOUS
<1>2. SumFunction(u) = Cardinality(X) /\ SumFunction(w) = 0 BY SumOnes, SumZeros
<1>3. [z \in Z |-> u[a[z]] + w[b[z]]] = [z \in Z |-> 1] BY DEF Pairs
<1>4. SumFunction([z \in Z |-> 1]) = Cardinality(Z) BY SumOnes
<1> HIDE DEF u, w
<1>5. SumFunction([z \in Z |-> u[a[z]] + w[b[z]]])
           = Cardinality(Y) * SumFunction(u) + Cardinality(X) * SumFunction(w)
  BY <1>1, SumPairs
<1>6. Cardinality(X) \in Nat /\ Cardinality(Y) \in Nat /\ Cardinality(Z) \in Nat
  BY FS_CardinalityType
<1>7. \A n, m \in Nat : m * n + n * 0 = n * m OBVIOUS
<1> QED BY <1>2, <1>3, <1>4, <1>5, <1>6, <1>7

(* The size of a union of disjoint sets. *)
LEMMA CardinalityFamily ==
  ASSUME NEW S, IsFiniteSet(S), NEW I, IsFiniteSet(I), NEW P \in [I -> SUBSET S],
         UNION {P[i] : i \in I} = S, \A i, j \in I : i # j => P[i] \cap P[j] = {}
  PROVE  Cardinality(S) = SumFunction([i \in I |-> Cardinality(P[i])])
<1> DEFINE f == [x \in S |-> 1]
<1>1. f \in [S -> Int] OBVIOUS
<1>2. SumFunction(f) = Cardinality(S) BY SumOnes
<1>3. ASSUME NEW i \in I PROVE Total(P[i], f) = Cardinality(P[i])
  <2>1. IsFiniteSet(P[i]) BY FS_Subset
  <2>2. [x \in P[i] |-> f[x]] = [x \in P[i] |-> 1] OBVIOUS
  <2>3. SumFunction([x \in P[i] |-> 1]) = Cardinality(P[i]) BY <2>1, SumOnes
  <2>4. Cardinality(P[i]) \in Nat BY <2>1, FS_CardinalityType
  <2> QED BY <2>2, <2>3, <2>4 DEF Total
<1>4. [i \in I |-> Total(P[i], f)] = [i \in I |-> Cardinality(P[i])] BY <1>3
<1> HIDE DEF f
<1>5. SumFunction(f) = SumFunction([i \in I |-> Total(P[i], f)]) BY <1>1, SumFamily
<1>6. Cardinality(S) \in Nat BY FS_CardinalityType
<1> QED BY <1>2, <1>4, <1>5, <1>6

-----------------------------------------------------------------------------
(* a is at least as extreme as b. *)
Beats(i, a, b) == IF IsMax(i) THEN b <= a ELSE a <= b

(* The extreme of a set of values, none of which may be there. *)
Ext(i, T) == Best(i, {ExtremeIdentity(i)} \cup T)

(* Beats orders the values, and every value beats the identity of MIN or    *)
(* MAX.                                                                     *)
LEMMA ValuesFacts ==
  /\ Lowest \in Int /\ Highest \in Int /\ Lowest <= Highest /\ Values \subseteq Int
  /\ 0 \in Values
  /\ \A i : ExtremeIdentity(i) \in Values
  /\ \A i : \A v \in Values : Beats(i, v, ExtremeIdentity(i))
  /\ \A i : \A a, b \in Values : Beats(i, a, b) /\ Beats(i, b, a) => a = b
  /\ \A i : \A a, b, c \in Values : Beats(i, a, b) /\ Beats(i, b, c) => Beats(i, a, c)
<1>1. /\ Lowest \in Int /\ Highest \in Int /\ Lowest <= Highest /\ Values \subseteq Int
      /\ 0 \in Values
      /\ \A v \in Values : v \in Int /\ Lowest <= v /\ v <= Highest
      /\ Lowest \in Values /\ Highest \in Values
  BY RangeAssumption DEF Values
<1> HIDE DEF Values
<1>2. \A i : ExtremeIdentity(i) \in Values BY <1>1 DEF ExtremeIdentity
<1>3. \A i : \A v \in Values : Beats(i, v, ExtremeIdentity(i)) BY <1>1 DEF Beats, ExtremeIdentity
<1>4. \A i : \A a, b \in Values : Beats(i, a, b) /\ Beats(i, b, a) => a = b BY <1>1 DEF Beats
<1>5. \A i : \A a, b, c \in Values : Beats(i, a, b) /\ Beats(i, b, c) => Beats(i, a, c)
  BY <1>1 DEF Beats
<1> QED BY <1>1, <1>2, <1>3, <1>4, <1>5

(* A set of values has a greatest and a least one. *)
LEMMA Greatest ==
  ASSUME NEW T \in SUBSET Values, T # {} PROVE \E g \in T : \A v \in T : v <= g
<1> DEFINE D == {n \in Nat : \E v \in T : n = Highest - v}
<1>1. \A v \in T : v \in Int /\ v <= Highest /\ Highest \in Int BY RangeAssumption DEF Values
<1>2. D \in SUBSET Nat /\ D # {}
  <2>1. PICK v \in T : TRUE OBVIOUS
  <2>2. Highest - v \in Nat BY <1>1
  <2> QED BY <2>1, <2>2
<1>3. PICK n \in D : \A m \in D : n <= m
  <2> HIDE DEF D
  <2> QED BY <1>2, LeastOf
<1>4. PICK g \in T : n = Highest - g OBVIOUS
<1>5. ASSUME NEW v \in T PROVE v <= g
  <2>1. Highest - v \in D BY <1>1
  <2>2. n <= Highest - v BY <1>3, <2>1
  <2> QED BY <1>1, <1>4, <2>2
<1> QED BY <1>5

(* And a least one. *)
LEMMA Least ==
  ASSUME NEW T \in SUBSET Values, T # {} PROVE \E g \in T : \A v \in T : g <= v
<1> DEFINE D == {n \in Nat : \E v \in T : n = v - Lowest}
<1>1. \A v \in T : v \in Int /\ Lowest <= v /\ Lowest \in Int BY RangeAssumption DEF Values
<1>2. D \in SUBSET Nat /\ D # {}
  <2>1. PICK v \in T : TRUE OBVIOUS
  <2>2. v - Lowest \in Nat BY <1>1
  <2> QED BY <2>1, <2>2
<1>3. PICK n \in D : \A m \in D : n <= m
  <2> HIDE DEF D
  <2> QED BY <1>2, LeastOf
<1>4. PICK g \in T : n = g - Lowest OBVIOUS
<1>5. ASSUME NEW v \in T PROVE g <= v
  <2>1. v - Lowest \in D BY <1>1
  <2>2. n <= v - Lowest BY <1>3, <2>1
  <2> QED BY <1>1, <1>4, <2>2
<1> QED BY <1>5

(* The best of a set is in it, and beats all of it. *)
LEMMA BestIs ==
  ASSUME NEW i, NEW T \in SUBSET Values, T # {}
  PROVE  Best(i, T) \in T /\ \A v \in T : Beats(i, Best(i, T), v)
<1>1. CASE IsMax(i)
  <2>1. \E g \in T : \A v \in T : g >= v
    <3>1. PICK g \in T : \A v \in T : v <= g BY Greatest
    <3>2. \A v \in T : v \in Int BY ValuesFacts
    <3> QED BY <3>1, <3>2
  <2>2. Max(T) \in T /\ \A v \in T : Max(T) >= v BY <2>1 DEF Max
  <2>3. \A v \in T : v \in Int BY ValuesFacts
  <2>4. \A v \in T : v <= Max(T) BY <2>2, <2>3
  <2> QED BY <1>1, <2>2, <2>4 DEF Best, Beats
<1>2. CASE ~IsMax(i)
  <2>1. \E g \in T : \A v \in T : g <= v BY Least
  <2>2. Min(T) \in T /\ \A v \in T : Min(T) <= v BY <2>1 DEF Min
  <2> QED BY <1>2, <2>2 DEF Best, Beats
<1> QED BY <1>1, <1>2

(* Only the best of a set is. *)
LEMMA BestOf ==
  ASSUME NEW i, NEW T \in SUBSET Values, NEW b \in T, \A v \in T : Beats(i, b, v)
  PROVE  Best(i, T) = b
<1>1. Best(i, T) \in T /\ \A v \in T : Beats(i, Best(i, T), v) BY BestIs
<1>2. Beats(i, b, Best(i, T)) /\ Beats(i, Best(i, T), b) BY <1>1
<1>3. b \in Values /\ Best(i, T) \in Values BY <1>1
<1> QED BY <1>2, <1>3, ValuesFacts

(* The extreme is the identity's or one of the values, and beats them.     *)
LEMMA ExtIs ==
  ASSUME NEW i, NEW T \in SUBSET Values
  PROVE  /\ Ext(i, T) \in Values
         /\ Ext(i, T) = ExtremeIdentity(i) \/ Ext(i, T) \in T
         /\ \A v \in T : Beats(i, Ext(i, T), v)
         /\ Beats(i, Ext(i, T), ExtremeIdentity(i))
<1> DEFINE U == {ExtremeIdentity(i)} \cup T
<1>1. U \in SUBSET Values /\ U # {} BY ValuesFacts
<1>2. Ext(i, T) = Best(i, U) BY DEF Ext
<1>3. ExtremeIdentity(i) \in U /\ T \subseteq U /\ \A u \in U : u = ExtremeIdentity(i) \/ u \in T
  OBVIOUS
<1> HIDE DEF U
<1>4. Best(i, U) \in U /\ \A v \in U : Beats(i, Best(i, U), v) BY <1>1, BestIs
<1> QED BY <1>1, <1>2, <1>3, <1>4

(* Only the extreme is one of them, or the identity, and beats them all. *)
LEMMA ExtOf ==
  ASSUME NEW i, NEW T \in SUBSET Values, NEW b \in Values,
         b = ExtremeIdentity(i) \/ b \in T, \A v \in T : Beats(i, b, v)
  PROVE  Ext(i, T) = b
<1> DEFINE U == {ExtremeIdentity(i)} \cup T
<1>1. U \in SUBSET Values /\ b \in U BY ValuesFacts
<1>2. \A v \in U : Beats(i, b, v)
  <2>1. Beats(i, b, ExtremeIdentity(i)) BY ValuesFacts
  <2> QED BY <2>1
<1> HIDE DEF U
<1>3. Best(i, U) = b BY <1>1, <1>2, BestOf
<1> QED BY <1>3 DEF Ext, U

(* The extreme where there is nothing, or only the identity. *)
LEMMA ExtNothing ==
  ASSUME NEW i, NEW T, \A v \in T : v = ExtremeIdentity(i)
  PROVE  Ext(i, T) = ExtremeIdentity(i)
<1>1. T \in SUBSET Values /\ ExtremeIdentity(i) \in Values BY ValuesFacts
<1>2. \A v \in T : Beats(i, ExtremeIdentity(i), v) BY <1>1, ValuesFacts
<1> QED BY <1>1, <1>2, ExtOf

(* With something in the set the identity does not matter. *)
LEMMA ExtSome ==
  ASSUME NEW i, NEW T \in SUBSET Values, T # {}
  PROVE  Ext(i, T) = Best(i, T)
<1>1. Best(i, T) \in T /\ \A v \in T : Beats(i, Best(i, T), v) BY BestIs
<1> QED BY <1>1, ExtOf

(* The better of two is the extreme of both. *)
LEMMA BetterIs ==
  ASSUME NEW i, NEW a \in Values, NEW b \in Values
  PROVE  /\ Better(i, a, b) \in Values /\ Better(i, a, b) \in {a, b}
         /\ Beats(i, Better(i, a, b), a) /\ Beats(i, Better(i, a, b), b)
<1> DEFINE U == {a, b}
<1>1. U \in SUBSET Values /\ U # {} /\ a \in U /\ b \in U OBVIOUS
<1> HIDE DEF U
<1>2. Best(i, U) \in U /\ \A v \in U : Beats(i, Best(i, U), v) BY <1>1, BestIs
<1>3. Better(i, a, b) = Best(i, U) BY DEF Better, U
<1> QED BY <1>1, <1>2, <1>3 DEF U

(* The extreme of a union is the better of the two extremes. *)
LEMMA ExtUnion ==
  ASSUME NEW i, NEW T \in SUBSET Values, NEW U \in SUBSET Values
  PROVE  Ext(i, T \cup U) = Better(i, Ext(i, T), Ext(i, U))
<1> DEFINE s == Ext(i, T)
           t == Ext(i, U)
           b == Better(i, s, t)
<1>1. /\ s \in Values /\ (s = ExtremeIdentity(i) \/ s \in T) /\ \A v \in T : Beats(i, s, v)
      /\ t \in Values /\ (t = ExtremeIdentity(i) \/ t \in U) /\ \A v \in U : Beats(i, t, v)
  BY ExtIs
<1> HIDE DEF s, t
<1>2. b \in Values /\ b \in {s, t} /\ Beats(i, b, s) /\ Beats(i, b, t) BY <1>1, BetterIs
<1> HIDE DEF b
<1>3. b = ExtremeIdentity(i) \/ b \in T \cup U BY <1>1, <1>2
<1>4. \A v \in T \cup U : Beats(i, b, v)
  <2> SUFFICES ASSUME NEW v \in T \cup U PROVE Beats(i, b, v) OBVIOUS
  <2>1. v \in Values OBVIOUS
  <2>2. CASE v \in T BY <1>1, <1>2, <2>1, <2>2, ValuesFacts
  <2>3. CASE v \in U BY <1>1, <1>2, <2>1, <2>3, ValuesFacts
  <2> QED BY <2>2, <2>3
<1>5. T \cup U \in SUBSET Values OBVIOUS
<1>6. Ext(i, T \cup U) = b
  <2> DEFINE W == T \cup U
  <2> HIDE DEF W
  <2>1. Ext(i, W) = b BY <1>2, <1>3, <1>4, <1>5, ExtOf DEF W
  <2> QED BY <2>1 DEF W
<1> QED BY <1>6 DEF b, s, t

(* The best of the extremes of sets is the extreme of their union. *)
LEMMA ExtFamily ==
  ASSUME NEW i, NEW I, NEW P \in [I -> SUBSET Values]
  PROVE  Ext(i, {Ext(i, P[x]) : x \in I}) = Ext(i, UNION {P[x] : x \in I})
<1> DEFINE U == UNION {P[x] : x \in I}
           b == Ext(i, {Ext(i, P[x]) : x \in I})
<1>1. \A x \in I : /\ Ext(i, P[x]) \in Values
                   /\ Ext(i, P[x]) = ExtremeIdentity(i) \/ Ext(i, P[x]) \in P[x]
                   /\ \A v \in P[x] : Beats(i, Ext(i, P[x]), v)
  BY ExtIs
<1>2. /\ b \in Values
      /\ b = ExtremeIdentity(i) \/ b \in {Ext(i, P[x]) : x \in I}
      /\ \A x \in I : Beats(i, b, Ext(i, P[x]))
  <2> DEFINE T == {Ext(i, P[x]) : x \in I}
  <2>1. T \in SUBSET Values BY <1>1
  <2>2. \A x \in I : Ext(i, P[x]) \in T OBVIOUS
  <2> HIDE DEF T
  <2>3. /\ Ext(i, T) \in Values
        /\ Ext(i, T) = ExtremeIdentity(i) \/ Ext(i, T) \in T
        /\ \A v \in T : Beats(i, Ext(i, T), v)
    BY <2>1, ExtIs
  <2> QED BY <2>2, <2>3 DEF T
<1>3. b = ExtremeIdentity(i) \/ b \in U BY <1>1, <1>2
<1>4. \A v \in U : Beats(i, b, v)
  <2> SUFFICES ASSUME NEW x \in I, NEW v \in P[x] PROVE Beats(i, b, v) OBVIOUS
  <2>1. v \in Values OBVIOUS
  <2>2. Beats(i, b, Ext(i, P[x])) /\ Beats(i, Ext(i, P[x]), v) /\ Ext(i, P[x]) \in Values
    BY <1>1, <1>2
  <2> HIDE DEF b
  <2> QED BY <1>2, <2>1, <2>2, ValuesFacts
<1>5. U \in SUBSET Values OBVIOUS
<1>6. Ext(i, U) = b
  <2> HIDE DEF U, b
  <2> QED BY <1>2, <1>3, <1>4, <1>5, ExtOf
<1> QED BY <1>6

-----------------------------------------------------------------------------
(* Levels are numbered 1 to N. *)
N == Len(Slots)

(* The assumptions on the f-tree, for the provers. *)
LEMMA TreeFacts ==
  /\ N \in Nat /\ Levels = 1 .. N /\ 1 \in Levels /\ Levels \in SUBSET Nat
  /\ \A l \in Levels : /\ Slots[l] \in Seq(Nat) /\ Len(Slots[l]) \in Nat
                       /\ DOMAIN Slots[l] = 1 .. Len(Slots[l])
  /\ \A l \in Levels : \A s \in DOMAIN Slots[l] :
       Slots[l][s] \in Levels /\ Slots[l][s] \in Nat /\ l < Slots[l][s]
  /\ \A l, m \in Levels : \A s \in DOMAIN Slots[l], t \in DOMAIN Slots[m] :
       Slots[l][s] = Slots[m][t] => l = m /\ s = t
  /\ \A m \in Levels \ {1} : \E l \in Levels : \E s \in DOMAIN Slots[l] : Slots[l][s] = m
<1>1. Slots \in Seq(Seq(Nat)) BY TreeAssumption
<1>2. N \in Nat /\ Levels = 1 .. N /\ \A l \in Levels : Slots[l] \in Seq(Nat)
  BY <1>1 DEF N, Levels
<1>3. \A l \in Levels : Len(Slots[l]) \in Nat /\ DOMAIN Slots[l] = 1 .. Len(Slots[l]) BY <1>2
<1>4. Levels \in SUBSET Nat BY <1>2
<1> QED BY <1>2, <1>3, <1>4, TreeAssumption

(* What holds of a level when it holds of the levels in its slots holds.   *)
LEMMA UpTheTree ==
  ASSUME NEW S \in SUBSET Levels,
         \A l \in Levels : (\A s \in DOMAIN Slots[l] : Slots[l][s] \in S) => l \in S
  PROVE  S = Levels
<1> SUFFICES ASSUME NEW m \in Levels, m \notin S PROVE FALSE OBVIOUS
<1> DEFINE D == {n \in Nat : \E l \in Levels \ S : n = N - l}
<1>1. D \in SUBSET Nat /\ D # {}
  <2>1. N - m \in Nat BY TreeFacts
  <2> QED BY <2>1
<1>2. PICK n \in D : \A k \in D : n <= k
  <2> HIDE DEF D
  <2> QED BY <1>1, LeastOf
<1>3. PICK l \in Levels \ S : n = N - l OBVIOUS
<1>4. PICK s \in DOMAIN Slots[l] : Slots[l][s] \notin S OBVIOUS
<1>5. Slots[l][s] \in Levels /\ l < Slots[l][s] BY TreeFacts
<1> DEFINE c == Slots[l][s]
<1>6. c \in Levels /\ c \notin S /\ l < c BY <1>4, <1>5
<1> HIDE DEF c
<1>7. N - c \in D BY <1>6, TreeFacts
<1>8. n <= N - c BY <1>2, <1>7
<1> QED BY <1>3, <1>6, <1>8, TreeFacts

(* The rank of a level falls from a level to those in its slots. *)
LEMMA RankFacts ==
  /\ N \in Nat /\ [l \in Levels |-> N - l] \in [Levels -> 0 .. N]
  /\ \A l \in Levels : \A s \in DOMAIN Slots[l] :
       Slots[l][s] \in Levels /\ N - Slots[l][s] < N - l
<1>1. \A l \in Levels : N - l \in 0 .. N BY TreeFacts
<1>2. \A l, m \in Levels : l < m => N - m < N - l BY TreeFacts
<1> QED BY <1>1, <1>2, TreeFacts

(* Below satisfies its recursive definition. *)
LEMMA BelowDef ==
  /\ Below \in [Levels -> SUBSET Levels]
  /\ \A level \in Levels :
       Below[level] = {level} \cup UNION {Below[Slots[level][s]] : s \in DOMAIN Slots[level]}
<1> DEFINE V == SUBSET Levels
           rank == [l \in Levels |-> N - l]
           G == [l \in Levels |-> [f \in [Levels -> V] |->
                   {l} \cup UNION {f[Slots[l][s]] : s \in DOMAIN Slots[l]}]]
           Iter(f) == [level \in Levels |->
                         {level} \cup UNION {f[Slots[level][s]] : s \in DOMAIN Slots[level]}]
<1>1. G \in [Levels -> [[Levels -> V] -> V]]
  <2> SUFFICES ASSUME NEW l \in Levels, NEW f \in [Levels -> V]
               PROVE  {l} \cup UNION {f[Slots[l][s]] : s \in DOMAIN Slots[l]} \in V
    OBVIOUS
  <2>1. \A s \in DOMAIN Slots[l] : f[Slots[l][s]] \in V BY TreeFacts
  <2> QED BY <2>1
<1>2. \A l \in Levels : \A f, g \in [Levels -> V] :
        (\A m \in Levels : rank[m] < rank[l] => f[m] = g[m]) => G[l][f] = G[l][g]
  <2> SUFFICES ASSUME NEW l \in Levels, NEW f \in [Levels -> V], NEW g \in [Levels -> V],
                      \A m \in Levels : rank[m] < rank[l] => f[m] = g[m]
               PROVE  G[l][f] = G[l][g]
    OBVIOUS
  <2>1. \A s \in DOMAIN Slots[l] : f[Slots[l][s]] = g[Slots[l][s]] BY RankFacts
  <2> QED BY <2>1
<1>3. {} \in V OBVIOUS
<1>4. \E f \in [Levels -> V] : \A l \in Levels : f[l] = G[l][f]
  <2>1. rank \in [Levels -> 0 .. N] /\ N \in Nat BY RankFacts
  <2> HIDE DEF G, rank, V
  <2>2. Guarded(Levels, V, N, rank, G) BY <1>1, <1>2, <2>1 DEF Guarded
  <2> QED BY <1>3, <2>2, Recursion
<1>5. PICK f \in [Levels -> V] : \A l \in Levels : f[l] = G[l][f] BY <1>4
<1>6. f = Iter(f) BY <1>5
<1>7. Below = CHOOSE g : g = Iter(g) BY DEF Below
<1>8. Below = Iter(Below)
  <2> HIDE DEF Iter
  <2> QED BY <1>6, <1>7
<1>9. Below \in [Levels -> V]
  <2> DEFINE S == {l \in Levels : Below[l] \in SUBSET Levels}
  <2>1. ASSUME NEW l \in Levels, \A s \in DOMAIN Slots[l] : Slots[l][s] \in S PROVE l \in S
    <3>1. Below[l] = {l} \cup UNION {Below[Slots[l][s]] : s \in DOMAIN Slots[l]} BY <1>8
    <3> QED BY <2>1, <3>1
  <2> HIDE DEF S
  <2>2. S \in SUBSET Levels BY DEF S
  <2>3. S = Levels BY <2>1, <2>2, UpTheTree
  <2>4. Below = [l \in Levels |-> Below[l]] BY <1>8
  <2> QED BY <2>3, <2>4 DEF S
<1> QED BY <1>8, <1>9

(* A level is below itself. *)
LEMMA BelowSelf == ASSUME NEW l \in Levels PROVE l \in Below[l]
BY BelowDef

(* What is below a slot is below the level. *)
LEMMA BelowSlot ==
  ASSUME NEW l \in Levels, NEW s \in DOMAIN Slots[l]
  PROVE  Slots[l][s] \in Levels /\ Below[Slots[l][s]] \subseteq Below[l]
BY BelowDef, TreeFacts

(* What is below a level is the level, or below one of its slots. *)
LEMMA BelowSplit ==
  ASSUME NEW l \in Levels, NEW m \in Below[l], m # l
  PROVE  \E s \in DOMAIN Slots[l] : m \in Below[Slots[l][s]]
BY BelowDef

(* Finitely many levels are below a level. *)
LEMMA BelowType == ASSUME NEW l \in Levels PROVE Below[l] \in SUBSET Levels /\ IsFiniteSet(Below[l])
<1>1. Below[l] \in SUBSET Levels BY BelowDef
<1>2. IsFiniteSet(Levels)
  <2>1. IsFiniteSet(1 .. N) BY FS_Interval, TreeFacts
  <2> QED BY <2>1, TreeFacts
<1> QED BY <1>1, <1>2, FS_Subset

(* Levels are numbered from the top. *)
LEMMA BelowGreater == \A l \in Levels : \A m \in Below[l] : l <= m
<1> DEFINE S == {l \in Levels : \A m \in Below[l] : l <= m}
<1>1. ASSUME NEW l \in Levels, \A s \in DOMAIN Slots[l] : Slots[l][s] \in S PROVE l \in S
  <2> SUFFICES ASSUME NEW m \in Below[l] PROVE l <= m OBVIOUS
  <2>1. CASE m = l BY <2>1, TreeFacts
  <2>2. CASE m # l
    <3>1. PICK s \in DOMAIN Slots[l] : m \in Below[Slots[l][s]] BY <2>2, BelowSplit
    <3> DEFINE c == Slots[l][s]
    <3>2. c \in S /\ m \in Below[c] BY <1>1, <3>1
    <3>3. c <= m BY <3>2
    <3>4. c \in Levels /\ l < c BY TreeFacts
    <3>5. m \in Levels BY BelowType
    <3> HIDE DEF c
    <3> QED BY <3>3, <3>4, <3>5, TreeFacts
  <2> QED BY <2>1, <2>2
<1>2. S \in SUBSET Levels OBVIOUS
<1> HIDE DEF S
<1>3. S = Levels BY <1>1, <1>2, UpTheTree
<1> QED BY <1>3 DEF S

(* What is below a slot is another level. *)
LEMMA SlotGreater ==
  ASSUME NEW l \in Levels, NEW s \in DOMAIN Slots[l], NEW m \in Below[Slots[l][s]]
  PROVE  l < m
<1> DEFINE c == Slots[l][s]
<1>1. c \in Levels /\ l < c BY TreeFacts
<1>2. m \in Below[c] OBVIOUS
<1> HIDE DEF c
<1>3. c <= m BY <1>1, <1>2, BelowGreater
<1>4. m \in Levels BY <1>1, <1>2, BelowType
<1> QED BY <1>1, <1>3, <1>4, TreeFacts

(* What is below a level is there with the levels in its slots. *)
LEMMA BelowClosed ==
  \A a \in Levels : \A p \in Below[a] : \A s \in DOMAIN Slots[p] : Slots[p][s] \in Below[a]
<1> DEFINE Closed(a) == \A p \in Below[a] : \A s \in DOMAIN Slots[p] : Slots[p][s] \in Below[a]
           S == {a \in Levels : Closed(a)}
<1>1. ASSUME NEW a \in Levels, \A t \in DOMAIN Slots[a] : Slots[a][t] \in S PROVE a \in S
  <2> SUFFICES ASSUME NEW p \in Below[a], NEW s \in DOMAIN Slots[p] PROVE Slots[p][s] \in Below[a]
    OBVIOUS
  <2>1. CASE p = a
    <3>1. Slots[a][s] \in Levels BY <2>1, TreeFacts
    <3>2. Slots[a][s] \in Below[Slots[a][s]] BY <3>1, BelowSelf
    <3> QED BY <2>1, <3>2, BelowSlot
  <2>2. CASE p # a
    <3>1. PICK t \in DOMAIN Slots[a] : p \in Below[Slots[a][t]] BY <2>2, BelowSplit
    <3>2. Closed(Slots[a][t]) BY <1>1
    <3>3. Slots[p][s] \in Below[Slots[a][t]] BY <3>1, <3>2
    <3> QED BY <3>3, BelowSlot
  <2> QED BY <2>1, <2>2
<1>2. S \in SUBSET Levels OBVIOUS
<1> HIDE DEF S
<1>3. S = Levels BY <1>1, <1>2, UpTheTree
<1> QED BY <1>3 DEF S

(* What is below a level has its parent there, unless it is the level. *)
LEMMA BelowParent ==
  \A a \in Levels : \A m \in Below[a] \ {a} :
    \E p \in Below[a] : \E s \in DOMAIN Slots[p] : Slots[p][s] = m
<1> DEFINE Has(a, m) == \E p \in Below[a] : \E s \in DOMAIN Slots[p] : Slots[p][s] = m
           S == {a \in Levels : \A m \in Below[a] \ {a} : Has(a, m)}
<1>1. ASSUME NEW a \in Levels, \A t \in DOMAIN Slots[a] : Slots[a][t] \in S PROVE a \in S
  <2> SUFFICES ASSUME NEW m \in Below[a] \ {a} PROVE Has(a, m) OBVIOUS
  <2>1. PICK t \in DOMAIN Slots[a] : m \in Below[Slots[a][t]] BY BelowSplit
  <2>2. CASE m = Slots[a][t]
    <3>1. a \in Below[a] BY BelowSelf
    <3> QED BY <2>2, <3>1
  <2>3. CASE m # Slots[a][t]
    <3>1. Has(Slots[a][t], m) BY <1>1, <2>1, <2>3
    <3> QED BY <3>1, BelowSlot
  <2> QED BY <2>2, <2>3
<1>2. S \in SUBSET Levels OBVIOUS
<1> HIDE DEF S
<1>3. S = Levels BY <1>1, <1>2, UpTheTree
<1> QED BY <1>3 DEF S

(* Two levels with something below both: one of them is below the other.   *)
LEMMA BelowComparable ==
  \A m \in Levels : \A a, b \in Levels :
    m \in Below[a] /\ m \in Below[b] => a \in Below[b] \/ b \in Below[a]
<1> DEFINE Good(m) == \A a, b \in Levels :
                        m \in Below[a] /\ m \in Below[b] => a \in Below[b] \/ b \in Below[a]
           T == {m \in Levels : ~Good(m)}
<1> SUFFICES ASSUME T # {} PROVE FALSE OBVIOUS
<1>1. T \in SUBSET Nat BY TreeFacts
<1>2. PICK m \in T : \A k \in T : m <= k
  <2> HIDE DEF T
  <2> QED BY <1>1, LeastOf
<1>3. PICK a \in Levels, b \in Levels :
        m \in Below[a] /\ m \in Below[b] /\ a \notin Below[b] /\ b \notin Below[a]
  OBVIOUS
<1>4. m # a /\ m # b BY <1>3
<1>5. PICK p \in Below[a] : \E s \in DOMAIN Slots[p] : Slots[p][s] = m BY <1>3, <1>4, BelowParent
<1>6. PICK q \in Below[b] : \E s \in DOMAIN Slots[q] : Slots[q][s] = m BY <1>3, <1>4, BelowParent
<1>7. p \in Levels /\ q \in Levels BY BelowType
<1>8. p = q
  <2>1. PICK s \in DOMAIN Slots[p] : Slots[p][s] = m BY <1>5
  <2>2. PICK t \in DOMAIN Slots[q] : Slots[q][t] = m BY <1>6
  <2>3. Slots[p][s] = Slots[q][t] BY <2>1, <2>2
  <2> QED BY <1>7, <2>3, TreeFacts
<1>9. p < m BY <1>5, <1>7, TreeFacts
<1>10. p \in T BY <1>3, <1>5, <1>6, <1>7, <1>8
<1>11. m <= p BY <1>2, <1>10
<1>12. m \in Nat /\ p \in Nat BY <1>1, <1>10
<1> HIDE DEF T
<1> QED BY <1>9, <1>11, <1>12

(* The subtrees of different slots have no level in common. *)
LEMMA SlotsApart ==
  ASSUME NEW l \in Levels, NEW s \in DOMAIN Slots[l], NEW t \in DOMAIN Slots[l], s # t
  PROVE  Below[Slots[l][s]] \cap Below[Slots[l][t]] = {}
<1> DEFINE Under(u) == Slots[l][u]
<1>1. ASSUME NEW u \in DOMAIN Slots[l], NEW v \in DOMAIN Slots[l], u # v,
             Under(u) \in Below[Under(v)]
      PROVE  FALSE
  <2>1. Under(u) \in Levels /\ Under(v) \in Levels BY TreeFacts
  <2>2. Under(u) # Under(v) BY <1>1, TreeFacts
  <2>3. PICK p \in Below[Under(v)] : \E w \in DOMAIN Slots[p] : Slots[p][w] = Under(u)
    BY <1>1, <2>1, <2>2, BelowParent
  <2>4. p \in Levels BY <2>1, BelowType
  <2>5. p = l BY <2>3, <2>4, TreeFacts
  <2>6. l \in Below[Slots[l][v]] BY <2>3, <2>5
  <2>7. l < l BY <2>6, SlotGreater
  <2> QED BY <2>7, TreeFacts
<1> SUFFICES ASSUME NEW m \in Below[Under(s)], m \in Below[Under(t)] PROVE FALSE OBVIOUS
<1>2. Under(s) \in Levels /\ Under(t) \in Levels BY TreeFacts
<1>3. m \in Levels BY <1>2, BelowType
<1>4. Under(s) \in Below[Under(t)] \/ Under(t) \in Below[Under(s)]
  <2> HIDE DEF Under
  <2> QED BY <1>2, <1>3, BelowComparable
<1> QED BY <1>1, <1>4

(* SlotTo picks the slot that leads to a level. *)
LEMMA SlotToIs ==
  ASSUME NEW l \in Levels, NEW s \in DOMAIN Slots[l], NEW m \in Below[Slots[l][s]]
  PROVE  SlotTo(l, m) = s
<1>1. SlotTo(l, m) \in DOMAIN Slots[l] /\ m \in Below[Slots[l][SlotTo(l, m)]] BY DEF SlotTo
<1> DEFINE t == SlotTo(l, m)
<1>2. t \in DOMAIN Slots[l] /\ m \in Below[Slots[l][t]] BY <1>1
<1> HIDE DEF t
<1>3. t = s BY <1>2, SlotsApart
<1> QED BY <1>3 DEF t

(* All levels are below the first. *)
LEMMA AllBelowRoot == Below[1] = Levels
<1> DEFINE T == Levels \ Below[1]
<1> SUFFICES ASSUME T # {} PROVE FALSE BY BelowType, TreeFacts
<1>1. T \in SUBSET Nat BY TreeFacts
<1>2. PICK m \in T : \A k \in T : m <= k
  <2> HIDE DEF T
  <2> QED BY <1>1, LeastOf
<1>3. m # 1 BY BelowSelf, TreeFacts
<1>4. PICK l \in Levels : \E s \in DOMAIN Slots[l] : Slots[l][s] = m BY <1>3, TreeFacts
<1>5. l < m BY <1>4, TreeFacts
<1>6. l \notin Below[1] BY <1>4, BelowClosed, TreeFacts
<1>7. m <= l BY <1>2, <1>6
<1>8. m \in Nat /\ l \in Nat BY <1>1, TreeFacts
<1> HIDE DEF T
<1> QED BY <1>5, <1>7, <1>8

(* Every attribute is on one level. *)
LEMMA LevelOfIs ==
  /\ \A l \in Levels : \A k \in Attributes[l] : LevelOf(k) = l
  /\ \A k \in Stored : LevelOf(k) \in Levels /\ k \in Attributes[LevelOf(k)]
<1>1. \A l, m \in Levels : \A k \in Attributes[l] : k \in Attributes[m] => l = m
  BY TreeAssumption
<1>2. \A k \in Stored : \E l \in Levels : k \in Attributes[l] BY DEF Stored
<1>3. \A k \in Stored : LevelOf(k) \in Levels /\ k \in Attributes[LevelOf(k)]
  BY <1>2 DEF LevelOf
<1>4. \A l \in Levels : \A k \in Attributes[l] : k \in Stored BY DEF Stored
<1> QED BY <1>1, <1>3, <1>4

(* The image of a finite set is finite. *)
LEMMA FiniteImage ==
  ASSUME NEW S, IsFiniteSet(S), NEW h PROVE IsFiniteSet({h[x] : x \in S})
<1> DEFINE T == {h[x] : x \in S}
           f == [x \in S |-> h[x]]
<1>1. f \in Surjection(S, T) BY DEF Surjection
<1> HIDE DEF T, f
<1>2. IsFiniteSet(T) BY <1>1, FS_Surjection
<1> QED BY <1>2 DEF T

(* A finite union of finite sets is finite. *)
LEMMA FiniteFamily ==
  ASSUME NEW I, IsFiniteSet(I), NEW P, \A i \in I : IsFiniteSet(P[i])
  PROVE  IsFiniteSet(UNION {P[i] : i \in I})
<1> DEFINE T == {P[i] : i \in I}
<1>1. IsFiniteSet(T) BY FiniteImage
<1>2. \A t \in T : IsFiniteSet(t) OBVIOUS
<1> HIDE DEF T
<1>3. IsFiniteSet(UNION T) BY <1>1, <1>2, FS_UNION
<1> QED BY <1>3 DEF T

(* There are finitely many pairs of the elements of finite sets. *)
LEMMA FinitePairs ==
  ASSUME NEW Z, NEW X, NEW Y, IsFiniteSet(X), IsFiniteSet(Y), NEW a, NEW b, Pairs(Z, X, Y, a, b)
  PROVE  IsFiniteSet(Z)
<1> DEFINE P == [x \in X |-> {z \in Z : a[z] = x}]
<1>1. ASSUME NEW x \in X PROVE IsFiniteSet(P[x])
  <2> DEFINE Q == {z \in Z : a[z] = x}
             f == [z \in Q |-> b[z]]
  <2>1. f \in Injection(Q, Y) BY DEF Pairs, Injection, IsInjective
  <2> HIDE DEF Q, f
  <2>2. IsFiniteSet(Q) BY <2>1, FS_Injection
  <2> QED BY <2>2 DEF Q
<1>2. Z = UNION {P[x] : x \in X} BY DEF Pairs
<1> HIDE DEF P
<1>3. IsFiniteSet(UNION {P[x] : x \in X}) BY <1>1, FiniteFamily
<1> QED BY <1>2, <1>3

-----------------------------------------------------------------------------
(* Partial rows: what a row names on some of the levels. *)
Cells == [record : Records, copy : Nat]

RowsOver(L) == {x \in [L -> Cells] : \A l \in L : x[l].record.level = l}

(* Every row of X with every row of Y. *)
Times(L, X, M, Y) ==
  {z \in RowsOver(L \cup M) : Restrict(z, L) \in X /\ Restrict(z, M) \in Y}

(* The value of an aggregate's attribute in a partial row. *)
At(i, x, default) ==
  LET level == LevelOf(Aggregates[i].attribute)
  IN  IF level \in DOMAIN x THEN x[level].record.value[Aggregates[i].attribute] ELSE default

Val(i, x)  == At(i, x, 0)
Edge(i, x) == At(i, x, ExtremeIdentity(i))

(* An aggregate's attribute is stored on one level. *)
LEMMA AggregateFacts ==
  \A i \in AggregateIds :
    /\ Aggregates[i].attribute \in Stored /\ LevelOf(Aggregates[i].attribute) \in Levels
    /\ Aggregates[i].attribute \in Attributes[LevelOf(Aggregates[i].attribute)]
    /\ Aggregates[i].kind \in Kinds
<1>1. Aggregates \in Seq([kind : Kinds, attribute : Stored]) BY QueryAssumption
<1>2. \A i \in AggregateIds : Aggregates[i] \in [kind : Kinds, attribute : Stored]
  <2> DEFINE R == [kind : Kinds, attribute : Stored]
  <2>1. Aggregates \in Seq(R) BY <1>1
  <2> HIDE DEF R
  <2>2. \A i \in DOMAIN Aggregates : Aggregates[i] \in R BY <2>1
  <2> QED BY <2>2 DEF R, AggregateIds
<1>3. \A i \in AggregateIds : Aggregates[i].kind \in Kinds /\ Aggregates[i].attribute \in Stored
  BY <1>2
<1> QED BY <1>3, LevelOfIs

(* What a partial row carries is a value. *)
LEMMA AtType ==
  ASSUME NEW L, NEW x \in RowsOver(L), NEW i \in AggregateIds, NEW d \in Values
  PROVE  At(i, x, d) \in Values
<1> DEFINE a == Aggregates[i].attribute
           l == LevelOf(a)
<1>1. DOMAIN x = L BY DEF RowsOver
<1>2. CASE l \in L
  <2>1. x[l].record \in Records /\ x[l].record.level = l BY <1>2 DEF RowsOver, Cells
  <2>2. a \in Attributes[l] BY AggregateFacts
  <2>3. x[l].record.value \in [Attributes[l] -> Values] BY <2>1, RecordsAssumption
  <2>4. x[l].record.value[a] \in Values BY <2>2, <2>3
  <2> QED BY <1>1, <1>2, <2>4 DEF At
<1>3. CASE l \notin L BY <1>1, <1>3 DEF At
<1> QED BY <1>2, <1>3

(* It is an integer for the sums, and a value for the extremes. *)
LEMMA ValType ==
  \A L : \A x \in RowsOver(L) : \A i \in AggregateIds : Val(i, x) \in Int /\ Edge(i, x) \in Values
<1>1. \A i \in AggregateIds : 0 \in Values /\ ExtremeIdentity(i) \in Values /\ Values \subseteq Int
  BY ValuesFacts
<1> QED BY <1>1, AtType DEF Val, Edge

(* Part of a row carries what the row does, or nothing. *)
LEMMA AtRestrict ==
  ASSUME NEW x, NEW L, NEW M, DOMAIN x = M, L \subseteq M, NEW i, NEW d
  PROVE  At(i, Restrict(x, L), d)
           = IF LevelOf(Aggregates[i].attribute) \in L THEN At(i, x, d) ELSE d
BY DEF At, Restrict

(* Part of a row is a row over fewer levels. *)
LEMMA RestrictRows ==
  ASSUME NEW L, NEW M, L \subseteq M, NEW x \in RowsOver(M)
  PROVE  Restrict(x, L) \in RowsOver(L)
BY DEF Restrict, RowsOver

(* The rows of a product are its pairs of rows. *)
LEMMA TimesPairs ==
  ASSUME NEW L, NEW M, L \cap M = {}, NEW X \in SUBSET RowsOver(L), NEW Y \in SUBSET RowsOver(M)
  PROVE  Pairs(Times(L, X, M, Y), X, Y,
               [z \in Times(L, X, M, Y) |-> Restrict(z, L)],
               [z \in Times(L, X, M, Y) |-> Restrict(z, M)])
<1> DEFINE Z == Times(L, X, M, Y)
           a == [z \in Z |-> Restrict(z, L)]
           b == [z \in Z |-> Restrict(z, M)]
<1>1. a \in [Z -> X] /\ b \in [Z -> Y] BY DEF Times
<1>2. ASSUME NEW x \in X, NEW y \in Y PROVE \E z \in Z : a[z] = x /\ b[z] = y
  <2> DEFINE z == [l \in L \cup M |-> IF l \in L THEN x[l] ELSE y[l]]
  <2>1. x \in RowsOver(L) /\ y \in RowsOver(M) OBVIOUS
  <2>2. z \in RowsOver(L \cup M) BY <2>1 DEF RowsOver
  <2>3. Restrict(z, L) = x /\ Restrict(z, M) = y
    <3>1. \A l \in L : z[l] = x[l] OBVIOUS
    <3>2. \A l \in M : z[l] = y[l] OBVIOUS
    <3>3. x = [l \in L |-> x[l]] /\ y = [l \in M |-> y[l]] BY <2>1 DEF RowsOver
    <3> HIDE DEF z
    <3> QED BY <3>1, <3>2, <3>3 DEF Restrict
  <2>4. z \in Z BY <2>2, <2>3 DEF Times
  <2> HIDE DEF z, Z
  <2> QED BY <2>3, <2>4
<1>3. ASSUME NEW z \in Z, NEW t \in Z, a[z] = a[t], b[z] = b[t] PROVE z = t
  <2>1. Restrict(z, L) = Restrict(t, L) /\ Restrict(z, M) = Restrict(t, M) BY <1>3
  <2>2. \A l \in L : z[l] = Restrict(z, L)[l] /\ t[l] = Restrict(t, L)[l] BY DEF Restrict
  <2>3. \A l \in M : z[l] = Restrict(z, M)[l] /\ t[l] = Restrict(t, M)[l] BY DEF Restrict
  <2>4. \A l \in L \cup M : z[l] = t[l] BY <2>1, <2>2, <2>3
  <2>5. z \in [L \cup M -> Cells] /\ t \in [L \cup M -> Cells] BY DEF Times, RowsOver
  <2> QED BY <2>4, <2>5
<1> HIDE DEF Z
<1>4. \A x \in X : \A y \in Y : \E z \in Z : a[z] = x /\ b[z] = y BY <1>2
<1>5. \A z, t \in Z : a[z] = a[t] /\ b[z] = b[t] => z = t BY <1>3
<1> HIDE DEF a, b
<1>6. Pairs(Z, X, Y, a, b) BY <1>1, <1>4, <1>5 DEF Pairs
<1> QED BY <1>6 DEF a, b, Z

(* A product that the provers do not look into. *)
Prod(a, b) == a * b

(* A product of finite sets of rows is a finite set of rows. *)
LEMMA TimesFinite ==
  ASSUME NEW L, NEW M, L \cap M = {}, NEW X \in SUBSET RowsOver(L), NEW Y \in SUBSET RowsOver(M),
         IsFiniteSet(X), IsFiniteSet(Y)
  PROVE  Times(L, X, M, Y) \in SUBSET RowsOver(L \cup M) /\ IsFiniteSet(Times(L, X, M, Y))
<1> DEFINE Z == Times(L, X, M, Y)
           a == [z \in Z |-> Restrict(z, L)]
           b == [z \in Z |-> Restrict(z, M)]
<1>1. Pairs(Z, X, Y, a, b) BY TimesPairs
<1>2. Z \in SUBSET RowsOver(L \cup M) BY DEF Times
<1> HIDE DEF Z, a, b
<1>3. IsFiniteSet(Z) BY <1>1, FinitePairs
<1> QED BY <1>2, <1>3 DEF Z

(* It has as many rows as the product of their numbers. *)
LEMMA TimesCount ==
  ASSUME NEW L, NEW M, L \cap M = {}, NEW X \in SUBSET RowsOver(L), NEW Y \in SUBSET RowsOver(M),
         IsFiniteSet(X), IsFiniteSet(Y)
  PROVE  Cardinality(Times(L, X, M, Y)) = Prod(Cardinality(X), Cardinality(Y))
<1> DEFINE Z == Times(L, X, M, Y)
           a == [z \in Z |-> Restrict(z, L)]
           b == [z \in Z |-> Restrict(z, M)]
<1>1. Pairs(Z, X, Y, a, b) BY TimesPairs
<1>2. IsFiniteSet(Z) BY TimesFinite
<1> HIDE DEF Z, a, b
<1>3. Cardinality(Z) = Cardinality(X) * Cardinality(Y) BY <1>1, <1>2, CardinalityPairs
<1> QED BY <1>3 DEF Z, Prod

(* What the rows of X carry. *)
Sum(i, X)     == SumFunction([x \in X |-> Val(i, x)])
Extreme(i, X) == Ext(i, {Edge(i, x) : x \in X})

(* The sum over finitely many rows is an integer. *)
LEMMA SumIs ==
  ASSUME NEW L, NEW X \in SUBSET RowsOver(L), IsFiniteSet(X), NEW i \in AggregateIds
  PROVE  [x \in X |-> Val(i, x)] \in [X -> Int] /\ Sum(i, X) \in Int
<1> DEFINE f == [x \in X |-> Val(i, x)]
<1>1. f \in [X -> Int] BY ValType
<1> HIDE DEF f
<1>2. SumFunction(f) \in Int BY <1>1, SumType
<1> QED BY <1>1, <1>2 DEF f, Sum

(* A value of one factor is in a row for each row of the other one. *)
LEMMA SumTimes ==
  ASSUME NEW L, NEW M, L \cap M = {}, NEW X \in SUBSET RowsOver(L), NEW Y \in SUBSET RowsOver(M),
         IsFiniteSet(X), IsFiniteSet(Y), NEW i \in AggregateIds
  PROVE  Sum(i, Times(L, X, M, Y)) = Cardinality(Y) * Sum(i, X) + Cardinality(X) * Sum(i, Y)
<1> DEFINE Z == Times(L, X, M, Y)
           a == [z \in Z |-> Restrict(z, L)]
           b == [z \in Z |-> Restrict(z, M)]
           u == [x \in X |-> Val(i, x)]
           w == [y \in Y |-> Val(i, y)]
<1>1. Pairs(Z, X, Y, a, b) BY TimesPairs
<1>2. IsFiniteSet(Z) BY TimesFinite
<1>3. u \in [X -> Int] /\ w \in [Y -> Int] BY SumIs
<1>4. ASSUME NEW z \in Z PROVE Val(i, z) = u[a[z]] + w[b[z]]
  <2>1. Restrict(z, L) \in X /\ Restrict(z, M) \in Y /\ DOMAIN z = L \cup M
    BY DEF Times, RowsOver
  <2>2. u[a[z]] = Val(i, Restrict(z, L)) /\ w[b[z]] = Val(i, Restrict(z, M)) BY <2>1
  <2>3. Val(i, z) \in Int BY ValType DEF Times
  <2> DEFINE l == LevelOf(Aggregates[i].attribute)
  <2>4. Val(i, Restrict(z, L)) = IF l \in L THEN Val(i, z) ELSE 0
    <3>1. L \subseteq L \cup M OBVIOUS
    <3> QED BY <2>1, <3>1, AtRestrict DEF Val
  <2>5. Val(i, Restrict(z, M)) = IF l \in M THEN Val(i, z) ELSE 0
    <3>1. M \subseteq L \cup M OBVIOUS
    <3> QED BY <2>1, <3>1, AtRestrict DEF Val
  <2>6. l \notin L \cup M => Val(i, z) = 0 BY <2>1 DEF Val, At
  <2> HIDE DEF l, u, w, a, b, Z
  <2> QED BY <2>2, <2>3, <2>4, <2>5, <2>6
<1>5. [z \in Z |-> Val(i, z)] = [z \in Z |-> u[a[z]] + w[b[z]]] BY <1>4
<1> HIDE DEF Z, a, b, u, w
<1>6. SumFunction([z \in Z |-> u[a[z]] + w[b[z]]])
           = Cardinality(Y) * SumFunction(u) + Cardinality(X) * SumFunction(w)
  BY <1>1, <1>2, <1>3, SumPairs
<1> QED BY <1>5, <1>6 DEF Sum, Z, u, w

(* The identity more or less makes no difference to an extreme. *)
LEMMA ExtSame ==
  ASSUME NEW i, NEW T, NEW U, {ExtremeIdentity(i)} \cup T = {ExtremeIdentity(i)} \cup U
  PROVE  Ext(i, T) = Ext(i, U)
BY DEF Ext

(* The extreme over rows is a value. *)
LEMMA ExtremeType ==
  ASSUME NEW L, NEW X \in SUBSET RowsOver(L), NEW i \in AggregateIds
  PROVE  {Edge(i, x) : x \in X} \in SUBSET Values /\ Extreme(i, X) \in Values
<1>1. {Edge(i, x) : x \in X} \in SUBSET Values BY ValType
<1> QED BY <1>1, ExtIs DEF Extreme

(* The extreme over a product that is not empty is the better of the        *)
(* factors' extremes.                                                       *)
LEMMA ExtremeTimes ==
  ASSUME NEW L, NEW M, L \cap M = {}, NEW X \in SUBSET RowsOver(L), NEW Y \in SUBSET RowsOver(M),
         X # {}, Y # {}, NEW i \in AggregateIds
  PROVE  Extreme(i, Times(L, X, M, Y)) = Better(i, Extreme(i, X), Extreme(i, Y))
<1> DEFINE Z == Times(L, X, M, Y)
           T == {Edge(i, x) : x \in X}
           U == {Edge(i, y) : y \in Y}
           W == {Edge(i, z) : z \in Z}
           l == LevelOf(Aggregates[i].attribute)
           id == ExtremeIdentity(i)
<1>1. T \in SUBSET Values /\ U \in SUBSET Values BY ExtremeType
<1>2. ASSUME NEW z \in Z
      PROVE  /\ Restrict(z, L) \in X /\ Restrict(z, M) \in Y
             /\ Edge(i, Restrict(z, L)) = IF l \in L THEN Edge(i, z) ELSE id
             /\ Edge(i, Restrict(z, M)) = IF l \in M THEN Edge(i, z) ELSE id
             /\ l \notin L \cup M => Edge(i, z) = id
  <2>1. Restrict(z, L) \in X /\ Restrict(z, M) \in Y /\ DOMAIN z = L \cup M
    BY DEF Times, RowsOver
  <2>2. L \subseteq L \cup M /\ M \subseteq L \cup M OBVIOUS
  <2>3. Edge(i, Restrict(z, L)) = IF l \in L THEN Edge(i, z) ELSE id
    BY <2>1, <2>2, AtRestrict DEF Edge
  <2>4. Edge(i, Restrict(z, M)) = IF l \in M THEN Edge(i, z) ELSE id
    BY <2>1, <2>2, AtRestrict DEF Edge
  <2>5. l \notin L \cup M => Edge(i, z) = id BY <2>1 DEF Edge, At
  <2> QED BY <2>1, <2>3, <2>4, <2>5
<1>3. \A x \in X : \A y \in Y : \E z \in Z : Restrict(z, L) = x /\ Restrict(z, M) = y
  <2> DEFINE a == [z \in Z |-> Restrict(z, L)]
             b == [z \in Z |-> Restrict(z, M)]
  <2>1. Pairs(Z, X, Y, a, b) BY TimesPairs
  <2> HIDE DEF Z
  <2> QED BY <2>1 DEF Pairs
<1>4. ASSUME NEW z \in Z PROVE Edge(i, z) \in {id} \cup (T \cup U)
  <2>1. Edge(i, Restrict(z, L)) \in T /\ Edge(i, Restrict(z, M)) \in U BY <1>2
  <2> HIDE DEF T, U, Z, l, id
  <2> QED BY <2>1, <1>2
<1>5. ASSUME NEW x \in X PROVE Edge(i, x) \in {id} \cup W
  <2>1. PICK y \in Y : TRUE OBVIOUS
  <2>2. PICK z \in Z : Restrict(z, L) = x BY <1>3
  <2>3. Edge(i, z) \in W OBVIOUS
  <2> HIDE DEF W, Z, l, id
  <2> QED BY <1>2, <2>2, <2>3
<1>6. ASSUME NEW y \in Y PROVE Edge(i, y) \in {id} \cup W
  <2>1. PICK x \in X : TRUE OBVIOUS
  <2>2. PICK z \in Z : Restrict(z, M) = y BY <1>3
  <2>3. Edge(i, z) \in W OBVIOUS
  <2> HIDE DEF W, Z, l, id
  <2> QED BY <1>2, <2>2, <2>3
<1>7. {id} \cup W = {id} \cup (T \cup U)
  <2>1. W \subseteq {id} \cup (T \cup U) BY <1>4
  <2>2. T \subseteq {id} \cup W BY <1>5
  <2>3. U \subseteq {id} \cup W BY <1>6
  <2> HIDE DEF W, T, U, id
  <2> QED BY <2>1, <2>2, <2>3
<1> HIDE DEF W, T, U, Z
<1>8. Ext(i, W) = Ext(i, T \cup U)
  <2> DEFINE B == T \cup U
  <2>1. {ExtremeIdentity(i)} \cup W = {ExtremeIdentity(i)} \cup B BY <1>7
  <2> HIDE DEF B
  <2>2. Ext(i, W) = Ext(i, B) BY <2>1, ExtSame
  <2> QED BY <2>2 DEF B
<1>9. Ext(i, T \cup U) = Better(i, Ext(i, T), Ext(i, U)) BY <1>1, ExtUnion
<1> QED BY <1>8, <1>9 DEF Extreme, T, U, W, Z

-----------------------------------------------------------------------------
(* The fold stands for the rows of X, which are over the levels of L. *)
Standing(f, L, X) ==
  /\ f \in Folds /\ L \in SUBSET Levels /\ X \in SUBSET RowsOver(L) /\ IsFiniteSet(X)
  /\ f.count = Cardinality(X)
  /\ \A i \in AggregateIds : IsSum(i) => f.sums[i] = Sum(i, X)
  /\ KeysOnOnePath => \A i \in AggregateIds : IsExtreme(i) => f.extremes[i] = Extreme(i, X)

(* The fields of a fold. *)
LEMMA FoldFields ==
  \A f \in Folds : /\ f.count \in Int /\ f.sums \in [AggregateIds -> Int]
                   /\ f.extremes \in [AggregateIds -> Values]
BY DEF Folds

(* Combine makes a fold of two. *)
LEMMA CombineType == ASSUME NEW f \in Folds, NEW g \in Folds PROVE Combine(f, g) \in Folds
<1>1. /\ f.count \in Int /\ g.count \in Int
      /\ \A i \in AggregateIds : f.sums[i] \in Int /\ g.sums[i] \in Int
      /\ \A i \in AggregateIds : f.extremes[i] \in Values /\ g.extremes[i] \in Values
  BY FoldFields
<1>2. \A a, b, c, d \in Int : a * b \in Int /\ a * b + c * d \in Int OBVIOUS
<1>3. f.count * g.count \in Int BY <1>1, <1>2
<1>4. \A i \in AggregateIds : f.sums[i] * g.count + f.count * g.sums[i] \in Int BY <1>1, <1>2
<1>5. \A i \in AggregateIds :
        /\ ExtremeIdentity(i) \in Values
        /\ Better(i, f.extremes[i], g.extremes[i]) \in Values
  BY <1>1, BetterIs, ValuesFacts
<1>6. \A i \in AggregateIds :
        (IF f.count = 0 \/ g.count = 0 THEN ExtremeIdentity(i)
         ELSE Better(i, f.extremes[i], g.extremes[i])) \in Values
  BY <1>5
<1> QED BY <1>3, <1>4, <1>6 DEF Combine, Folds

(* The three folds that a walk starts from. *)
LEMMA NothingIs ==
  /\ Nothing \in Folds /\ Identity \in Folds /\ NewFold \in Folds
  /\ Nothing.count = 0 /\ Identity.count = 1 /\ NewFold.count = 1
  /\ \A i \in AggregateIds : /\ Nothing.sums[i] = 0 /\ Identity.sums[i] = 0 /\ NewFold.sums[i] = 0
                             /\ Nothing.extremes[i] = ExtremeIdentity(i)
                             /\ Identity.extremes[i] = ExtremeIdentity(i)
<1>1. 0 \in Values /\ \A i : ExtremeIdentity(i) \in Values BY ValuesFacts
<1>2. NewFold \in Folds BY <1>1 DEF NewFold, Folds
<1>3. Identity = [count    |-> 1,
                  sums     |-> [i \in AggregateIds |-> 0],
                  extremes |-> [i \in AggregateIds |-> ExtremeIdentity(i)]]
  BY DEF Identity, NewFold
<1>4. Nothing = [count    |-> 0,
                 sums     |-> [i \in AggregateIds |-> 0],
                 extremes |-> [i \in AggregateIds |-> ExtremeIdentity(i)]]
  BY <1>3 DEF Nothing
<1>5. Identity \in Folds /\ Nothing \in Folds BY <1>1, <1>3, <1>4 DEF Folds
<1> QED BY <1>2, <1>3, <1>4, <1>5 DEF NewFold

(* Alternatives makes a fold of finitely many. *)
LEMMA AlternativesType ==
  ASSUME NEW into \in Folds, NEW I, IsFiniteSet(I), NEW F \in [I -> Folds]
  PROVE  Alternatives(into, F) \in Folds
<1>1. \A x \in I : /\ F[x].count \in Int /\ F[x].sums \in [AggregateIds -> Int]
                   /\ F[x].extremes \in [AggregateIds -> Values]
  BY FoldFields
<1>2. /\ into.count \in Int /\ into.sums \in [AggregateIds -> Int]
      /\ into.extremes \in [AggregateIds -> Values]
  BY FoldFields
<1>3. DOMAIN F = I OBVIOUS
<1>4. into.count + SumFunction([x \in I |-> F[x].count]) \in Int
  <2> DEFINE c == [x \in I |-> F[x].count]
  <2>1. c \in [I -> Int] BY <1>1
  <2> HIDE DEF c
  <2>2. SumFunction(c) \in Int BY <2>1, SumType
  <2> QED BY <1>2, <2>2 DEF c
<1>5. ASSUME NEW i \in AggregateIds
      PROVE  into.sums[i] + SumFunction([x \in I |-> F[x].sums[i]]) \in Int
  <2> DEFINE c == [x \in I |-> F[x].sums[i]]
  <2>1. c \in [I -> Int] BY <1>1
  <2> HIDE DEF c
  <2>2. SumFunction(c) \in Int BY <2>1, SumType
  <2> QED BY <1>2, <2>2 DEF c
<1>6. ASSUME NEW i \in AggregateIds
      PROVE  Best(i, {into.extremes[i]} \cup {F[x].extremes[i] : x \in I}) \in Values
  <2> DEFINE T == {into.extremes[i]} \cup {F[x].extremes[i] : x \in I}
  <2>0. into.extremes[i] \in Values /\ \A x \in I : F[x].extremes[i] \in Values BY <1>1, <1>2
  <2>1. T \in SUBSET Values /\ T # {} BY <2>0
  <2> HIDE DEF T
  <2>2. Best(i, T) \in T BY <2>1, BestIs
  <2> QED BY <2>1, <2>2 DEF T
<1>7. [i \in AggregateIds |-> into.sums[i] + SumFunction([x \in I |-> F[x].sums[i]])]
        \in [AggregateIds -> Int]
  BY <1>5
<1>8. [i \in AggregateIds |-> Best(i, {into.extremes[i]} \cup {F[x].extremes[i] : x \in I})]
        \in [AggregateIds -> Values]
  BY <1>6
<1> QED BY <1>3, <1>4, <1>7, <1>8 DEF Alternatives, Folds

(* Independent sets multiply. *)
LEMMA StandingTimes ==
  ASSUME NEW f, NEW g, NEW L, NEW M, NEW X, NEW Y, Standing(f, L, X), Standing(g, M, Y),
         L \cap M = {}
  PROVE  Standing(Combine(f, g), L \cup M, Times(L, X, M, Y))
<1> DEFINE Z == Times(L, X, M, Y)
           h == Combine(f, g)
<1>1. /\ f \in Folds /\ L \in SUBSET Levels /\ X \in SUBSET RowsOver(L) /\ IsFiniteSet(X)
      /\ g \in Folds /\ M \in SUBSET Levels /\ Y \in SUBSET RowsOver(M) /\ IsFiniteSet(Y)
      /\ f.count = Cardinality(X) /\ g.count = Cardinality(Y)
  BY DEF Standing
<1>2. h \in Folds BY <1>1, CombineType
<1>3. Z \in SUBSET RowsOver(L \cup M) /\ IsFiniteSet(Z) /\ Cardinality(Z) = Cardinality(X) * Cardinality(Y)
  <2>1. X \in SUBSET RowsOver(L) /\ Y \in SUBSET RowsOver(M) /\ IsFiniteSet(X) /\ IsFiniteSet(Y)
    BY <1>1
  <2>2. Times(L, X, M, Y) \in SUBSET RowsOver(L \cup M) /\ IsFiniteSet(Times(L, X, M, Y))
    BY <2>1, TimesFinite
  <2>3. Cardinality(Times(L, X, M, Y)) = Prod(Cardinality(X), Cardinality(Y))
    BY <2>1, TimesCount
  <2> QED BY <2>2, <2>3 DEF Prod
<1>4. h.count = Cardinality(Z) BY <1>1, <1>3 DEF Combine
<1>5. ASSUME NEW i \in AggregateIds, IsSum(i) PROVE h.sums[i] = Sum(i, Z)
  <2>1. f.sums[i] = Sum(i, X) /\ g.sums[i] = Sum(i, Y) BY <1>5 DEF Standing
  <2>2. Sum(i, Z) = Cardinality(Y) * Sum(i, X) + Cardinality(X) * Sum(i, Y) BY <1>1, SumTimes
  <2>3. Sum(i, X) \in Int /\ Sum(i, Y) \in Int BY <1>1, SumIs
  <2>4. Cardinality(X) \in Int /\ Cardinality(Y) \in Int BY <1>1, FS_CardinalityType
  <2>5. h.sums[i] = Sum(i, X) * Cardinality(Y) + Cardinality(X) * Sum(i, Y)
    BY <1>1, <2>1 DEF Combine
  <2>6. \A a, b, c, d \in Int : b * a + c * d = a * b + c * d OBVIOUS
  <2> HIDE DEF h, Z
  <2> QED BY <2>2, <2>3, <2>4, <2>5, <2>6
<1>6. ASSUME KeysOnOnePath, NEW i \in AggregateIds, IsExtreme(i) PROVE h.extremes[i] = Extreme(i, Z)
  <2>1. f.extremes[i] = Extreme(i, X) /\ g.extremes[i] = Extreme(i, Y) BY <1>6 DEF Standing
  <2>2. CASE f.count = 0 \/ g.count = 0
    <3>1. h.extremes[i] = ExtremeIdentity(i) BY <2>2 DEF Combine
    <3>2. X = {} \/ Y = {} BY <1>1, <2>2, FS_EmptySet
    <3>3. Z = {} BY <3>2 DEF Times
    <3>4. {Edge(i, z) : z \in Z} = {} BY <3>3
    <3>5. Extreme(i, Z) = ExtremeIdentity(i) BY <3>4, ExtNothing DEF Extreme
    <3> QED BY <3>1, <3>5
  <2>3. CASE ~(f.count = 0 \/ g.count = 0)
    <3>1. h.extremes[i] = Better(i, f.extremes[i], g.extremes[i]) BY <2>3 DEF Combine
    <3>2. X # {} /\ Y # {} BY <1>1, <2>3, FS_EmptySet
    <3>3. Extreme(i, Z) = Better(i, Extreme(i, X), Extreme(i, Y)) BY <1>1, <3>2, ExtremeTimes
    <3> QED BY <2>1, <3>1, <3>3
  <2> QED BY <2>2, <2>3
<1>7. L \cup M \in SUBSET Levels BY <1>1
<1> HIDE DEF h, Z
<1>8. Standing(h, L \cup M, Z) BY <1>2, <1>3, <1>4, <1>5, <1>6, <1>7 DEF Standing
<1> QED BY <1>8 DEF h, Z

(* Disjoint sets add. *)
Branches(L, I, P, F) ==
  /\ L \in SUBSET Levels /\ IsFiniteSet(I) /\ DOMAIN F = I /\ F = [x \in I |-> F[x]]
  /\ \A x \in I : Standing(F[x], L, P[x])
  /\ \A x, y \in I : x # y => P[x] \cap P[y] = {}

(* Alternatives stands for the union of disjoint sets of rows. *)
LEMMA StandingFamily ==
  ASSUME NEW L, NEW I, NEW P, NEW F, Branches(L, I, P, F)
  PROVE  Standing(Alternatives(Nothing, F), L, UNION {P[x] : x \in I})
<1> DEFINE U == UNION {P[x] : x \in I}
           Q == [x \in I |-> P[x]]
           h == Alternatives(Nothing, F)
<1>0. /\ L \in SUBSET Levels /\ IsFiniteSet(I) /\ DOMAIN F = I /\ F = [x \in I |-> F[x]]
      /\ \A x \in I : Standing(F[x], L, P[x])
      /\ \A x, y \in I : x # y => P[x] \cap P[y] = {}
  BY DEF Branches
<1> USE <1>0
<1>1. \A x \in I : F[x] \in Folds /\ P[x] \in SUBSET RowsOver(L) /\ IsFiniteSet(P[x])
  BY DEF Standing
<1>2. F \in [I -> Folds] BY <1>1
<1>3. h \in Folds BY <1>2, NothingIs, AlternativesType
<1>4. U \in SUBSET RowsOver(L) /\ IsFiniteSet(U)
  <2>1. IsFiniteSet(U) BY <1>1, FiniteFamily
  <2> QED BY <1>1, <2>1
<1>5. /\ Q \in [I -> SUBSET U] /\ UNION {Q[x] : x \in I} = U
      /\ \A x, y \in I : x # y => Q[x] \cap Q[y] = {}
  OBVIOUS
<1>6. h.count = Cardinality(U)
  <2>1. Cardinality(U) = SumFunction([x \in I |-> Cardinality(Q[x])])
    <3> HIDE DEF Q, U
    <3> QED BY <1>4, <1>5, CardinalityFamily
  <2>2. [x \in DOMAIN F |-> F[x].count] = [x \in I |-> Cardinality(Q[x])] BY DEF Standing
  <2>3. h.count = 0 + SumFunction([x \in I |-> Cardinality(Q[x])]) BY <2>2, NothingIs DEF Alternatives
  <2>4. Cardinality(U) \in Int BY <1>4, FS_CardinalityType
  <2> QED BY <2>1, <2>3, <2>4
<1>7. ASSUME NEW i \in AggregateIds, IsSum(i) PROVE h.sums[i] = Sum(i, U)
  <2> DEFINE f == [x \in U |-> Val(i, x)]
  <2>1. f \in [U -> Int] /\ SumFunction(f) = Sum(i, U) /\ Sum(i, U) \in Int
    <3> HIDE DEF U
    <3>1. f \in [U -> Int] /\ Sum(i, U) \in Int BY <1>4, SumIs
    <3> QED BY <3>1 DEF Sum
  <2>2. ASSUME NEW x \in I PROVE Total(Q[x], f) = F[x].sums[i]
    <3>1. [y \in Q[x] |-> f[y]] = [y \in Q[x] |-> Val(i, y)] BY <1>5
    <3>2. F[x].sums[i] = Sum(i, P[x]) BY <1>7 DEF Standing
    <3> QED BY <3>1, <3>2 DEF Total, Sum
  <2>3. [x \in I |-> Total(Q[x], f)] = [x \in DOMAIN F |-> F[x].sums[i]] BY <2>2
  <2> HIDE DEF f, Q, U
  <2>4. SumFunction(f) = SumFunction([x \in I |-> Total(Q[x], f)]) BY <1>4, <1>5, <2>1, SumFamily
  <2>5. h.sums[i] = 0 + SumFunction([x \in DOMAIN F |-> F[x].sums[i]]) BY NothingIs DEF Alternatives
  <2> QED BY <2>1, <2>3, <2>4, <2>5
<1>8. ASSUME KeysOnOnePath, NEW i \in AggregateIds, IsExtreme(i) PROVE h.extremes[i] = Extreme(i, U)
  <2> DEFINE E == [x \in I |-> {Edge(i, y) : y \in P[x]}]
  <2>1. E \in [I -> SUBSET Values] BY <1>1, ExtremeType
  <2>2. \A x \in I : F[x].extremes[i] = Ext(i, E[x]) BY <1>8 DEF Standing, Extreme
  <2>3. h.extremes[i] = Best(i, {ExtremeIdentity(i)} \cup {F[x].extremes[i] : x \in I})
    BY NothingIs DEF Alternatives
  <2>4. {F[x].extremes[i] : x \in I} = {Ext(i, E[x]) : x \in I}
    <3> HIDE DEF E
    <3> QED BY <2>2
  <2>5. h.extremes[i] = Ext(i, {Ext(i, E[x]) : x \in I}) BY <2>3, <2>4 DEF Ext
  <2>6. {Edge(i, y) : y \in U} = UNION {E[x] : x \in I} OBVIOUS
  <2> HIDE DEF E
  <2>7. Ext(i, {Ext(i, E[x]) : x \in I}) = Ext(i, UNION {E[x] : x \in I}) BY <2>1, ExtFamily
  <2> QED BY <2>5, <2>6, <2>7 DEF Extreme
<1> HIDE DEF h, U, Q
<1>9. Standing(h, L, U) BY <1>3, <1>4, <1>6, <1>7, <1>8 DEF Standing
<1> QED BY <1>9 DEF h, U

(* The row that names nothing. *)
EmptyRow == [l \in {} |-> 0]

(* There is one row over no level. *)
LEMMA EmptyRowIs == RowsOver({}) = {EmptyRow}
BY DEF RowsOver, EmptyRow

(* A fold with the count one that adds nothing stands for the row that names *)
(* nothing.                                                                 *)
LEMMA StandingOne ==
  ASSUME NEW f \in Folds, f.count = 1, \A i \in AggregateIds : f.sums[i] = 0,
         KeysOnOnePath => \A i \in AggregateIds : f.extremes[i] = ExtremeIdentity(i)
  PROVE  Standing(f, {}, {EmptyRow})
<1> DEFINE X == {EmptyRow}
<1>1. X \in SUBSET RowsOver({}) BY EmptyRowIs
<1>2. IsFiniteSet(X) /\ Cardinality(X) = 1 BY FS_Singleton
<1>3. \A i \in AggregateIds : Val(i, EmptyRow) = 0 /\ Edge(i, EmptyRow) = ExtremeIdentity(i)
  BY DEF Val, Edge, At, EmptyRow
<1>4. ASSUME NEW i \in AggregateIds PROVE Sum(i, X) = 0
  <2>1. [x \in X |-> Val(i, x)] = [x \in X |-> 0] BY <1>3
  <2>2. SumFunction([x \in X |-> 0]) = 0 BY <1>2, SumZeros
  <2> QED BY <2>1, <2>2 DEF Sum
<1>5. ASSUME NEW i \in AggregateIds PROVE Extreme(i, X) = ExtremeIdentity(i)
  <2>1. \A v \in {Edge(i, x) : x \in X} : v = ExtremeIdentity(i) BY <1>3
  <2> QED BY <2>1, ExtNothing DEF Extreme
<1> HIDE DEF X
<1>6. Standing(f, {}, X) BY <1>1, <1>2, <1>4, <1>5 DEF Standing
<1> QED BY <1>6 DEF X

(* Identity does. *)
LEMMA StandingIdentity == Standing(Identity, {}, {EmptyRow})
BY NothingIs, StandingOne

(* The walk starts the branches of a crossing with extremes of zero, which *)
(* is right only for the counts and the sums.                              *)
LEMMA StandingNewFold == ASSUME ~KeysOnOnePath PROVE Standing(NewFold, {}, {EmptyRow})
BY NothingIs, StandingOne

-----------------------------------------------------------------------------
(* The assumptions on the records, for the provers. *)
LEMMA RecordFacts ==
  \A r \in Records :
    /\ r.level \in Levels /\ r.weight \in Nat /\ r.weight # 0
    /\ r.value \in [Attributes[r.level] -> Values]
    /\ DOMAIN r.slots = DOMAIN Slots[r.level] /\ DOMAIN r.slots = 1 .. Len(r.slots)
    /\ Len(r.slots) \in Nat
    /\ \A s \in DOMAIN r.slots : /\ r.slots[s] \in SUBSET Records /\ IsFiniteSet(r.slots[s])
                                 /\ \A child \in r.slots[s] : child.level = Slots[r.level][s]
<1> SUFFICES ASSUME NEW r \in Records
             PROVE  /\ r.level \in Levels /\ r.weight \in Nat /\ r.weight # 0
                    /\ r.value \in [Attributes[r.level] -> Values]
                    /\ DOMAIN r.slots = DOMAIN Slots[r.level] /\ DOMAIN r.slots = 1 .. Len(r.slots)
                    /\ Len(r.slots) \in Nat
                    /\ \A s \in DOMAIN r.slots :
                         /\ r.slots[s] \in SUBSET Records /\ IsFiniteSet(r.slots[s])
                         /\ \A child \in r.slots[s] : child.level = Slots[r.level][s]
  OBVIOUS
<1>1. /\ r.level \in Levels /\ r.weight \in Nat \ {0}
      /\ r.value \in [Attributes[r.level] -> Values]
      /\ r.slots \in Seq(SUBSET Records) /\ Len(r.slots) = Len(Slots[r.level])
      /\ \A s \in DOMAIN r.slots : /\ IsFiniteSet(r.slots[s])
                                   /\ \A child \in r.slots[s] : child.level = Slots[r.level][s]
  BY RecordsAssumption
<1> DEFINE q == r.slots
<1>2. q \in Seq(SUBSET Records) BY <1>1
<1> HIDE DEF q
<1>3. /\ DOMAIN q = 1 .. Len(q) /\ Len(q) \in Nat
      /\ \A s \in DOMAIN q : q[s] \in SUBSET Records
  BY <1>2
<1>4. DOMAIN q = DOMAIN Slots[r.level] BY <1>1, <1>3, TreeFacts DEF q
<1> QED BY <1>1, <1>3, <1>4 DEF q

(* A child is on the level of its slot. *)
LEMMA ChildFacts ==
  \A r \in Records : \A s \in DOMAIN r.slots : \A child \in r.slots[s] :
    child \in Records /\ child.level = Slots[r.level][s] /\ N - child.level < N - r.level
<1>1. \A r \in Records : \A s \in DOMAIN r.slots : \A child \in r.slots[s] :
        child \in Records /\ child.level = Slots[r.level][s] /\ r.level \in Levels
        /\ s \in DOMAIN Slots[r.level]
  BY RecordFacts
<1> QED BY <1>1, RankFacts

(* What holds of a record when it holds of its children holds. *)
LEMMA UpTheRecords ==
  ASSUME NEW S \in SUBSET Records,
         \A r \in Records : (\A s \in DOMAIN r.slots : \A child \in r.slots[s] : child \in S) => r \in S
  PROVE  S = Records
<1> DEFINE T == {l \in Levels : \A r \in Records : r.level = l => r \in S}
<1>1. ASSUME NEW l \in Levels, \A s \in DOMAIN Slots[l] : Slots[l][s] \in T PROVE l \in T
  <2> SUFFICES ASSUME NEW r \in Records, r.level = l PROVE r \in S OBVIOUS
  <2>1. DOMAIN r.slots = DOMAIN Slots[l] BY RecordFacts
  <2>2. \A s \in DOMAIN r.slots : \A child \in r.slots[s] : child \in S
    BY <1>1, <2>1, ChildFacts
  <2> QED BY <2>2
<1>2. T \in SUBSET Levels OBVIOUS
<1> HIDE DEF T
<1>3. T = Levels BY <1>1, <1>2, UpTheTree
<1>4. \A r \in Records : r \in S BY <1>3, RecordFacts DEF T
<1> QED BY <1>4

(* A definition by recursion over the children of a record. *)
RankOf == [r \in Records |-> N - r.level]

(* The rank of a record falls to its children. *)
LEMMA RankOfIs ==
  /\ N \in Nat /\ RankOf \in [Records -> 0 .. N]
  /\ \A r \in Records : \A s \in DOMAIN r.slots : \A child \in r.slots[s] :
       child \in Records /\ RankOf[child] < RankOf[r]
<1>1. \A r \in Records : N - r.level \in 0 .. N BY RecordFacts, TreeFacts
<1>2. RankOf \in [Records -> 0 .. N] BY <1>1 DEF RankOf
<1> QED BY <1>2, ChildFacts, TreeFacts DEF RankOf

(* What Product computes: one factor after the other. *)
LEMMA ProductIs ==
  ASSUME NEW k \in Nat, NEW factors \in [1 .. k -> Int]
  PROVE  \E p \in [0 .. k -> Int] :
           /\ Product(factors) = p[k] /\ p[0] = 1
           /\ \A n \in 1 .. k : p[n] = p[n - 1] * factors[n]
<1> DEFINE D == 0 .. k
           rank == [n \in D |-> n]
           G == [n \in D |-> [f \in [D -> Int] |-> IF n = 0 THEN 1 ELSE f[n - 1] * factors[n]]]
           Iter(f) == [n \in D |-> IF n = 0 THEN 1 ELSE f[n - 1] * factors[n]]
<1>1. G \in [D -> [[D -> Int] -> Int]]
  <2> SUFFICES ASSUME NEW n \in D, NEW f \in [D -> Int]
               PROVE  (IF n = 0 THEN 1 ELSE f[n - 1] * factors[n]) \in Int
    OBVIOUS
  <2>1. CASE n = 0 BY <2>1
  <2>2. CASE n # 0
    <3>1. n - 1 \in D /\ n \in 1 .. k BY <2>2
    <3>2. f[n - 1] \in Int /\ factors[n] \in Int BY <3>1
    <3>3. \A a, b \in Int : a * b \in Int OBVIOUS
    <3> QED BY <2>2, <3>2, <3>3
  <2> QED BY <2>1, <2>2
<1>2. \A n \in D : \A f, g \in [D -> Int] :
        (\A m \in D : rank[m] < rank[n] => f[m] = g[m]) => G[n][f] = G[n][g]
  <2> SUFFICES ASSUME NEW n \in D, NEW f \in [D -> Int], NEW g \in [D -> Int],
                      \A m \in D : rank[m] < rank[n] => f[m] = g[m]
               PROVE  G[n][f] = G[n][g]
    OBVIOUS
  <2>1. n # 0 => n - 1 \in D /\ n - 1 < n OBVIOUS
  <2>2. n # 0 => f[n - 1] = g[n - 1] BY <2>1
  <2> QED BY <2>2
<1>3. rank \in [D -> 0 .. k] OBVIOUS
<1>4. PICK f \in [D -> Int] : \A n \in D : f[n] = G[n][f]
  <2>1. PICK z \in Int : TRUE OBVIOUS
  <2> HIDE DEF G, rank, D
  <2>2. Guarded(D, Int, k, rank, G) BY <1>1, <1>2, <1>3 DEF Guarded
  <2> QED BY <2>1, <2>2, Recursion
<1>5. f = Iter(f) BY <1>4
<1> DEFINE p == CHOOSE g : g = Iter(g)
<1>6. p = Iter(p)
  <2> HIDE DEF Iter
  <2> QED BY <1>5
<1> HIDE DEF p
<1>7. DOMAIN p = D /\ p[0] = 1 /\ \A n \in 1 .. k : p[n] = p[n - 1] * factors[n]
  <2>1. DOMAIN p = D BY <1>6
  <2>2. \A n \in D : p[n] = IF n = 0 THEN 1 ELSE p[n - 1] * factors[n] BY <1>6
  <2>3. 0 \in D /\ \A n \in 1 .. k : n \in D /\ n # 0 OBVIOUS
  <2> HIDE DEF D
  <2> QED BY <2>1, <2>2, <2>3
<1>8. Len(factors) = k
  <2>1. factors \in Seq(Int) OBVIOUS
  <2> QED BY <2>1
<1>9. Product(factors) = p[k] BY <1>8 DEF Product, p
<1>10. p \in [0 .. k -> Int]
  <2> DEFINE S == {n \in Nat : n \in D => p[n] \in Int}
  <2>1. 0 \in S BY <1>7
  <2>2. ASSUME NEW n \in S PROVE n + 1 \in S
    <3> SUFFICES ASSUME n + 1 \in D PROVE p[n + 1] \in Int OBVIOUS
    <3>1. n \in D /\ n + 1 \in 1 .. k /\ (n + 1) - 1 = n OBVIOUS
    <3>2. p[n] \in Int /\ factors[n + 1] \in Int BY <3>1
    <3>3. p[n + 1] = p[n] * factors[n + 1] BY <1>7, <3>1
    <3>4. \A a, b \in Int : a * b \in Int OBVIOUS
    <3> QED BY <3>2, <3>3, <3>4
  <2>3. S \in SUBSET Nat OBVIOUS
  <2> HIDE DEF S
  <2>4. S = Nat BY <2>1, <2>2, <2>3, Climb
  <2>5. p = [n \in D |-> p[n]] BY <1>6
  <2>6. \A n \in D : n \in Nat OBVIOUS
  <2>7. \A n \in D : p[n] \in Int BY <2>4, <2>6 DEF S
  <2> HIDE DEF D
  <2>8. p \in [D -> Int] BY <2>5, <2>7
  <2> QED BY <2>8 DEF D
<1> QED BY <1>7, <1>9, <1>10

-----------------------------------------------------------------------------
(* SubtreeSize satisfies its recursive definition. *)
LEMMA SizeDef ==
  /\ SubtreeSize \in [Records -> Int]
  /\ \A r \in Records :
       SubtreeSize[r] = r.weight * Product([s \in DOMAIN r.slots |->
                          SumFunction([child \in r.slots[s] |-> SubtreeSize[child]])])
<1> DEFINE Body(f, r) == r.weight * Product([s \in DOMAIN r.slots |->
                           SumFunction([child \in r.slots[s] |-> f[child]])])
           G == [r \in Records |-> [f \in [Records -> Int] |-> Body(f, r)]]
           Iter(f) == [record \in Records |-> Body(f, record)]
<1>1. G \in [Records -> [[Records -> Int] -> Int]]
  <2> SUFFICES ASSUME NEW r \in Records, NEW f \in [Records -> Int] PROVE Body(f, r) \in Int
    OBVIOUS
  <2> DEFINE factors == [s \in DOMAIN r.slots |-> SumFunction([child \in r.slots[s] |-> f[child]])]
             k == Len(r.slots)
  <2>1. ASSUME NEW s \in DOMAIN r.slots
        PROVE  SumFunction([child \in r.slots[s] |-> f[child]]) \in Int
    <3> DEFINE T == r.slots[s]
               g == [child \in T |-> f[child]]
    <3>1. IsFiniteSet(T) /\ T \in SUBSET Records BY RecordFacts
    <3> HIDE DEF T
    <3>2. g \in [T -> Int] BY <3>1
    <3> HIDE DEF g
    <3>3. SumFunction(g) \in Int BY <3>1, <3>2, SumType
    <3> QED BY <3>3 DEF g, T
  <2>2. k \in Nat /\ DOMAIN r.slots = 1 .. k BY RecordFacts
  <2>3. factors \in [1 .. k -> Int] BY <2>1, <2>2
  <2> HIDE DEF factors, k
  <2>4. PICK p \in [0 .. k -> Int] : Product(factors) = p[k] BY <2>2, <2>3, ProductIs
  <2>5. Product(factors) \in Int /\ r.weight \in Int
    <3>1. k \in 0 .. k BY <2>2
    <3> QED BY <2>4, <3>1, RecordFacts
  <2>6. \A a, b \in Int : a * b \in Int OBVIOUS
  <2>7. r.weight * Product(factors) \in Int BY <2>5, <2>6
  <2> QED BY <2>7 DEF factors
<1>2. \A r \in Records : \A f, g \in [Records -> Int] :
        (\A q \in Records : RankOf[q] < RankOf[r] => f[q] = g[q]) => G[r][f] = G[r][g]
  <2> SUFFICES ASSUME NEW r \in Records, NEW f \in [Records -> Int], NEW g \in [Records -> Int],
                      \A q \in Records : RankOf[q] < RankOf[r] => f[q] = g[q]
               PROVE  Body(f, r) = Body(g, r)
    OBVIOUS
  <2>1. \A s \in DOMAIN r.slots : \A child \in r.slots[s] : f[child] = g[child] BY RankOfIs
  <2>2. \A s \in DOMAIN r.slots :
          [child \in r.slots[s] |-> f[child]] = [child \in r.slots[s] |-> g[child]]
    BY <2>1
  <2>3. [s \in DOMAIN r.slots |-> SumFunction([child \in r.slots[s] |-> f[child]])]
        = [s \in DOMAIN r.slots |-> SumFunction([child \in r.slots[s] |-> g[child]])]
    BY <2>2
  <2> QED BY <2>3
<1>3. PICK f \in [Records -> Int] : \A r \in Records : f[r] = G[r][f]
  <2>1. PICK z \in Int : TRUE OBVIOUS
  <2> HIDE DEF G
  <2>2. Guarded(Records, Int, N, RankOf, G) BY <1>1, <1>2, RankOfIs DEF Guarded
  <2> QED BY <2>1, <2>2, Recursion
<1> HIDE DEF Body
<1>4. f = Iter(f) BY <1>3
<1>5. SubtreeSize = CHOOSE g : g = Iter(g) BY DEF SubtreeSize, GetWeight, Body
<1>6. SubtreeSize = Iter(SubtreeSize)
  <2> HIDE DEF Iter
  <2> QED BY <1>4, <1>5
<1>7. \A r \in Records : SubtreeSize[r] = Body(SubtreeSize, r) BY <1>6
<1>8. SubtreeSize = f
  <2> DEFINE S == {r \in Records : SubtreeSize[r] = f[r]}
  <2>1. ASSUME NEW r \in Records, \A s \in DOMAIN r.slots : \A child \in r.slots[s] : child \in S
        PROVE  r \in S
    <3>1. \A s \in DOMAIN r.slots : \A child \in r.slots[s] : f[child] = SubtreeSize[child] BY <2>1
    <3>2. \A s \in DOMAIN r.slots :
            [child \in r.slots[s] |-> f[child]] = [child \in r.slots[s] |-> SubtreeSize[child]]
      BY <3>1
    <3>3. [s \in DOMAIN r.slots |-> SumFunction([child \in r.slots[s] |-> f[child]])]
          = [s \in DOMAIN r.slots |-> SumFunction([child \in r.slots[s] |-> SubtreeSize[child]])]
      BY <3>2
    <3>4. Body(f, r) = Body(SubtreeSize, r) BY <3>3 DEF Body
    <3> QED BY <1>3, <1>7, <3>4
  <2>2. S \in SUBSET Records OBVIOUS
  <2> HIDE DEF S
  <2>3. S = Records BY <2>1, <2>2, UpTheRecords
  <2>4. \A r \in Records : SubtreeSize[r] = f[r] BY <2>3 DEF S
  <2>5. SubtreeSize = [r \in Records |-> SubtreeSize[r]] BY <1>6
  <2>6. f = [r \in Records |-> f[r]] OBVIOUS
  <2> QED BY <2>4, <2>5, <2>6
<1> QED BY <1>7, <1>8 DEF Body

-----------------------------------------------------------------------------
(* FlatRows, in terms of the rows of the children. *)
AltOf(f, r, s) == UNION {f[child] : child \in r.slots[s]}
PicksOf(f, r) ==
  {pick \in [DOMAIN r.slots -> UNION {AltOf(f, r, s) : s \in DOMAIN r.slots}] :
     \A s \in DOMAIN r.slots : pick[s] \in AltOf(f, r, s)}
RowOf(r, own, pick) ==
  [l \in Below[r.level] |-> IF l = r.level THEN own ELSE pick[SlotTo(r.level, l)][l]]
RowsBody(f, r) == {RowOf(r, own, pick) : own \in Copies(r), pick \in PicksOf(f, r)}

(* The levels below slot s of a record. *)
Under(r, s) == Below[Slots[r.level][s]]

(* What is below the slots of a record: disjoint sets of levels, without its *)
(* own.                                                                     *)
LEMMA UnderFacts ==
  ASSUME NEW r \in Records, NEW s \in DOMAIN r.slots
  PROVE  /\ Under(r, s) \in SUBSET Levels /\ Under(r, s) \subseteq Below[r.level]
         /\ r.level \notin Under(r, s)
         /\ \A l \in Under(r, s) : SlotTo(r.level, l) = s
         /\ \A t \in DOMAIN r.slots : s # t => Under(r, s) \cap Under(r, t) = {}
         /\ \A child \in r.slots[s] : Below[child.level] = Under(r, s)
<1> DEFINE l == r.level
<1>1. l \in Levels /\ DOMAIN r.slots = DOMAIN Slots[l] BY RecordFacts
<1>2. s \in DOMAIN Slots[l] /\ Slots[l][s] \in Levels BY <1>1, TreeFacts
<1>3. Under(r, s) \in SUBSET Levels BY <1>2, BelowType DEF Under
<1>4. Under(r, s) \subseteq Below[r.level] BY <1>1, <1>2, BelowSlot DEF Under
<1>5. r.level \notin Under(r, s)
  <2>1. l \in Under(r, s) => l < l BY <1>1, <1>2, SlotGreater DEF Under
  <2> QED BY <2>1, <1>1, TreeFacts
<1>6. \A m \in Under(r, s) : SlotTo(r.level, m) = s BY <1>1, <1>2, SlotToIs DEF Under
<1>7. \A t \in DOMAIN r.slots : s # t => Under(r, s) \cap Under(r, t) = {}
  BY <1>1, <1>2, SlotsApart DEF Under
<1>8. \A child \in r.slots[s] : Below[child.level] = Under(r, s) BY ChildFacts DEF Under
<1> QED BY <1>3, <1>4, <1>5, <1>6, <1>7, <1>8

(* Every other level below a record is below one of its slots. *)
LEMMA UnderSplit ==
  ASSUME NEW r \in Records, NEW l \in Below[r.level], l # r.level
  PROVE  \E s \in DOMAIN r.slots : l \in Under(r, s)
<1>1. r.level \in Levels /\ DOMAIN r.slots = DOMAIN Slots[r.level] BY RecordFacts
<1> QED BY <1>1, BelowSplit DEF Under

(* A copy names its record. *)
LEMMA CopiesAre ==
  ASSUME NEW r \in Records, NEW own \in Copies(r) PROVE own \in Cells /\ own.record = r
<1>1. PICK c \in 1 .. r.weight : own = [record |-> r, copy |-> c] BY DEF Copies
<1>2. c \in Nat BY RecordFacts
<1> QED BY <1>1, <1>2 DEF Cells

(* A row put together from rows of the children is a row. *)
LEMMA RowOfIs ==
  ASSUME NEW f, NEW r \in Records, NEW own \in Copies(r), NEW pick \in PicksOf(f, r),
         \A s \in DOMAIN r.slots : \A child \in r.slots[s] :
           f[child] \in SUBSET RowsOver(Below[child.level])
  PROVE  /\ RowOf(r, own, pick) \in RowsOver(Below[r.level])
         /\ RowOf(r, own, pick)[r.level] = own
         /\ \A s \in DOMAIN r.slots : Restrict(RowOf(r, own, pick), Under(r, s)) = pick[s]
<1> DEFINE x == RowOf(r, own, pick)
<1>1. \A s \in DOMAIN r.slots : pick[s] \in AltOf(f, r, s) BY DEF PicksOf
<1>2. ASSUME NEW s \in DOMAIN r.slots PROVE pick[s] \in RowsOver(Under(r, s))
  <2>1. PICK child \in r.slots[s] : pick[s] \in f[child] BY <1>1 DEF AltOf
  <2>2. Below[child.level] = Under(r, s) BY UnderFacts
  <2> QED BY <2>1, <2>2
<1>3. r.level \in Below[r.level] BY RecordFacts, BelowSelf
<1>4. x[r.level] = own BY <1>3 DEF RowOf
<1>5. ASSUME NEW s \in DOMAIN r.slots, NEW l \in Under(r, s) PROVE x[l] = pick[s][l]
  <2>1. l \in Below[r.level] /\ l # r.level /\ SlotTo(r.level, l) = s BY UnderFacts
  <2> QED BY <2>1 DEF RowOf
<1>6. x \in RowsOver(Below[r.level])
  <2>1. ASSUME NEW l \in Below[r.level] PROVE x[l] \in Cells /\ x[l].record.level = l
    <3>1. CASE l = r.level BY <1>4, <3>1, CopiesAre
    <3>2. CASE l # r.level
      <4>1. PICK s \in DOMAIN r.slots : l \in Under(r, s) BY <3>2, UnderSplit
      <4>2. x[l] = pick[s][l] BY <1>5, <4>1
      <4>3. pick[s][l] \in Cells /\ pick[s][l].record.level = l BY <1>2, <4>1 DEF RowsOver
      <4> QED BY <4>2, <4>3
    <3> QED BY <3>1, <3>2
  <2>2. x = [l \in Below[r.level] |-> x[l]] BY DEF RowOf
  <2> HIDE DEF x
  <2> QED BY <2>1, <2>2 DEF RowsOver
<1>7. ASSUME NEW s \in DOMAIN r.slots PROVE Restrict(x, Under(r, s)) = pick[s]
  <2>1. \A l \in Under(r, s) : x[l] = pick[s][l] BY <1>5
  <2>2. pick[s] = [l \in Under(r, s) |-> pick[s][l]] BY <1>2 DEF RowsOver
  <2> HIDE DEF x
  <2> QED BY <2>1, <2>2 DEF Restrict
<1> QED BY <1>4, <1>6, <1>7

(* FlatRows satisfies its recursive definition, and its rows are over the   *)
(* levels below the record.                                                 *)
LEMMA FlatRowsDef ==
  /\ \A r \in Records : FlatRows[r] = RowsBody(FlatRows, r)
  /\ \A r \in Records : FlatRows[r] \in SUBSET RowsOver(Below[r.level])
<1> DEFINE PartialRows == UNION {RowsOver(L) : L \in SUBSET Levels}
           V == SUBSET PartialRows
           G == [r \in Records |-> [f \in [Records -> V] |-> RowsBody(f, r) \cap RowsOver(Below[r.level])]]
           Iter(f) == [record \in Records |-> RowsBody(f, record)]
<1>1. \A r \in Records : Below[r.level] \in SUBSET Levels BY RecordFacts, BelowType
<1>2. G \in [Records -> [[Records -> V] -> V]]
  <2> SUFFICES ASSUME NEW r \in Records, NEW f \in [Records -> V]
               PROVE  RowsBody(f, r) \cap RowsOver(Below[r.level]) \in V
    OBVIOUS
  <2>1. RowsOver(Below[r.level]) \subseteq PartialRows BY <1>1
  <2> HIDE DEF PartialRows
  <2> QED BY <2>1
<1>3. ASSUME NEW r \in Records, NEW f, NEW g,
             \A s \in DOMAIN r.slots : \A child \in r.slots[s] : f[child] = g[child]
      PROVE  RowsBody(f, r) = RowsBody(g, r)
  <2>1. \A s \in DOMAIN r.slots : AltOf(f, r, s) = AltOf(g, r, s) BY <1>3 DEF AltOf
  <2>2. UNION {AltOf(f, r, s) : s \in DOMAIN r.slots} = UNION {AltOf(g, r, s) : s \in DOMAIN r.slots}
    BY <2>1
  <2>3. PicksOf(f, r) = PicksOf(g, r) BY <2>1, <2>2 DEF PicksOf
  <2> QED BY <2>3 DEF RowsBody
<1>4. \A r \in Records : \A f, g \in [Records -> V] :
        (\A q \in Records : RankOf[q] < RankOf[r] => f[q] = g[q]) => G[r][f] = G[r][g]
  <2> SUFFICES ASSUME NEW r \in Records, NEW f \in [Records -> V], NEW g \in [Records -> V],
                      \A q \in Records : RankOf[q] < RankOf[r] => f[q] = g[q]
               PROVE  RowsBody(f, r) = RowsBody(g, r)
    OBVIOUS
  <2>1. \A s \in DOMAIN r.slots : \A child \in r.slots[s] : f[child] = g[child] BY RankOfIs
  <2> HIDE DEF V
  <2> QED BY <1>3, <2>1
<1>5. PICK f \in [Records -> V] : \A r \in Records : f[r] = G[r][f]
  <2>1. PICK v \in V : TRUE OBVIOUS
  <2> HIDE DEF G, V
  <2>2. Guarded(Records, V, N, RankOf, G) BY <1>2, <1>4, RankOfIs DEF Guarded
  <2> QED BY <2>1, <2>2, Recursion
<1>6. \A r \in Records : f[r] = RowsBody(f, r) \cap RowsOver(Below[r.level]) BY <1>5
<1> HIDE DEF V, G
<1>7. \A r \in Records : f[r] \in SUBSET RowsOver(Below[r.level]) BY <1>6
<1>8. ASSUME NEW r \in Records PROVE f[r] = RowsBody(f, r)
  <2>1. \A s \in DOMAIN r.slots : \A child \in r.slots[s] :
          f[child] \in SUBSET RowsOver(Below[child.level])
    BY <1>7, ChildFacts
  <2>2. \A own \in Copies(r) : \A pick \in PicksOf(f, r) : RowOf(r, own, pick) \in RowsOver(Below[r.level])
    BY <2>1, RowOfIs
  <2>3. RowsBody(f, r) \subseteq RowsOver(Below[r.level]) BY <2>2 DEF RowsBody
  <2> QED BY <2>3, <1>6
<1>9. f = Iter(f) BY <1>8
<1>10. FlatRows = CHOOSE g : g = Iter(g)
  BY DEF FlatRows, RowsBody, PicksOf, AltOf, RowOf
<1>11. FlatRows = Iter(FlatRows)
  <2> HIDE DEF Iter
  <2> QED BY <1>9, <1>10
<1>12. \A r \in Records : FlatRows[r] = RowsBody(FlatRows, r) BY <1>11
<1>13. \A r \in Records : FlatRows[r] = f[r]
  <2> DEFINE S == {r \in Records : FlatRows[r] = f[r]}
  <2>1. ASSUME NEW r \in Records, \A s \in DOMAIN r.slots : \A child \in r.slots[s] : child \in S
        PROVE  r \in S
    <3>1. \A s \in DOMAIN r.slots : \A child \in r.slots[s] : FlatRows[child] = f[child] BY <2>1
    <3>2. RowsBody(FlatRows, r) = RowsBody(f, r) BY <1>3, <3>1
    <3> QED BY <1>8, <1>12, <3>2
  <2>2. S \in SUBSET Records OBVIOUS
  <2> HIDE DEF S
  <2>3. S = Records BY <2>1, <2>2, UpTheRecords
  <2> QED BY <2>3 DEF S
<1> QED BY <1>7, <1>12, <1>13

(* The rows below slot s, whichever child they are of. *)
Alt(r, s) == AltOf(FlatRows, r, s)

(* The rows of a slot are over the levels below it. *)
LEMMA AltRows ==
  ASSUME NEW r \in Records, NEW s \in DOMAIN r.slots PROVE Alt(r, s) \in SUBSET RowsOver(Under(r, s))
<1>1. \A child \in r.slots[s] : FlatRows[child] \in SUBSET RowsOver(Under(r, s))
  BY ChildFacts, FlatRowsDef, UnderFacts
<1> QED BY <1>1 DEF Alt, AltOf

(* A row of a record is one of its copies and a row below each slot. *)
LEMMA FlatRowsAre ==
  ASSUME NEW r \in Records, NEW x
  PROVE  x \in FlatRows[r] <=>
           /\ x \in RowsOver(Below[r.level]) /\ x[r.level] \in Copies(r)
           /\ \A s \in DOMAIN r.slots : Restrict(x, Under(r, s)) \in Alt(r, s)
<1>1. FlatRows[r] = RowsBody(FlatRows, r) BY FlatRowsDef
<1>2. \A s \in DOMAIN r.slots : \A child \in r.slots[s] :
        FlatRows[child] \in SUBSET RowsOver(Below[child.level])
  BY FlatRowsDef, ChildFacts
<1>3. ASSUME x \in FlatRows[r]
      PROVE  /\ x \in RowsOver(Below[r.level]) /\ x[r.level] \in Copies(r)
             /\ \A s \in DOMAIN r.slots : Restrict(x, Under(r, s)) \in Alt(r, s)
  <2>1. PICK own \in Copies(r), pick \in PicksOf(FlatRows, r) : x = RowOf(r, own, pick)
    BY <1>1, <1>3 DEF RowsBody
  <2>2. /\ x \in RowsOver(Below[r.level]) /\ x[r.level] = own
        /\ \A s \in DOMAIN r.slots : Restrict(x, Under(r, s)) = pick[s]
    BY <2>1, <1>2, RowOfIs
  <2>3. \A s \in DOMAIN r.slots : pick[s] \in Alt(r, s) BY DEF PicksOf, Alt
  <2> QED BY <2>2, <2>3
<1>4. ASSUME x \in RowsOver(Below[r.level]), x[r.level] \in Copies(r),
             \A s \in DOMAIN r.slots : Restrict(x, Under(r, s)) \in Alt(r, s)
      PROVE  x \in FlatRows[r]
  <2> DEFINE pick == [s \in DOMAIN r.slots |-> Restrict(x, Under(r, s))]
  <2>1. pick \in PicksOf(FlatRows, r) BY <1>4 DEF PicksOf, Alt
  <2>2. ASSUME NEW l \in Below[r.level], l # r.level PROVE pick[SlotTo(r.level, l)][l] = x[l]
    <3>1. PICK s \in DOMAIN r.slots : l \in Under(r, s) BY <2>2, UnderSplit
    <3>2. SlotTo(r.level, l) = s BY <3>1, UnderFacts
    <3> QED BY <3>1, <3>2 DEF Restrict
  <2>3. x = [l \in Below[r.level] |-> x[l]] BY <1>4 DEF RowsOver
  <2> HIDE DEF pick
  <2>4. RowOf(r, x[r.level], pick) = x BY <2>2, <2>3 DEF RowOf
  <2>5. x \in RowsBody(FlatRows, r) BY <2>1, <2>4, <1>4 DEF RowsBody
  <2> QED BY <2>5, <1>1
<1> QED BY <1>3, <1>4

(* A part of a part of a row. *)
LEMMA RestrictTwice == ASSUME NEW x, NEW L, NEW M, L \subseteq M
                       PROVE  Restrict(Restrict(x, M), L) = Restrict(x, L)
BY DEF Restrict

(* The order of the factors does not matter, *)
LEMMA TimesSwap ==
  ASSUME NEW L, NEW M, NEW X, NEW Y PROVE Times(L, X, M, Y) = Times(M, Y, L, X)
<1>1. L \cup M = M \cup L OBVIOUS
<1> QED BY <1>1 DEF Times

(* nor does the order in which they are multiplied. *)
LEMMA TimesAssociates ==
  ASSUME NEW L, NEW M, NEW K, NEW X, NEW Y, NEW Z
  PROVE  Times(L \cup M, Times(L, X, M, Y), K, Z) = Times(L, X, M \cup K, Times(M, Y, K, Z))
<1> DEFINE A == (L \cup M) \cup K
<1>1. A = L \cup (M \cup K) OBVIOUS
<1>2. ASSUME NEW z \in RowsOver(A)
      PROVE  /\ Restrict(z, L \cup M) \in RowsOver(L \cup M)
             /\ Restrict(z, M \cup K) \in RowsOver(M \cup K)
             /\ Restrict(Restrict(z, L \cup M), L) = Restrict(z, L)
             /\ Restrict(Restrict(z, L \cup M), M) = Restrict(z, M)
             /\ Restrict(Restrict(z, M \cup K), M) = Restrict(z, M)
             /\ Restrict(Restrict(z, M \cup K), K) = Restrict(z, K)
  <2>1. L \cup M \subseteq A /\ M \cup K \subseteq A OBVIOUS
  <2>2. Restrict(z, L \cup M) \in RowsOver(L \cup M) /\ Restrict(z, M \cup K) \in RowsOver(M \cup K)
    BY <2>1, RestrictRows
  <2>3. /\ L \subseteq L \cup M /\ M \subseteq L \cup M /\ M \subseteq M \cup K /\ K \subseteq M \cup K
    OBVIOUS
  <2>4. Restrict(Restrict(z, L \cup M), L) = Restrict(z, L)
        /\ Restrict(Restrict(z, L \cup M), M) = Restrict(z, M)
    BY <2>3, RestrictTwice
  <2>5. Restrict(Restrict(z, M \cup K), M) = Restrict(z, M)
        /\ Restrict(Restrict(z, M \cup K), K) = Restrict(z, K)
    BY <2>3, RestrictTwice
  <2> QED BY <2>2, <2>4, <2>5
<1> HIDE DEF A
<1>3. \A z \in RowsOver(A) :
        z \in Times(L \cup M, Times(L, X, M, Y), K, Z)
          <=> Restrict(z, L) \in X /\ Restrict(z, M) \in Y /\ Restrict(z, K) \in Z
  BY <1>2 DEF Times, A
<1>4. \A z \in RowsOver(A) :
        z \in Times(L, X, M \cup K, Times(M, Y, K, Z))
          <=> Restrict(z, L) \in X /\ Restrict(z, M) \in Y /\ Restrict(z, K) \in Z
  BY <1>1, <1>2 DEF Times
<1>5. Times(L \cup M, Times(L, X, M, Y), K, Z) \subseteq RowsOver(A) BY DEF Times, A
<1>6. Times(L, X, M \cup K, Times(M, Y, K, Z)) \subseteq RowsOver(A) BY <1>1 DEF Times
<1> QED BY <1>3, <1>4, <1>5, <1>6

(* The rows below the slots of W. *)
UnderAll(r, W) == UNION {Under(r, s) : s \in W}
Part(r, W) ==
  {y \in RowsOver(UnderAll(r, W)) : \A s \in W : Restrict(y, Under(r, s)) \in Alt(r, s)}

(* Without slots there is only the row that names nothing. *)
LEMMA PartNone == ASSUME NEW r PROVE UnderAll(r, {}) = {} /\ Part(r, {}) = {EmptyRow}
<1>1. UnderAll(r, {}) = {} BY DEF UnderAll
<1> QED BY <1>1, EmptyRowIs DEF Part

(* One slot more multiplies the rows by the slot's. *)
LEMMA PartMore ==
  ASSUME NEW r \in Records, NEW W \in SUBSET DOMAIN r.slots, NEW s \in W
  PROVE  /\ UnderAll(r, W) = Under(r, s) \cup UnderAll(r, W \ {s})
         /\ Under(r, s) \cap UnderAll(r, W \ {s}) = {}
         /\ Part(r, W) = Times(Under(r, s), Alt(r, s), UnderAll(r, W \ {s}), Part(r, W \ {s}))
<1> DEFINE M == UnderAll(r, W \ {s})
           L == Under(r, s)
<1>1. UnderAll(r, W) = L \cup M BY DEF UnderAll
<1>2. L \cap M = {}
  <2>1. \A t \in W \ {s} : L \cap Under(r, t) = {} BY UnderFacts
  <2> QED BY <2>1 DEF UnderAll
<1>3. ASSUME NEW z \in RowsOver(L \cup M)
      PROVE  (\A t \in W : Restrict(z, Under(r, t)) \in Alt(r, t))
               <=> Restrict(z, L) \in Alt(r, s) /\ Restrict(z, M) \in Part(r, W \ {s})
  <2>1. Restrict(z, M) \in RowsOver(M)
    <3>1. M \subseteq L \cup M OBVIOUS
    <3> HIDE DEF L, M
    <3> QED BY <3>1, RestrictRows
  <2>2. ASSUME NEW t \in W \ {s}
        PROVE  Restrict(Restrict(z, M), Under(r, t)) = Restrict(z, Under(r, t))
    <3>1. Under(r, t) \subseteq M BY DEF UnderAll
    <3> HIDE DEF M
    <3> QED BY <3>1, RestrictTwice
  <2>3. Restrict(z, M) \in Part(r, W \ {s})
          <=> \A t \in W \ {s} : Restrict(z, Under(r, t)) \in Alt(r, t)
    BY <2>1, <2>2 DEF Part
  <2> QED BY <2>3
<1>4. Part(r, W) = {z \in RowsOver(L \cup M) : \A t \in W : Restrict(z, Under(r, t)) \in Alt(r, t)}
  BY <1>1 DEF Part
<1>5. Part(r, W) = Times(L, Alt(r, s), M, Part(r, W \ {s}))
  <2> HIDE DEF L, M
  <2> QED BY <1>3, <1>4 DEF Times
<1> QED BY <1>1, <1>2, <1>5

(* The rows below some slots are rows over the levels there. *)
LEMMA PartRows ==
  ASSUME NEW r \in Records, NEW W \in SUBSET DOMAIN r.slots
  PROVE  /\ Part(r, W) \in SUBSET RowsOver(UnderAll(r, W))
         /\ UnderAll(r, W) \in SUBSET Levels /\ r.level \notin UnderAll(r, W)
<1>1. \A s \in W : Under(r, s) \in SUBSET Levels /\ r.level \notin Under(r, s) BY UnderFacts
<1> QED BY <1>1 DEF Part, UnderAll

(* The record alone. *)
OwnRows(r) == {x \in RowsOver({r.level}) : x[r.level] \in Copies(r)}

(* The rows of a record: its copies times the rows below all its slots. *)
LEMMA RowsSplit ==
  ASSUME NEW r \in Records
  PROVE  /\ Below[r.level] = {r.level} \cup UnderAll(r, DOMAIN r.slots)
         /\ FlatRows[r] = Times({r.level}, OwnRows(r),
                                UnderAll(r, DOMAIN r.slots), Part(r, DOMAIN r.slots))
<1> DEFINE l == r.level
           W == DOMAIN r.slots
           M == UnderAll(r, W)
<1>1. Below[l] = {l} \cup M
  <2>1. l \in Levels /\ W = DOMAIN Slots[l] BY RecordFacts
  <2>2. Below[l] = {l} \cup UNION {Below[Slots[l][s]] : s \in DOMAIN Slots[l]} BY <2>1, BelowDef
  <2> QED BY <2>1, <2>2 DEF UnderAll, Under
<1>2. ASSUME NEW z \in RowsOver(Below[l])
      PROVE  /\ z[l] \in Copies(r) <=> Restrict(z, {l}) \in OwnRows(r)
             /\ (\A s \in W : Restrict(z, Under(r, s)) \in Alt(r, s)) <=> Restrict(z, M) \in Part(r, W)
  <2>1. Restrict(z, {l}) \in RowsOver({l}) /\ Restrict(z, M) \in RowsOver(M)
    <3>1. {l} \subseteq Below[l] /\ M \subseteq Below[l] BY <1>1
    <3> HIDE DEF l, M
    <3> QED BY <3>1, RestrictRows
  <2>2. Restrict(z, {l})[l] = z[l] BY DEF Restrict
  <2>3. z[l] \in Copies(r) <=> Restrict(z, {l}) \in OwnRows(r) BY <2>1, <2>2 DEF OwnRows
  <2>4. ASSUME NEW s \in W PROVE Restrict(Restrict(z, M), Under(r, s)) = Restrict(z, Under(r, s))
    <3>1. Under(r, s) \subseteq M BY DEF UnderAll
    <3> HIDE DEF M
    <3> QED BY <3>1, RestrictTwice
  <2>5. (\A s \in W : Restrict(z, Under(r, s)) \in Alt(r, s)) <=> Restrict(z, M) \in Part(r, W)
    BY <2>1, <2>4 DEF Part
  <2> QED BY <2>3, <2>5
<1>3. \A z : z \in FlatRows[r] <=>
               /\ z \in RowsOver(Below[l]) /\ z[l] \in Copies(r)
               /\ \A s \in W : Restrict(z, Under(r, s)) \in Alt(r, s)
  BY FlatRowsAre
<1>4. \A z : z \in Times({l}, OwnRows(r), M, Part(r, W)) <=>
               z \in RowsOver(Below[l]) /\ Restrict(z, {l}) \in OwnRows(r) /\ Restrict(z, M) \in Part(r, W)
  BY <1>1 DEF Times
<1>5. FlatRows[r] = Times({l}, OwnRows(r), M, Part(r, W))
  <2> HIDE DEF l, M, W
  <2> QED BY <1>2, <1>3, <1>4
<1> QED BY <1>1, <1>5

(* A record by itself has as many rows as its weight says. *)
LEMMA OwnRowsAre ==
  ASSUME NEW r \in Records
  PROVE  /\ OwnRows(r) \in SUBSET RowsOver({r.level}) /\ IsFiniteSet(OwnRows(r))
         /\ Cardinality(OwnRows(r)) = r.weight
         /\ \A x \in OwnRows(r) : x[r.level].record = r
<1> DEFINE l == r.level
           W == OwnRows(r)
           h == [c \in 1 .. r.weight |-> [m \in {l} |-> [record |-> r, copy |-> c]]]
<1>1. \A c \in 1 .. r.weight : h[c] \in W
  <2> SUFFICES ASSUME NEW c \in 1 .. r.weight PROVE [m \in {l} |-> [record |-> r, copy |-> c]] \in W
    OBVIOUS
  <2>1. [record |-> r, copy |-> c] \in Copies(r) BY DEF Copies
  <2>2. [record |-> r, copy |-> c] \in Cells /\ [record |-> r, copy |-> c].record = r
    BY <2>1, CopiesAre
  <2> QED BY <2>1, <2>2 DEF OwnRows, RowsOver
<1>2. \A c, d \in 1 .. r.weight : h[c] = h[d] => c = d
  <2> SUFFICES ASSUME NEW c \in 1 .. r.weight, NEW d \in 1 .. r.weight, h[c] = h[d] PROVE c = d
    OBVIOUS
  <2>1. h[c][l] = [record |-> r, copy |-> c] /\ h[d][l] = [record |-> r, copy |-> d] OBVIOUS
  <2>2. [record |-> r, copy |-> c].copy = [record |-> r, copy |-> d].copy BY <2>1
  <2> QED BY <2>2
<1>3. \A x \in W : \E c \in 1 .. r.weight : h[c] = x
  <2> SUFFICES ASSUME NEW x \in W PROVE \E c \in 1 .. r.weight : h[c] = x OBVIOUS
  <2>1. x \in [{l} -> Cells] /\ x[l] \in Copies(r) BY DEF OwnRows, RowsOver
  <2>2. PICK c \in 1 .. r.weight : x[l] = [record |-> r, copy |-> c] BY <2>1 DEF Copies
  <2>3. x = [m \in {l} |-> x[m]] BY <2>1
  <2>4. x = [m \in {l} |-> [record |-> r, copy |-> c]] BY <2>2, <2>3
  <2> QED BY <2>4
<1>4. h \in [1 .. r.weight -> W] BY <1>1
<1> HIDE DEF h, W
<1>5. h \in Bijection(1 .. r.weight, W)
  BY <1>2, <1>3, <1>4 DEF Bijection, Injection, Surjection, IsInjective
<1>6. r.weight \in Nat BY RecordFacts
<1>7. IsFiniteSet(1 .. r.weight) /\ Cardinality(1 .. r.weight) = r.weight
  <2>1. 1 \in Int /\ r.weight \in Int BY <1>6
  <2>2. IsFiniteSet(1 .. r.weight)
        /\ Cardinality(1 .. r.weight) = IF 1 > r.weight THEN 0 ELSE r.weight - 1 + 1
    BY <2>1, FS_Interval
  <2> QED BY <2>2, <1>6
<1>8. IsFiniteSet(W) /\ Cardinality(W) = r.weight
  <2>1. ExistsBijection(1 .. r.weight, W) BY <1>5 DEF ExistsBijection
  <2> QED BY <2>1, <1>7, FS_Bijection
<1>9. W \in SUBSET RowsOver({r.level}) BY DEF W, OwnRows
<1>10. \A x \in W : x[r.level].record = r BY CopiesAre DEF W, OwnRows
<1> QED BY <1>8, <1>9, <1>10 DEF W

-----------------------------------------------------------------------------
(* Two children of a slot have no row in common. *)
LEMMA FlatRowsApart ==
  ASSUME NEW r \in Records, NEW s \in DOMAIN r.slots, NEW c \in r.slots[s], NEW d \in r.slots[s], c # d
  PROVE  FlatRows[c] \cap FlatRows[d] = {}
<1> SUFFICES ASSUME NEW x \in FlatRows[c], x \in FlatRows[d] PROVE FALSE OBVIOUS
<1>1. c \in Records /\ d \in Records /\ c.level = d.level BY ChildFacts
<1>2. x[c.level] \in Copies(c) /\ x[d.level] \in Copies(d) BY <1>1, FlatRowsAre
<1>3. x[c.level].record = c /\ x[d.level].record = d BY <1>1, <1>2, CopiesAre
<1> QED BY <1>1, <1>3

(* The rows of a slot are finitely many, *)
LEMMA AltFinite ==
  ASSUME NEW r \in Records, NEW s \in DOMAIN r.slots,
         \A child \in r.slots[s] : IsFiniteSet(FlatRows[child])
  PROVE  IsFiniteSet(Alt(r, s))
<1>1. IsFiniteSet(r.slots[s]) BY RecordFacts
<1>2. IsFiniteSet(UNION {FlatRows[child] : child \in r.slots[s]}) BY <1>1, FiniteFamily
<1> QED BY <1>2 DEF Alt, AltOf

(* as many as its children's subtree sizes add up to. *)
LEMMA AltCount ==
  ASSUME NEW r \in Records, NEW s \in DOMAIN r.slots,
         \A child \in r.slots[s] : /\ IsFiniteSet(FlatRows[child])
                                   /\ SubtreeSize[child] = Cardinality(FlatRows[child])
  PROVE  Cardinality(Alt(r, s)) = SumFunction([child \in r.slots[s] |-> SubtreeSize[child]])
<1> DEFINE I == r.slots[s]
           P == [child \in I |-> FlatRows[child]]
           S == Alt(r, s)
<1>1. IsFiniteSet(I) BY RecordFacts
<1>2. IsFiniteSet(S) BY AltFinite
<1>3. S = UNION {P[c] : c \in I} /\ P \in [I -> SUBSET S] BY DEF Alt, AltOf
<1>4. \A c, d \in I : c # d => P[c] \cap P[d] = {} BY FlatRowsApart
<1>5. [c \in I |-> Cardinality(P[c])] = [child \in I |-> SubtreeSize[child]] OBVIOUS
<1> HIDE DEF S, P, I
<1>6. Cardinality(S) = SumFunction([c \in I |-> Cardinality(P[c])])
  BY <1>1, <1>2, <1>3, <1>4, CardinalityFamily
<1> QED BY <1>5, <1>6 DEF S, I

(* One slot more multiplies the number of rows. *)
LEMMA PartSize ==
  ASSUME NEW r \in Records, NEW W \in SUBSET DOMAIN r.slots, NEW s \in W,
         IsFiniteSet(Alt(r, s)), IsFiniteSet(Part(r, W \ {s}))
  PROVE  /\ IsFiniteSet(Part(r, W))
         /\ Cardinality(Part(r, W)) = Prod(Cardinality(Alt(r, s)), Cardinality(Part(r, W \ {s})))
<1> DEFINE L == Under(r, s)
           M == UnderAll(r, W \ {s})
           X == Alt(r, s)
           Y == Part(r, W \ {s})
<1>1. L \cap M = {} /\ Part(r, W) = Times(L, X, M, Y) BY PartMore
<1>2. X \in SUBSET RowsOver(L) BY AltRows
<1>3. Y \in SUBSET RowsOver(M)
  <2>1. W \ {s} \in SUBSET DOMAIN r.slots OBVIOUS
  <2> QED BY <2>1, PartRows
<1>4. IsFiniteSet(X) /\ IsFiniteSet(Y) OBVIOUS
<1> HIDE DEF X, Y, L, M
<1>5. IsFiniteSet(Times(L, X, M, Y)) BY <1>1, <1>2, <1>3, <1>4, TimesFinite
<1>6. Cardinality(Times(L, X, M, Y)) = Prod(Cardinality(X), Cardinality(Y))
  BY <1>1, <1>2, <1>3, <1>4, TimesCount
<1> QED BY <1>1, <1>5, <1>6 DEF X, Y

(* The rows of the first slots, one slot after the other. *)
LEMMA PartCount ==
  ASSUME NEW r \in Records, \A s \in DOMAIN r.slots : IsFiniteSet(Alt(r, s)),
         NEW p \in [0 .. Len(r.slots) -> Int], p[0] = 1,
         \A n \in 1 .. Len(r.slots) : p[n] = p[n - 1] * Cardinality(Alt(r, n))
  PROVE  /\ IsFiniteSet(Part(r, DOMAIN r.slots))
         /\ Cardinality(Part(r, DOMAIN r.slots)) = p[Len(r.slots)]
<1> DEFINE k == Len(r.slots)
           Good(n) == IsFiniteSet(Part(r, 1 .. n)) /\ Cardinality(Part(r, 1 .. n)) = p[n]
           S == {n \in Nat : n <= k => Good(n)}
<1>1. k \in Nat /\ DOMAIN r.slots = 1 .. k BY RecordFacts
<1>2. 0 \in S
  <2>1. 1 .. 0 = {} OBVIOUS
  <2>2. Part(r, 1 .. 0) = {EmptyRow} BY <2>1, PartNone
  <2> QED BY <2>2, FS_Singleton
<1>3. ASSUME NEW n \in S PROVE n + 1 \in S
  <2> SUFFICES ASSUME n + 1 <= k PROVE Good(n + 1) OBVIOUS
  <2> DEFINE W == 1 .. (n + 1)
             s == n + 1
             x == Cardinality(Alt(r, s))
  <2>1. n \in Nat /\ n <= k /\ Good(n) BY <1>1
  <2>2. W \ {s} = 1 .. n /\ W \in SUBSET (1 .. k) /\ s \in W /\ s - 1 = n BY <1>1, <2>1
  <2>3. W \in SUBSET DOMAIN r.slots /\ s \in W /\ IsFiniteSet(Alt(r, s)) /\ IsFiniteSet(Part(r, W \ {s}))
    <3>1. s \in DOMAIN r.slots BY <2>2, <1>1
    <3> QED BY <3>1, <2>1, <2>2, <1>1
  <2>4. x \in Int BY <2>3, FS_CardinalityType
  <2>5. p[s] = p[n] * x BY <2>2, <1>1
  <2>6. p[n] \in Int
    <3>1. n \in 0 .. k BY <2>1, <1>1
    <3> QED BY <3>1
  <2> HIDE DEF W, s
  <2>7. /\ IsFiniteSet(Part(r, W))
        /\ Cardinality(Part(r, W)) = Prod(Cardinality(Alt(r, s)), Cardinality(Part(r, W \ {s})))
    BY <2>3, PartSize
  <2>8. Cardinality(Part(r, W \ {s})) = p[n] BY <2>1, <2>2
  <2>9. Cardinality(Part(r, W)) = x * p[n] BY <2>7, <2>8 DEF Prod
  <2>10. x * p[n] = p[n] * x BY <2>4, <2>6
  <2> QED BY <2>5, <2>7, <2>9, <2>10 DEF W, s
<1>4. S \in SUBSET Nat OBVIOUS
<1> HIDE DEF S
<1>5. S = Nat BY <1>2, <1>3, <1>4, Climb
<1>6. Good(k) BY <1>1, <1>5 DEF S
<1> QED BY <1>1, <1>6

(* SubtreeSize is the number of rows below a record. *)
LEMMA SizeIs ==
  \A r \in Records : IsFiniteSet(FlatRows[r]) /\ SubtreeSize[r] = Cardinality(FlatRows[r])
<1> DEFINE S == {r \in Records : IsFiniteSet(FlatRows[r]) /\ SubtreeSize[r] = Cardinality(FlatRows[r])}
<1>1. ASSUME NEW r \in Records, \A s \in DOMAIN r.slots : \A child \in r.slots[s] : child \in S
      PROVE  r \in S
  <2> DEFINE k == Len(r.slots)
             factors == [s \in DOMAIN r.slots |-> SumFunction([child \in r.slots[s] |-> SubtreeSize[child]])]
             L == {r.level}
             M == UnderAll(r, DOMAIN r.slots)
             X == OwnRows(r)
             Y == Part(r, DOMAIN r.slots)
  <2>1. k \in Nat /\ DOMAIN r.slots = 1 .. k BY RecordFacts
  <2>2. ASSUME NEW s \in DOMAIN r.slots
        PROVE  IsFiniteSet(Alt(r, s)) /\ factors[s] = Cardinality(Alt(r, s)) /\ factors[s] \in Int
    <3>1. \A child \in r.slots[s] : /\ IsFiniteSet(FlatRows[child])
                                    /\ SubtreeSize[child] = Cardinality(FlatRows[child])
      BY <1>1
    <3>2. IsFiniteSet(Alt(r, s)) BY <3>1, AltFinite
    <3>3. factors[s] = Cardinality(Alt(r, s)) BY <3>1, AltCount
    <3>4. Cardinality(Alt(r, s)) \in Nat BY <3>2, FS_CardinalityType
    <3> QED BY <3>2, <3>3, <3>4
  <2>3. factors \in [1 .. k -> Int] BY <2>1, <2>2
  <2>4. SubtreeSize[r] = r.weight * Product(factors) BY SizeDef
  <2>5. \A s \in DOMAIN r.slots : IsFiniteSet(Alt(r, s)) /\ factors[s] = Cardinality(Alt(r, s)) BY <2>2
  <2> HIDE DEF factors
  <2>6. PICK p \in [0 .. k -> Int] :
          Product(factors) = p[k] /\ p[0] = 1 /\ \A n \in 1 .. k : p[n] = p[n - 1] * factors[n]
    <3> HIDE DEF k
    <3> QED BY <2>1, <2>3, ProductIs
  <2>7. \A n \in 1 .. k : p[n] = p[n - 1] * Cardinality(Alt(r, n)) BY <2>1, <2>5, <2>6
  <2>8. IsFiniteSet(Y) /\ Cardinality(Y) = p[k] BY <2>5, <2>6, <2>7, PartCount
  <2>9. /\ X \in SUBSET RowsOver(L) /\ IsFiniteSet(X) /\ Cardinality(X) = r.weight
        /\ Y \in SUBSET RowsOver(M) /\ L \cap M = {}
    BY OwnRowsAre, PartRows
  <2>10. FlatRows[r] = Times(L, X, M, Y) BY RowsSplit
  <2> HIDE DEF k, L, M, X, Y
  <2>11. IsFiniteSet(Times(L, X, M, Y)) BY <2>8, <2>9, TimesFinite
  <2>12. Cardinality(Times(L, X, M, Y)) = Prod(Cardinality(X), Cardinality(Y))
    BY <2>8, <2>9, TimesCount
  <2>13. SubtreeSize[r] = Cardinality(FlatRows[r])
    BY <2>4, <2>6, <2>8, <2>9, <2>10, <2>12 DEF Prod
  <2> QED BY <2>10, <2>11, <2>13
<1>2. S \in SUBSET Records OBVIOUS
<1> HIDE DEF S
<1>3. S = Records BY <1>1, <1>2, UpTheRecords
<1> QED BY <1>3 DEF S

(* SlotSize is the number of rows of a slot. *)
LEMMA AltIs ==
  ASSUME NEW r \in Records, NEW s \in DOMAIN r.slots
  PROVE  /\ Alt(r, s) \in SUBSET RowsOver(Under(r, s)) /\ IsFiniteSet(Alt(r, s))
         /\ SlotSize(r.slots[s]) = Cardinality(Alt(r, s))
<1>1. \A child \in r.slots[s] : /\ IsFiniteSet(FlatRows[child])
                                /\ SubtreeSize[child] = Cardinality(FlatRows[child])
  BY ChildFacts, SizeIs
<1>2. IsFiniteSet(Alt(r, s)) BY <1>1, AltFinite
<1>3. Cardinality(Alt(r, s)) = SumFunction([child \in r.slots[s] |-> SubtreeSize[child]])
  BY <1>1, AltCount
<1>4. SlotSize(r.slots[s]) = Cardinality(Alt(r, s)) BY <1>3 DEF SlotSize
<1> QED BY <1>2, <1>4, AltRows

(* The rows below some slots are finitely many. *)
LEMMA PartFinite ==
  ASSUME NEW r \in Records, NEW V \in SUBSET DOMAIN r.slots PROVE IsFiniteSet(Part(r, V))
<1> DEFINE Good(n) == IsFiniteSet(Part(r, V \cap (1 .. n)))
           S == {n \in Nat : n <= Len(r.slots) => Good(n)}
<1>1. Len(r.slots) \in Nat /\ DOMAIN r.slots = 1 .. Len(r.slots) BY RecordFacts
<1>2. 0 \in S
  <2>1. V \cap (1 .. 0) = {} OBVIOUS
  <2>2. Part(r, V \cap (1 .. 0)) = {EmptyRow} BY <2>1, PartNone
  <2> QED BY <2>2, FS_Singleton
<1>3. ASSUME NEW n \in S PROVE n + 1 \in S
  <2> SUFFICES ASSUME n + 1 <= Len(r.slots) PROVE Good(n + 1) OBVIOUS
  <2> DEFINE W == V \cap (1 .. (n + 1))
             s == n + 1
  <2>1. n \in Nat /\ n <= Len(r.slots) /\ Good(n) BY <1>1
  <2>2. CASE s \notin V
    <3>1. W = V \cap (1 .. n) BY <2>1, <2>2
    <3> QED BY <2>1, <3>1
  <2>3. CASE s \in V
    <3>1. W \ {s} = V \cap (1 .. n) /\ W \in SUBSET DOMAIN r.slots /\ s \in W /\ s \in DOMAIN r.slots
      BY <2>1, <2>3, <1>1
    <3>2. IsFiniteSet(Alt(r, s)) BY <3>1, AltIs
    <3>3. IsFiniteSet(Part(r, W \ {s})) BY <2>1, <3>1
    <3> HIDE DEF W, s
    <3>4. IsFiniteSet(Part(r, W)) BY <3>1, <3>2, <3>3, PartSize
    <3> QED BY <3>4 DEF W, s
  <2> QED BY <2>2, <2>3
<1>4. S \in SUBSET Nat OBVIOUS
<1> HIDE DEF S
<1>5. S = Nat BY <1>2, <1>3, <1>4, Climb
<1>6. Good(Len(r.slots))
  <2>1. Len(r.slots) \in S /\ Len(r.slots) <= Len(r.slots) BY <1>1, <1>5
  <2> QED BY <2>1 DEF S
<1>7. V \cap (1 .. Len(r.slots)) = V BY <1>1
<1> QED BY <1>6, <1>7

(* The levels of a record outside one of its slots, and the rows there. *)
Rest(r, s)     == {r.level} \cup UnderAll(r, DOMAIN r.slots \ {s})
RestRows(r, s) == Times({r.level}, OwnRows(r),
                        UnderAll(r, DOMAIN r.slots \ {s}), Part(r, DOMAIN r.slots \ {s}))

(* The rows of a record: those of one slot times those of the rest. *)
LEMMA SlotSplit ==
  ASSUME NEW r \in Records, NEW s \in DOMAIN r.slots
  PROVE  /\ Under(r, s) \cap Rest(r, s) = {}
         /\ RestRows(r, s) \in SUBSET RowsOver(Rest(r, s)) /\ IsFiniteSet(RestRows(r, s))
         /\ FlatRows[r] = Times(Under(r, s), Alt(r, s), Rest(r, s), RestRows(r, s))
<1> DEFINE W == DOMAIN r.slots
           L == {r.level}
           X == OwnRows(r)
           U == Under(r, s)
           A == Alt(r, s)
           K == UnderAll(r, W \ {s})
           Z == Part(r, W \ {s})
<1>1. W \in SUBSET DOMAIN r.slots /\ W \ {s} \in SUBSET DOMAIN r.slots /\ s \in W OBVIOUS
<1>2. UnderAll(r, W) = U \cup K /\ U \cap K = {} /\ Part(r, W) = Times(U, A, K, Z)
  <2> HIDE DEF W
  <2>1. \A V \in SUBSET DOMAIN r.slots : s \in V => /\ UnderAll(r, V) = Under(r, s) \cup UnderAll(r, V \ {s})
                   /\ Under(r, s) \cap UnderAll(r, V \ {s}) = {}
                   /\ Part(r, V) = Times(Under(r, s), Alt(r, s), UnderAll(r, V \ {s}), Part(r, V \ {s}))
    <3> SUFFICES ASSUME NEW V \in SUBSET DOMAIN r.slots, s \in V
                 PROVE  /\ UnderAll(r, V) = Under(r, s) \cup UnderAll(r, V \ {s})
                        /\ Under(r, s) \cap UnderAll(r, V \ {s}) = {}
                        /\ Part(r, V) = Times(Under(r, s), Alt(r, s), UnderAll(r, V \ {s}), Part(r, V \ {s}))
      OBVIOUS
    <3>1. UnderAll(r, V) = Under(r, s) \cup UnderAll(r, V \ {s}) BY DEF UnderAll
    <3>2. Under(r, s) \cap UnderAll(r, V \ {s}) = {} BY PartMore
    <3>3. Part(r, V) = Times(Under(r, s), Alt(r, s), UnderAll(r, V \ {s}), Part(r, V \ {s}))
      BY PartMore
    <3> QED BY <3>1, <3>2, <3>3
  <2> QED BY <1>1, <2>1
<1>3. X \in SUBSET RowsOver(L) /\ IsFiniteSet(X) BY OwnRowsAre
<1>4. Z \in SUBSET RowsOver(K) /\ r.level \notin K /\ IsFiniteSet(Z)
  <2> HIDE DEF W
  <2>1. IsFiniteSet(Part(r, W \ {s})) BY <1>1, PartFinite
  <2> QED BY <1>1, <2>1, PartRows
<1>5. r.level \notin U BY UnderFacts
<1>6. FlatRows[r] = Times(L, X, UnderAll(r, W), Part(r, W)) BY RowsSplit
<1>7. L \cap K = {} BY <1>4
<1>8. U \cap (L \cup K) = {} BY <1>2, <1>5
<1>9. RestRows(r, s) = Times(L, X, K, Z) /\ Rest(r, s) = L \cup K BY DEF RestRows, Rest
<1> HIDE DEF W, L, X, U, A, K, Z
<1>10. Times(L, X, K, Z) \in SUBSET RowsOver(L \cup K) /\ IsFiniteSet(Times(L, X, K, Z))
  BY <1>3, <1>4, <1>7, TimesFinite
<1>11. FlatRows[r] = Times(L, X, K \cup U, Times(K, Z, U, A))
  <2>1. UnderAll(r, W) = K \cup U BY <1>2
  <2>2. Part(r, W) = Times(K, Z, U, A) BY <1>2, TimesSwap
  <2> QED BY <1>6, <2>1, <2>2
<1>12. FlatRows[r] = Times(L \cup K, Times(L, X, K, Z), U, A) BY <1>11, TimesAssociates
<1>13. FlatRows[r] = Times(U, A, L \cup K, Times(L, X, K, Z)) BY <1>12, TimesSwap
<1> QED BY <1>8, <1>9, <1>10, <1>13 DEF U, A

(* An aggregate whose attribute is elsewhere. *)
LEMMA Absent ==
  ASSUME NEW L, NEW X \in SUBSET RowsOver(L), IsFiniteSet(X), NEW i \in AggregateIds,
         LevelOf(Aggregates[i].attribute) \notin L
  PROVE  Sum(i, X) = 0 /\ Extreme(i, X) = ExtremeIdentity(i)
<1>1. \A x \in X : Val(i, x) = 0 /\ Edge(i, x) = ExtremeIdentity(i)
  <2>1. \A x \in X : DOMAIN x = L BY DEF RowsOver
  <2> QED BY <2>1 DEF Val, Edge, At
<1>2. [x \in X |-> Val(i, x)] = [x \in X |-> 0] BY <1>1
<1>3. SumFunction([x \in X |-> 0]) = 0 BY SumZeros
<1>4. \A v \in {Edge(i, x) : x \in X} : v = ExtremeIdentity(i) BY <1>1
<1> DEFINE T == {Edge(i, x) : x \in X}
<1> HIDE DEF T
<1>5. \A v \in T : v = ExtremeIdentity(i) BY <1>4 DEF T
<1>6. Ext(i, T) = ExtremeIdentity(i) BY <1>5, ExtNothing
<1> QED BY <1>2, <1>3, <1>6 DEF Sum, Extreme, T

(* A slot that has no rows leaves a record without any. *)
LEMMA EmptySlot ==
  ASSUME NEW r \in Records, NEW s \in DOMAIN r.slots, SubtreeSize[r] # 0
  PROVE  SlotSize(r.slots[s]) \in Nat /\ SlotSize(r.slots[s]) > 0
<1>1. IsFiniteSet(FlatRows[r]) /\ Cardinality(FlatRows[r]) # 0 BY SizeIs
<1>2. FlatRows[r] # {} BY <1>1, FS_EmptySet
<1>3. PICK x \in FlatRows[r] : TRUE BY <1>2
<1>4. Alt(r, s) # {} BY <1>3, FlatRowsAre
<1>5. IsFiniteSet(Alt(r, s)) /\ SlotSize(r.slots[s]) = Cardinality(Alt(r, s)) BY AltIs
<1>6. Cardinality(Alt(r, s)) \in Nat BY <1>5, FS_CardinalityType
<1>7. Cardinality(Alt(r, s)) # 0 BY <1>4, <1>5, FS_EmptySet
<1> QED BY <1>5, <1>6, <1>7

-----------------------------------------------------------------------------
(* SubtreeSum and SubtreeExtreme, in terms of those of the children. *)
SumBody(f, r) ==
  [i \in AggregateIds |->
     IF SubtreeSize[r] = 0 THEN 0
     ELSE IF Holds(r, Aggregates[i].attribute) THEN r.value[Aggregates[i].attribute] * SubtreeSize[r]
     ELSE SumFunction([s \in DOMAIN r.slots |->
            SumFunction([child \in r.slots[s] |-> f[child][i]])
            * Others(SubtreeSize[r], SlotSize(r.slots[s]))])]

(* The sums computed from integers are integers. *)
LEMMA SumBodyType ==
  ASSUME NEW r \in Records, NEW f \in [Records -> [AggregateIds -> Int]]
  PROVE  SumBody(f, r) \in [AggregateIds -> Int]
<1> SUFFICES ASSUME NEW i \in AggregateIds PROVE SumBody(f, r)[i] \in Int BY DEF SumBody
<1>1. SubtreeSize[r] \in Int BY SizeDef
<1>2. \A a, b \in Int : a * b \in Int OBVIOUS
<1>3. CASE SubtreeSize[r] = 0 BY <1>3 DEF SumBody
<1>4. CASE SubtreeSize[r] # 0 /\ Holds(r, Aggregates[i].attribute)
  <2>1. r.value[Aggregates[i].attribute] \in Int 
    <3>1. r.value[Aggregates[i].attribute] \in Values BY <1>4, RecordFacts DEF Holds
    <3> QED BY <3>1, ValuesFacts
  <2>2. r.value[Aggregates[i].attribute] * SubtreeSize[r] \in Int BY <2>1, <1>1, <1>2
  <2> QED BY <2>2, <1>4 DEF SumBody
<1>5. CASE SubtreeSize[r] # 0 /\ ~Holds(r, Aggregates[i].attribute)
  <2> DEFINE inner(s) == SumFunction([child \in r.slots[s] |-> f[child][i]])
             g == [s \in DOMAIN r.slots |-> inner(s) * Others(SubtreeSize[r], SlotSize(r.slots[s]))]
  <2>1. ASSUME NEW s \in DOMAIN r.slots PROVE inner(s) \in Int
    <3> DEFINE T == r.slots[s]
               h == [child \in T |-> f[child][i]]
    <3>1. IsFiniteSet(T) /\ T \in SUBSET Records BY RecordFacts
    <3> HIDE DEF T
    <3>2. h \in [T -> Int] BY <3>1
    <3> HIDE DEF h
    <3>3. SumFunction(h) \in Int BY <3>1, <3>2, SumType
    <3> QED BY <3>3 DEF h, T
  <2>2. ASSUME NEW s \in DOMAIN r.slots PROVE Others(SubtreeSize[r], SlotSize(r.slots[s])) \in Int
    <3>1. SlotSize(r.slots[s]) \in Nat /\ SlotSize(r.slots[s]) > 0 BY <1>5, EmptySlot
    <3> DEFINE a == SubtreeSize[r]
               b == SlotSize(r.slots[s])
    <3>2. a \in Int /\ b \in Nat /\ b > 0 BY <1>1, <3>1
    <3> HIDE DEF a, b
    <3>3. a \div b \in Int BY <3>2
    <3> QED BY <3>3 DEF Others, a, b
  <2> HIDE DEF inner
  <2>3. g \in [DOMAIN r.slots -> Int] BY <2>1, <2>2, <1>2
  <2>4. IsFiniteSet(DOMAIN r.slots)
    <3>1. DOMAIN r.slots = 1 .. Len(r.slots) /\ Len(r.slots) \in Int BY RecordFacts
    <3>2. IsFiniteSet(1 .. Len(r.slots)) BY <3>1, FS_Interval
    <3> QED BY <3>1, <3>2
  <2> HIDE DEF g
  <2>5. SumFunction(g) \in Int BY <2>3, <2>4, SumType
  <2>6. SumBody(f, r)[i] = SumFunction(g) BY <1>5 DEF SumBody, g, inner
  <2> QED BY <2>5, <2>6
<1> QED BY <1>3, <1>4, <1>5

(* They depend on the children's sums only. *)
LEMMA SumBodySame ==
  ASSUME NEW r \in Records, NEW f, NEW g,
         \A s \in DOMAIN r.slots : \A child \in r.slots[s] : f[child] = g[child]
  PROVE  SumBody(f, r) = SumBody(g, r)
<1> SUFFICES ASSUME NEW i \in AggregateIds PROVE SumBody(f, r)[i] = SumBody(g, r)[i] BY DEF SumBody
<1>1. \A s \in DOMAIN r.slots :
        [child \in r.slots[s] |-> f[child][i]] = [child \in r.slots[s] |-> g[child][i]]
  OBVIOUS
<1>2. [s \in DOMAIN r.slots |-> SumFunction([child \in r.slots[s] |-> f[child][i]])
         * Others(SubtreeSize[r], SlotSize(r.slots[s]))]
      = [s \in DOMAIN r.slots |-> SumFunction([child \in r.slots[s] |-> g[child][i]])
         * Others(SubtreeSize[r], SlotSize(r.slots[s]))]
  BY <1>1
<1> QED BY <1>2 DEF SumBody

(* G computes the value of a record from those of its children. *)
FromChildren(V, G) ==
  /\ G \in [Records -> [[Records -> V] -> V]]
  /\ \A r \in Records : \A f, g \in [Records -> V] :
       (\A s \in DOMAIN r.slots : \A child \in r.slots[s] : f[child] = g[child]) => G[r][f] = G[r][g]

(* A function that is what it computes from itself on the children. *)
LEMMA FixedPoint ==
  ASSUME NEW V, NEW v \in V, NEW G, FromChildren(V, G)
  PROVE  \E f \in [Records -> V] : \A r \in Records : f[r] = G[r][f]
<1>1. \A r \in Records : \A f, g \in [Records -> V] :
        (\A q \in Records : RankOf[q] < RankOf[r] => f[q] = g[q]) => G[r][f] = G[r][g]
  <2> SUFFICES ASSUME NEW r \in Records, NEW f \in [Records -> V], NEW g \in [Records -> V],
                      \A q \in Records : RankOf[q] < RankOf[r] => f[q] = g[q]
               PROVE  G[r][f] = G[r][g]
    OBVIOUS
  <2>1. \A s \in DOMAIN r.slots : \A child \in r.slots[s] : f[child] = g[child] BY RankOfIs
  <2> QED BY <2>1 DEF FromChildren
<1>2. Guarded(Records, V, N, RankOf, G)
  <2>1. G \in [Records -> [[Records -> V] -> V]] BY DEF FromChildren
  <2> QED BY <1>1, <2>1, RankOfIs DEF Guarded
<1> QED BY <1>2, Recursion

(* SubtreeSum satisfies its recursive definition. *)
LEMMA SumDef ==
  /\ SubtreeSum \in [Records -> [AggregateIds -> Int]]
  /\ \A r \in Records : SubtreeSum[r] = SumBody(SubtreeSum, r)
<1> DEFINE V == [AggregateIds -> Int]
           G == [r \in Records |-> [f \in [Records -> V] |-> SumBody(f, r)]]
           Iter(f) == [record \in Records |-> SumBody(f, record)]
<1>1. G \in [Records -> [[Records -> V] -> V]] BY SumBodyType
<1>2. \A r \in Records : \A f, g \in [Records -> V] :
        (\A s \in DOMAIN r.slots : \A child \in r.slots[s] : f[child] = g[child]) => G[r][f] = G[r][g]
  BY SumBodySame
<1>3. PICK f \in [Records -> V] : \A r \in Records : f[r] = G[r][f]
  <2>1. PICK v \in V : TRUE
    <3>1. [i \in AggregateIds |-> 0] \in V OBVIOUS
    <3> QED BY <3>1
  <2> HIDE DEF G, V
  <2>2. FromChildren(V, G) BY <1>1, <1>2 DEF FromChildren
  <2> QED BY <2>1, <2>2, FixedPoint
<1>4. f = Iter(f) BY <1>3
<1>5. SubtreeSum = CHOOSE g : g = Iter(g) BY DEF SubtreeSum, SumBody
<1>6. SubtreeSum = Iter(SubtreeSum)
  <2> HIDE DEF Iter
  <2> QED BY <1>4, <1>5
<1>7. \A r \in Records : SubtreeSum[r] = SumBody(SubtreeSum, r) BY <1>6
<1>8. SubtreeSum = f
  <2> DEFINE S == {r \in Records : SubtreeSum[r] = f[r]}
  <2>1. ASSUME NEW r \in Records, \A s \in DOMAIN r.slots : \A child \in r.slots[s] : child \in S
        PROVE  r \in S
    <3>1. \A s \in DOMAIN r.slots : \A child \in r.slots[s] : f[child] = SubtreeSum[child] BY <2>1
    <3>2. SumBody(f, r) = SumBody(SubtreeSum, r) BY <3>1, SumBodySame
    <3> QED BY <1>3, <1>7, <3>2
  <2>2. S \in SUBSET Records OBVIOUS
  <2> HIDE DEF S
  <2>3. S = Records BY <2>1, <2>2, UpTheRecords
  <2>4. \A r \in Records : SubtreeSum[r] = f[r] BY <2>3 DEF S
  <2>5. SubtreeSum = [r \in Records |-> SubtreeSum[r]] BY <1>6
  <2>6. f = [r \in Records |-> f[r]] OBVIOUS
  <2> QED BY <2>4, <2>5, <2>6
<1> QED BY <1>7, <1>8

ExtremeBody(f, r) ==
  [i \in AggregateIds |->
     IF SubtreeSize[r] = 0 THEN ExtremeIdentity(i)
     ELSE IF Holds(r, Aggregates[i].attribute) THEN r.value[Aggregates[i].attribute]
     ELSE Ext(i, {f[child][i] : child \in UNION {r.slots[s] : s \in DOMAIN r.slots}})]

(* The extremes computed from values are values. *)
LEMMA ExtremeBodyType ==
  ASSUME NEW r \in Records, NEW f \in [Records -> [AggregateIds -> Values]]
  PROVE  ExtremeBody(f, r) \in [AggregateIds -> Values]
<1> SUFFICES ASSUME NEW i \in AggregateIds PROVE ExtremeBody(f, r)[i] \in Values BY DEF ExtremeBody
<1>1. CASE Holds(r, Aggregates[i].attribute)
  <2>1. r.value[Aggregates[i].attribute] \in Values BY <1>1, RecordFacts DEF Holds
  <2> QED BY <1>1, <2>1, ValuesFacts DEF ExtremeBody
<1>2. CASE ~Holds(r, Aggregates[i].attribute)
  <2> DEFINE T == {f[child][i] : child \in UNION {r.slots[s] : s \in DOMAIN r.slots}}
  <2>1. T \in SUBSET Values BY RecordFacts
  <2> HIDE DEF T
  <2>2. Ext(i, T) \in Values BY <2>1, ExtIs
  <2> QED BY <1>2, <2>2, ValuesFacts DEF ExtremeBody, T
<1> QED BY <1>1, <1>2

(* They depend on the children's extremes only. *)
LEMMA ExtremeBodySame ==
  ASSUME NEW r \in Records, NEW f, NEW g,
         \A s \in DOMAIN r.slots : \A child \in r.slots[s] : f[child] = g[child]
  PROVE  ExtremeBody(f, r) = ExtremeBody(g, r)
<1> DEFINE C == UNION {r.slots[s] : s \in DOMAIN r.slots}
<1>1. \A child \in C : f[child] = g[child] OBVIOUS
<1>2. \A i : {f[child][i] : child \in C} = {g[child][i] : child \in C} BY <1>1
<1> HIDE DEF C
<1>3. \A i : Ext(i, {f[child][i] : child \in C}) = Ext(i, {g[child][i] : child \in C}) BY <1>2
<1> QED BY <1>3 DEF ExtremeBody, C

(* SubtreeExtreme satisfies its recursive definition. *)
LEMMA ExtremeDef ==
  /\ SubtreeExtreme \in [Records -> [AggregateIds -> Values]]
  /\ \A r \in Records : SubtreeExtreme[r] = ExtremeBody(SubtreeExtreme, r)
<1> DEFINE V == [AggregateIds -> Values]
           G == [r \in Records |-> [f \in [Records -> V] |-> ExtremeBody(f, r)]]
           Iter(f) == [record \in Records |-> ExtremeBody(f, record)]
<1>1. G \in [Records -> [[Records -> V] -> V]] BY ExtremeBodyType
<1>2. \A r \in Records : \A f, g \in [Records -> V] :
        (\A s \in DOMAIN r.slots : \A child \in r.slots[s] : f[child] = g[child]) => G[r][f] = G[r][g]
  BY ExtremeBodySame
<1>3. PICK f \in [Records -> V] : \A r \in Records : f[r] = G[r][f]
  <2>1. PICK v \in V : TRUE
    <3>1. [i \in AggregateIds |-> ExtremeIdentity(i)] \in V BY ValuesFacts
    <3> QED BY <3>1
  <2> HIDE DEF G, V
  <2>2. FromChildren(V, G) BY <1>1, <1>2 DEF FromChildren
  <2> QED BY <2>1, <2>2, FixedPoint
<1>4. f = Iter(f) BY <1>3
<1>5. SubtreeExtreme = CHOOSE g : g = Iter(g) BY DEF SubtreeExtreme, ExtremeBody, Ext
<1>6. SubtreeExtreme = Iter(SubtreeExtreme)
  <2> HIDE DEF Iter
  <2> QED BY <1>4, <1>5
<1>7. \A r \in Records : SubtreeExtreme[r] = ExtremeBody(SubtreeExtreme, r) BY <1>6
<1>8. SubtreeExtreme = f
  <2> DEFINE S == {r \in Records : SubtreeExtreme[r] = f[r]}
  <2>1. ASSUME NEW r \in Records, \A s \in DOMAIN r.slots : \A child \in r.slots[s] : child \in S
        PROVE  r \in S
    <3>1. \A s \in DOMAIN r.slots : \A child \in r.slots[s] : f[child] = SubtreeExtreme[child]
      BY <2>1
    <3>2. ExtremeBody(f, r) = ExtremeBody(SubtreeExtreme, r) BY <3>1, ExtremeBodySame
    <3> QED BY <1>3, <1>7, <3>2
  <2>2. S \in SUBSET Records OBVIOUS
  <2> HIDE DEF S
  <2>3. S = Records BY <2>1, <2>2, UpTheRecords
  <2>4. \A r \in Records : SubtreeExtreme[r] = f[r] BY <2>3 DEF S
  <2>5. SubtreeExtreme = [r \in Records |-> SubtreeExtreme[r]] BY <1>6
  <2>6. f = [r \in Records |-> f[r]] OBVIOUS
  <2> QED BY <2>4, <2>5, <2>6
<1> QED BY <1>7, <1>8

(* The sum over the rows of a slot is that of its children's sums. *)
LEMMA AltSum ==
  ASSUME NEW r \in Records, NEW s \in DOMAIN r.slots, NEW i \in AggregateIds,
         \A child \in r.slots[s] : SubtreeSum[child][i] = Sum(i, FlatRows[child])
  PROVE  Sum(i, Alt(r, s)) = SumFunction([child \in r.slots[s] |-> SubtreeSum[child][i]])
<1> DEFINE I == r.slots[s]
           P == [child \in I |-> FlatRows[child]]
           S == Alt(r, s)
           f == [x \in S |-> Val(i, x)]
<1>1. IsFiniteSet(I) BY RecordFacts
<1>2. IsFiniteSet(S) /\ S \in SUBSET RowsOver(Under(r, s)) BY AltIs
<1>3. S = UNION {P[c] : c \in I} /\ P \in [I -> SUBSET S] BY DEF Alt, AltOf
<1>4. \A c, d \in I : c # d => P[c] \cap P[d] = {} BY FlatRowsApart
<1>5. f \in [S -> Int]
  <2> HIDE DEF S
  <2> QED BY <1>2, SumIs
<1>6. \A c \in I : Total(P[c], f) = SubtreeSum[c][i]
  <2> SUFFICES ASSUME NEW c \in I PROVE Total(P[c], f) = SubtreeSum[c][i] OBVIOUS
  <2>1. P[c] \subseteq S BY <1>3
  <2>2. [x \in P[c] |-> f[x]] = [x \in P[c] |-> Val(i, x)] BY <2>1
  <2>3. P[c] = FlatRows[c] OBVIOUS
  <2> QED BY <2>2, <2>3 DEF Total, Sum
<1>7. [c \in I |-> Total(P[c], f)] = [c \in I |-> SubtreeSum[c][i]] BY <1>6
<1> HIDE DEF S, P, I, f
<1>8. SumFunction(f) = SumFunction([c \in I |-> Total(P[c], f)])
  BY <1>1, <1>2, <1>3, <1>4, <1>5, SumFamily
<1> QED BY <1>7, <1>8 DEF S, f, I, Sum

(* The rows of a record that carries the attribute all carry its value. *)
LEMMA CarriedValue ==
  ASSUME NEW r \in Records, NEW i \in AggregateIds, Holds(r, Aggregates[i].attribute),
         NEW x \in FlatRows[r]
  PROVE  /\ Val(i, x) = r.value[Aggregates[i].attribute]
         /\ Edge(i, x) = r.value[Aggregates[i].attribute]
<1>1. LevelOf(Aggregates[i].attribute) = r.level BY RecordFacts, LevelOfIs DEF Holds
<1>2. x \in RowsOver(Below[r.level]) /\ x[r.level] \in Copies(r) BY FlatRowsAre
<1>3. x[r.level].record = r BY <1>2, CopiesAre
<1>4. r.level \in DOMAIN x BY <1>2, RecordFacts, BelowSelf DEF RowsOver
<1> QED BY <1>1, <1>3, <1>4 DEF Val, Edge, At

(* The level of an attribute that a record does not carry.                 *)
LEMMA NotCarried ==
  ASSUME NEW r \in Records, NEW i \in AggregateIds, ~Holds(r, Aggregates[i].attribute)
  PROVE  LevelOf(Aggregates[i].attribute) # r.level
BY AggregateFacts DEF Holds

(* What is known of the rows of a record. *)
LEMMA FlatFinite ==
  ASSUME NEW r \in Records
  PROVE  /\ FlatRows[r] \in SUBSET RowsOver(Below[r.level]) /\ IsFiniteSet(FlatRows[r])
         /\ SubtreeSize[r] = Cardinality(FlatRows[r]) /\ Cardinality(FlatRows[r]) \in Nat
         /\ SubtreeSize[r] = 0 <=> FlatRows[r] = {}
<1>1. IsFiniteSet(FlatRows[r]) /\ SubtreeSize[r] = Cardinality(FlatRows[r]) BY SizeIs
<1>2. Cardinality(FlatRows[r]) \in Nat /\ (Cardinality(FlatRows[r]) = 0 <=> FlatRows[r] = {})
  BY <1>1, FS_CardinalityType, FS_EmptySet
<1>3. FlatRows[r] \in SUBSET RowsOver(Below[r.level]) BY FlatRowsDef
<1> QED BY <1>1, <1>2, <1>3

(* A term of SubtreeSum: the slot's sum, once for each row of the rest.    *)
LEMMA SlotTerm ==
  ASSUME NEW r \in Records, NEW s \in DOMAIN r.slots, SubtreeSize[r] # 0
  PROVE  Others(SubtreeSize[r], SlotSize(r.slots[s])) = Cardinality(RestRows(r, s))
<1> DEFINE a == Cardinality(Alt(r, s))
           b == Cardinality(RestRows(r, s))
<1>1. SlotSize(r.slots[s]) = a /\ a \in Nat /\ a > 0 BY EmptySlot, AltIs
<1>2. SubtreeSize[r] = Prod(a, b)
  <2> DEFINE L == Under(r, s)
             M == Rest(r, s)
             X == Alt(r, s)
             Y == RestRows(r, s)
  <2>1. /\ L \cap M = {} /\ FlatRows[r] = Times(L, X, M, Y)
        /\ Y \in SUBSET RowsOver(M) /\ IsFiniteSet(Y)
    BY SlotSplit
  <2>2. X \in SUBSET RowsOver(L) /\ IsFiniteSet(X) BY AltIs
  <2> HIDE DEF L, M, X, Y
  <2>3. Cardinality(Times(L, X, M, Y)) = Prod(Cardinality(X), Cardinality(Y))
    BY <2>1, <2>2, TimesCount
  <2> QED BY <2>1, <2>3, SizeIs DEF X, Y
<1>3. b \in Nat BY SlotSplit, FS_CardinalityType
<1> HIDE DEF a, b
<1>4. (a * b) \div a = b BY <1>1, <1>3
<1> QED BY <1>1, <1>2, <1>4 DEF Others, Prod, b

(* One record, when its children's sums are right. *)
LEMMA SumStep ==
  ASSUME NEW r \in Records, NEW i \in AggregateIds,
         \A s \in DOMAIN r.slots : \A child \in r.slots[s] :
           SubtreeSum[child][i] = Sum(i, FlatRows[child])
  PROVE  SubtreeSum[r][i] = Sum(i, FlatRows[r])
<1> DEFINE X == FlatRows[r]
           lev == LevelOf(Aggregates[i].attribute)
<1>1. /\ X \in SUBSET RowsOver(Below[r.level]) /\ IsFiniteSet(X)
      /\ SubtreeSize[r] = Cardinality(X) /\ Cardinality(X) \in Nat
      /\ SubtreeSize[r] = 0 <=> X = {}
  BY FlatFinite
<1>2. SubtreeSum[r] = SumBody(SubtreeSum, r) BY SumDef
<1>3. CASE SubtreeSize[r] = 0
  <2>1. SubtreeSum[r][i] = 0 BY <1>2, <1>3 DEF SumBody
  <2>2. [x \in X |-> Val(i, x)] = [x \in X |-> 0] BY <1>1, <1>3
  <2>3. SumFunction([x \in X |-> 0]) = 0 BY <1>1, SumZeros
  <2> QED BY <2>1, <2>2, <2>3 DEF Sum
<1>4. CASE SubtreeSize[r] # 0 /\ Holds(r, Aggregates[i].attribute)
  <2> DEFINE c == r.value[Aggregates[i].attribute]
  <2>1. SubtreeSum[r][i] = c * SubtreeSize[r] BY <1>2, <1>4 DEF SumBody
  <2>2. c \in Int
    <3>1. c \in Values BY <1>4, RecordFacts DEF Holds
    <3> QED BY <3>1, ValuesFacts
  <2>3. \A x \in X : Val(i, x) = c BY <1>4, CarriedValue
  <2> HIDE DEF c, X
  <2>4. [x \in X |-> Val(i, x)] = [x \in X |-> c] BY <2>3
  <2>5. SumFunction([x \in X |-> c]) = c * Cardinality(X) BY <1>1, <2>2, SumConst
  <2> QED BY <1>1, <2>1, <2>4, <2>5 DEF Sum, X
<1>5. CASE SubtreeSize[r] # 0 /\ ~Holds(r, Aggregates[i].attribute)
  <2> DEFINE D == DOMAIN r.slots
             t == [s \in D |-> Cardinality(RestRows(r, s)) * Sum(i, Alt(r, s))]
  <2>1. lev # r.level BY <1>5, NotCarried
  <2>2. \A s \in D : /\ Sum(i, Alt(r, s)) \in Int /\ Cardinality(RestRows(r, s)) \in Int
                     /\ Sum(i, Alt(r, s)) = SumFunction([child \in r.slots[s] |-> SubtreeSum[child][i]])
                     /\ Others(SubtreeSize[r], SlotSize(r.slots[s])) = Cardinality(RestRows(r, s))
    <3> SUFFICES ASSUME NEW s \in D
                 PROVE  /\ Sum(i, Alt(r, s)) \in Int /\ Cardinality(RestRows(r, s)) \in Int
                        /\ Sum(i, Alt(r, s)) = SumFunction([child \in r.slots[s] |-> SubtreeSum[child][i]])
                        /\ Others(SubtreeSize[r], SlotSize(r.slots[s])) = Cardinality(RestRows(r, s))
      OBVIOUS
    <3>1. Sum(i, Alt(r, s)) = SumFunction([child \in r.slots[s] |-> SubtreeSum[child][i]]) BY AltSum
    <3>2. Sum(i, Alt(r, s)) \in Int
      <4>1. Alt(r, s) \in SUBSET RowsOver(Under(r, s)) /\ IsFiniteSet(Alt(r, s)) BY AltIs
      <4> QED BY <4>1, SumIs
    <3>3. Others(SubtreeSize[r], SlotSize(r.slots[s])) = Cardinality(RestRows(r, s)) BY <1>5, SlotTerm
    <3>4. Cardinality(RestRows(r, s)) \in Int BY SlotSplit, FS_CardinalityType
    <3> QED BY <3>1, <3>2, <3>3, <3>4
  <2>3. SubtreeSum[r][i] = SumFunction(t)
    <3>1. \A a, b \in Int : a * b = b * a OBVIOUS
    <3>2. [s \in D |-> SumFunction([child \in r.slots[s] |-> SubtreeSum[child][i]])
                       * Others(SubtreeSize[r], SlotSize(r.slots[s]))] = t
      BY <2>2, <3>1
    <3> HIDE DEF t
    <3> QED BY <1>2, <1>5, <3>2 DEF SumBody
  <2>4. t \in [D -> Int] /\ IsFiniteSet(D)
    <3>1. \A a, b \in Int : a * b \in Int OBVIOUS
    <3>2. IsFiniteSet(D)
      <4>1. D = 1 .. Len(r.slots) /\ Len(r.slots) \in Int BY RecordFacts
      <4>2. IsFiniteSet(1 .. Len(r.slots)) BY <4>1, FS_Interval
      <4> QED BY <4>1, <4>2
    <3> QED BY <2>2, <3>1, <3>2
  <2>5. \A s \in D : lev \notin Under(r, s) => t[s] = 0
    <3> SUFFICES ASSUME NEW s \in D, lev \notin Under(r, s) PROVE t[s] = 0 OBVIOUS
    <3>1. Sum(i, Alt(r, s)) = 0
      <4>1. Alt(r, s) \in SUBSET RowsOver(Under(r, s)) /\ IsFiniteSet(Alt(r, s)) BY AltIs
      <4> QED BY <4>1, Absent
    <3>2. \A a \in Int : a * 0 = 0 OBVIOUS
    <3> QED BY <2>2, <3>1, <3>2
  <2>6. CASE \E s \in D : lev \in Under(r, s)
    <3>1. PICK s \in D : lev \in Under(r, s) BY <2>6
    <3>2. \A u \in D \ {s} : t[u] = 0
      <4>1. \A u \in D \ {s} : lev \notin Under(r, u) BY <3>1, UnderFacts
      <4> QED BY <4>1, <2>5
    <3>3. SumFunction(t) = t[s]
      <4> HIDE DEF t, D
      <4> QED BY <2>4, <3>1, <3>2, SumOnly
    <3>4. Sum(i, X) = t[s]
      <4> DEFINE L == Under(r, s)
                 M == Rest(r, s)
                 A == Alt(r, s)
                 Y == RestRows(r, s)
      <4>1. /\ L \cap M = {} /\ X = Times(L, A, M, Y)
            /\ Y \in SUBSET RowsOver(M) /\ IsFiniteSet(Y)
        BY SlotSplit
      <4>2. A \in SUBSET RowsOver(L) /\ IsFiniteSet(A) BY AltIs
      <4>3. lev \in L BY <3>1
      <4>4. Sum(i, A) \in Int /\ Cardinality(Y) \in Int BY <2>2
      <4>5. t[s] = Cardinality(Y) * Sum(i, A) OBVIOUS
      <4>6. Cardinality(A) \in Int BY <4>2, FS_CardinalityType
      <4> HIDE DEF L, M, A, Y, X, t
      <4>7. Sum(i, Times(L, A, M, Y)) = Cardinality(Y) * Sum(i, A) + Cardinality(A) * Sum(i, Y)
        BY <4>1, <4>2, SumTimes
      <4>8. Sum(i, Y) = 0 BY <4>1, <4>3, Absent
      <4>9. Cardinality(A) * Sum(i, Y) = 0 BY <4>6, <4>8
      <4>10. \A a, b \in Int : a * b \in Int OBVIOUS
      <4>11. Cardinality(Y) * Sum(i, A) \in Int BY <4>4, <4>10
      <4>12. \A a, b \in Int : b = 0 => a + b = a OBVIOUS
      <4> QED BY <4>1, <4>5, <4>7, <4>9, <4>11, <4>12
    <3> QED BY <2>3, <3>3, <3>4
  <2>7. CASE \A s \in D : lev \notin Under(r, s)
    <3>1. lev \notin Below[r.level] BY <2>1, <2>7, UnderSplit
    <3>2. Sum(i, X) = 0
      <4> HIDE DEF X
      <4> QED BY <1>1, <3>1, Absent
    <3>3. t = [s \in D |-> 0]
      <4>1. \A s \in D : t[s] = 0 BY <2>5, <2>7
      <4>2. t = [s \in D |-> t[s]] OBVIOUS
      <4> HIDE DEF t, D
      <4> QED BY <4>1, <4>2
    <3>4. SumFunction([s \in D |-> 0]) = 0 BY <2>4, SumZeros
    <3> HIDE DEF t, X
    <3> QED BY <2>3, <3>2, <3>3, <3>4 DEF X
  <2> QED BY <2>6, <2>7
<1> QED BY <1>3, <1>4, <1>5

(* SubtreeSum is the sum over the rows below the record. *)
LEMMA SumsAre == \A r \in Records : \A i \in AggregateIds : SubtreeSum[r][i] = Sum(i, FlatRows[r])
<1> SUFFICES ASSUME NEW i \in AggregateIds
             PROVE  \A r \in Records : SubtreeSum[r][i] = Sum(i, FlatRows[r])
  OBVIOUS
<1> DEFINE S == {r \in Records : SubtreeSum[r][i] = Sum(i, FlatRows[r])}
<1>1. ASSUME NEW r \in Records, \A s \in DOMAIN r.slots : \A child \in r.slots[s] : child \in S
      PROVE  r \in S
  <2>1. \A s \in DOMAIN r.slots : \A child \in r.slots[s] : SubtreeSum[child][i] = Sum(i, FlatRows[child])
    BY <1>1
  <2> QED BY <2>1, SumStep
<1>2. S \in SUBSET Records OBVIOUS
<1> HIDE DEF S
<1>3. S = Records BY <1>1, <1>2, UpTheRecords
<1> QED BY <1>3 DEF S

(* Every row below a slot is in a row of a record that has rows. *)
LEMMA Extends ==
  ASSUME NEW r \in Records, NEW s \in DOMAIN r.slots, FlatRows[r] # {}, NEW y \in Alt(r, s)
  PROVE  \E x \in FlatRows[r] : Restrict(x, Under(r, s)) = y
<1> DEFINE L == Under(r, s)
           M == Rest(r, s)
           X == Alt(r, s)
           Y == RestRows(r, s)
           Z == FlatRows[r]
<1>1. /\ L \cap M = {} /\ Z = Times(L, X, M, Y) /\ Y \in SUBSET RowsOver(M) /\ Z # {} BY SlotSplit
<1>2. X \in SUBSET RowsOver(L) /\ y \in X BY AltIs
<1> HIDE DEF L, M, X, Y, Z
<1>3. PICK z \in Z : TRUE BY <1>1
<1>4. Restrict(z, M) \in Y BY <1>1, <1>3 DEF Times
<1>5. Pairs(Z, X, Y, [v \in Z |-> Restrict(v, L)], [v \in Z |-> Restrict(v, M)])
  BY <1>1, <1>2, TimesPairs
<1>6. \E x \in Z : Restrict(x, L) = y BY <1>2, <1>4, <1>5 DEF Pairs
<1> QED BY <1>6 DEF L, Z

(* One record, when its children's extremes are right. *)
LEMMA ExtremeStep ==
  ASSUME NEW r \in Records, NEW i \in AggregateIds,
         \A s \in DOMAIN r.slots : \A child \in r.slots[s] :
           SubtreeExtreme[child][i] = Extreme(i, FlatRows[child])
  PROVE  SubtreeExtreme[r][i] = Extreme(i, FlatRows[r])
<1> DEFINE X == FlatRows[r]
           lev == LevelOf(Aggregates[i].attribute)
           e == ExtremeIdentity(i)
<1>1. X \in SUBSET RowsOver(Below[r.level]) /\ (SubtreeSize[r] = 0 <=> X = {}) BY FlatFinite
<1>2. SubtreeExtreme[r] = ExtremeBody(SubtreeExtreme, r) BY ExtremeDef
<1>3. CASE SubtreeSize[r] = 0
  <2>1. SubtreeExtreme[r][i] = e BY <1>2, <1>3 DEF ExtremeBody
  <2> DEFINE T == {Edge(i, x) : x \in X}
  <2>2. \A v \in T : v = e BY <1>1, <1>3
  <2> HIDE DEF T
  <2>3. Ext(i, T) = e BY <2>2, ExtNothing
  <2> QED BY <2>1, <2>3 DEF Extreme, T
<1>4. CASE SubtreeSize[r] # 0 /\ Holds(r, Aggregates[i].attribute)
  <2> DEFINE c == r.value[Aggregates[i].attribute]
             T == {Edge(i, x) : x \in X}
  <2>1. SubtreeExtreme[r][i] = c BY <1>2, <1>4 DEF ExtremeBody
  <2>2. c \in Values BY <1>4, RecordFacts DEF Holds
  <2>3. \A x \in X : Edge(i, x) = c BY <1>4, CarriedValue
  <2> HIDE DEF c
  <2>4. T = {c} BY <1>1, <1>4, <2>3
  <2> HIDE DEF T
  <2>5. T \in SUBSET Values /\ c \in T /\ \A v \in T : Beats(i, c, v)
    <3>1. c \in Int BY <2>2, ValuesFacts
    <3>2. c <= c BY <3>1
    <3> QED BY <2>2, <2>4, <3>2 DEF Beats
  <2>6. Ext(i, T) = c BY <2>2, <2>5, ExtOf
  <2> QED BY <2>1, <2>6 DEF Extreme, T
<1>5. CASE SubtreeSize[r] # 0 /\ ~Holds(r, Aggregates[i].attribute)
  <2> DEFINE C == UNION {r.slots[s] : s \in DOMAIN r.slots}
             P == [child \in C |-> {Edge(i, y) : y \in FlatRows[child]}]
             A == {SubtreeExtreme[child][i] : child \in C}
             B == {Ext(i, P[child]) : child \in C}
             T == {Edge(i, x) : x \in X}
             U == UNION {P[child] : child \in C}
  <2>1. lev # r.level BY <1>5, NotCarried
  <2>2. SubtreeExtreme[r][i] = Ext(i, A) BY <1>2, <1>5 DEF ExtremeBody
  <2>3. A = B
    <3>1. \A child \in C : SubtreeExtreme[child][i] = Ext(i, P[child]) BY DEF Extreme
    <3> HIDE DEF C, P
    <3> QED BY <3>1
  <2>4. P \in [C -> SUBSET Values]
    <3>1. \A child \in C : {Edge(i, y) : y \in FlatRows[child]} \in SUBSET Values
      <4> SUFFICES ASSUME NEW child \in C PROVE {Edge(i, y) : y \in FlatRows[child]} \in SUBSET Values
        OBVIOUS
      <4>1. child \in Records BY ChildFacts
      <4>2. FlatRows[child] \in SUBSET RowsOver(Below[child.level]) BY <4>1, FlatRowsDef
      <4> QED BY <4>2, ExtremeType
    <3> HIDE DEF C
    <3> QED BY <3>1
  <2>5. \A v \in U : v = e \/ v \in T
    <3> SUFFICES ASSUME NEW v \in U PROVE v = e \/ v \in T OBVIOUS
    <3>c. PICK child \in C : v \in P[child] OBVIOUS
    <3>p. P[child] = {Edge(i, y) : y \in FlatRows[child]} OBVIOUS
    <3>0. PICK y \in FlatRows[child] : v = Edge(i, y) BY <3>c, <3>p
    <3>s. PICK s \in DOMAIN r.slots : child \in r.slots[s] OBVIOUS
    <3>1. y \in Alt(r, s) BY <3>0, <3>s DEF Alt, AltOf
    <3>2. PICK x \in X : Restrict(x, Under(r, s)) = y BY <1>1, <1>5, <3>1, Extends
    <3>3. DOMAIN x = Below[r.level] /\ Under(r, s) \subseteq Below[r.level]
      BY <1>1, <3>2, UnderFacts DEF RowsOver
    <3>4. Edge(i, y) = IF lev \in Under(r, s) THEN Edge(i, x) ELSE e
      BY <3>2, <3>3, AtRestrict DEF Edge
    <3> QED BY <3>0, <3>2, <3>4
  <2>6. \A v \in T : v = e \/ v \in U
    <3> SUFFICES ASSUME NEW x \in X PROVE Edge(i, x) = e \/ Edge(i, x) \in U OBVIOUS
    <3>1. DOMAIN x = Below[r.level] BY <1>1 DEF RowsOver
    <3>2. CASE lev \notin Below[r.level] BY <3>1, <3>2 DEF Edge, At
    <3>3. CASE lev \in Below[r.level]
      <4>1. PICK s \in DOMAIN r.slots : lev \in Under(r, s) BY <2>1, <3>3, UnderSplit
      <4>2. Under(r, s) \subseteq Below[r.level] BY UnderFacts
      <4>3. Restrict(x, Under(r, s)) \in Alt(r, s) BY FlatRowsAre
      <4>4. PICK child \in r.slots[s] : Restrict(x, Under(r, s)) \in FlatRows[child]
        BY <4>3 DEF Alt, AltOf
      <4>5. Edge(i, Restrict(x, Under(r, s))) = Edge(i, x)
        BY <3>1, <4>1, <4>2, AtRestrict DEF Edge
      <4>6. Edge(i, x) \in P[child] BY <4>4, <4>5
      <4> QED BY <4>6
    <3> QED BY <3>2, <3>3
  <2> HIDE DEF C, P, A, T, U, X
  <2>7. Ext(i, B) = Ext(i, U)
    <3>1. Ext(i, {Ext(i, P[child]) : child \in C}) = Ext(i, UNION {P[child] : child \in C})
      BY <2>4, ExtFamily
    <3> QED BY <3>1 DEF U
  <2>8. Ext(i, U) = Ext(i, T)
    <3>1. {e} \cup U = {e} \cup T BY <2>5, <2>6
    <3> QED BY <3>1, ExtSame
  <2> QED BY <2>2, <2>3, <2>7, <2>8 DEF Extreme, T, X
<1> QED BY <1>3, <1>4, <1>5

(* SubtreeExtreme is the extreme of the rows below the record. *)
LEMMA ExtremesAre ==
  \A r \in Records : \A i \in AggregateIds : SubtreeExtreme[r][i] = Extreme(i, FlatRows[r])
<1> SUFFICES ASSUME NEW i \in AggregateIds
             PROVE  \A r \in Records : SubtreeExtreme[r][i] = Extreme(i, FlatRows[r])
  OBVIOUS
<1> DEFINE S == {r \in Records : SubtreeExtreme[r][i] = Extreme(i, FlatRows[r])}
<1>1. ASSUME NEW r \in Records, \A s \in DOMAIN r.slots : \A child \in r.slots[s] : child \in S
      PROVE  r \in S
  <2>1. \A s \in DOMAIN r.slots : \A child \in r.slots[s] :
          SubtreeExtreme[child][i] = Extreme(i, FlatRows[child])
    BY <1>1
  <2> QED BY <2>1, ExtremeStep
<1>2. S \in SUBSET Records OBVIOUS
<1> HIDE DEF S
<1>3. S = Records BY <1>1, <1>2, UpTheRecords
<1> QED BY <1>3 DEF S

(* The subtree aggregates of FRepresentation are those of the flat rows    *)
(* below the record, whatever slots are empty and wherever the attribute   *)
(* is (frep.cpp, SubtreeSize, SubtreeSum and SubtreeExtreme).              *)
THEOREM SubtreeAggregatesAreExact ==
  \A r \in Records :
    /\ IsFiniteSet(FlatRows[r]) /\ SubtreeSize[r] = Cardinality(FlatRows[r])
    /\ \A i \in AggregateIds : /\ SubtreeSum[r][i] = Sum(i, FlatRows[r])
                               /\ SubtreeExtreme[r][i] = Extreme(i, FlatRows[r])
BY SizeIs, SumsAre, ExtremesAre

(* What a child of a slot without a key contributes. *)
LEMMA StandingSubtree ==
  ASSUME NEW r \in Records PROVE Standing(SubtreeFold(r), Below[r.level], FlatRows[r])
<1> DEFINE f == SubtreeFold(r)
<1>1. /\ FlatRows[r] \in SUBSET RowsOver(Below[r.level]) /\ IsFiniteSet(FlatRows[r])
      /\ SubtreeSize[r] = Cardinality(FlatRows[r]) /\ Cardinality(FlatRows[r]) \in Nat
  BY FlatFinite
<1>2. Below[r.level] \in SUBSET Levels BY RecordFacts, BelowType
<1>3. SubtreeSum[r] \in [AggregateIds -> Int] /\ SubtreeExtreme[r] \in [AggregateIds -> Values]
  BY SumDef, ExtremeDef
<1>4. f \in Folds
  <2>1. [i \in AggregateIds |-> IF IsSum(i) THEN SubtreeSum[r][i] ELSE 0] \in [AggregateIds -> Int]
    BY <1>3
  <2>2. [i \in AggregateIds |-> IF IsExtreme(i) THEN SubtreeExtreme[r][i] ELSE ExtremeIdentity(i)]
          \in [AggregateIds -> Values]
    BY <1>3, ValuesFacts
  <2>3. SubtreeSize[r] \in Int BY <1>1
  <2> QED BY <2>1, <2>2, <2>3 DEF SubtreeFold, Folds
<1>5. f.count = Cardinality(FlatRows[r]) BY <1>1 DEF SubtreeFold
<1>6. \A i \in AggregateIds : IsSum(i) => f.sums[i] = Sum(i, FlatRows[r])
  BY SumsAre DEF SubtreeFold
<1>7. \A i \in AggregateIds : IsExtreme(i) => f.extremes[i] = Extreme(i, FlatRows[r])
  BY ExtremesAre DEF SubtreeFold
<1> HIDE DEF f
<1>8. Standing(f, Below[r.level], FlatRows[r]) BY <1>1, <1>2, <1>4, <1>5, <1>6, <1>7 DEF Standing
<1> QED BY <1>8 DEF f

(* What a slot without a key contributes stands for its rows. *)
LEMMA StandingSlot ==
  ASSUME NEW r \in Records, NEW s \in DOMAIN r.slots
  PROVE  Standing(SlotTotals(r.slots[s]), Under(r, s), Alt(r, s))
<1> DEFINE I == r.slots[s]
           P == [child \in I |-> FlatRows[child]]
           F == [child \in I |-> SubtreeFold(child)]
           L == Under(r, s)
<1>1. IsFiniteSet(I) BY RecordFacts
<1>2. \A c \in I : Standing(F[c], L, P[c])
  <2> SUFFICES ASSUME NEW c \in I PROVE Standing(F[c], L, P[c]) OBVIOUS
  <2>1. c \in Records /\ Below[c.level] = L BY ChildFacts, UnderFacts
  <2>2. Standing(SubtreeFold(c), Below[c.level], FlatRows[c]) BY <2>1, StandingSubtree
  <2> QED BY <2>1, <2>2
<1>3. \A c, d \in I : c # d => P[c] \cap P[d] = {} BY FlatRowsApart
<1>4. L \in SUBSET Levels BY UnderFacts
<1>5. DOMAIN F = I /\ F = [c \in I |-> F[c]] OBVIOUS
<1>6. UNION {P[c] : c \in I} = Alt(r, s) BY DEF Alt, AltOf
<1> HIDE DEF I, P, F, L
<1>7. Branches(L, I, P, F) BY <1>1, <1>2, <1>3, <1>4, <1>5 DEF Branches
<1>8. Standing(Alternatives(Nothing, F), L, UNION {P[c] : c \in I}) BY <1>7, StandingFamily
<1> QED BY <1>6, <1>8 DEF SlotTotals, F, I, L

(* The record alone stands for its copies. *)
LEMMA StandingOwn ==
  ASSUME NEW r \in Records PROVE Standing(Own(r), {r.level}, OwnRows(r))
<1> DEFINE f == Own(r)
           X == OwnRows(r)
           L == {r.level}
           at(i) == Aggregates[i].attribute
<1>1. /\ X \in SUBSET RowsOver(L) /\ IsFiniteSet(X) /\ Cardinality(X) = r.weight
      /\ \A x \in X : x[r.level].record = r
  BY OwnRowsAre
<1>2. r.weight \in Nat /\ r.weight # 0 /\ L \in SUBSET Levels BY RecordFacts
<1>3. \A i \in AggregateIds : Holds(r, at(i)) => r.value[at(i)] \in Values /\ r.value[at(i)] \in Int
  <2>1. \A i \in AggregateIds : Holds(r, at(i)) => r.value[at(i)] \in Values BY RecordFacts DEF Holds
  <2> QED BY <2>1, ValuesFacts
<1>4. f \in Folds
  <2>1. [i \in AggregateIds |-> IF IsSum(i) /\ Holds(r, at(i)) THEN r.value[at(i)] * r.weight ELSE 0]
          \in [AggregateIds -> Int]
    <3>1. \A a, b \in Int : a * b \in Int OBVIOUS
    <3> HIDE DEF at
    <3> QED BY <1>2, <1>3, <3>1
  <2>2. [i \in AggregateIds |-> IF IsExtreme(i) /\ Holds(r, at(i)) THEN r.value[at(i)]
                                                                   ELSE ExtremeIdentity(i)]
          \in [AggregateIds -> Values]
    BY <1>3, ValuesFacts
  <2> QED BY <1>2, <2>1, <2>2 DEF Own, GetWeight, Folds
<1>5. f.count = Cardinality(X) BY <1>1 DEF Own, GetWeight
<1>6. \A i \in AggregateIds : Holds(r, at(i)) => \A x \in X : Val(i, x) = r.value[at(i)] /\ Edge(i, x) = r.value[at(i)]
  <2> SUFFICES ASSUME NEW i \in AggregateIds, Holds(r, at(i)), NEW x \in X
               PROVE  Val(i, x) = r.value[at(i)] /\ Edge(i, x) = r.value[at(i)]
    OBVIOUS
  <2>1. LevelOf(at(i)) = r.level BY RecordFacts, LevelOfIs DEF Holds
  <2>2. DOMAIN x = L BY <1>1 DEF RowsOver
  <2> QED BY <1>1, <2>1, <2>2 DEF Val, Edge, At
<1>7. \A i \in AggregateIds : ~Holds(r, at(i)) => Sum(i, X) = 0 /\ Extreme(i, X) = ExtremeIdentity(i)
  <2> SUFFICES ASSUME NEW i \in AggregateIds, ~Holds(r, at(i))
               PROVE  Sum(i, X) = 0 /\ Extreme(i, X) = ExtremeIdentity(i)
    OBVIOUS
  <2>1. LevelOf(Aggregates[i].attribute) \notin L BY NotCarried
  <2> HIDE DEF X, L
  <2> QED BY <1>1, <2>1, Absent
<1>8. \A i \in AggregateIds : IsSum(i) => f.sums[i] = Sum(i, X)
  <2> SUFFICES ASSUME NEW i \in AggregateIds, IsSum(i) PROVE f.sums[i] = Sum(i, X) OBVIOUS
  <2>1. CASE Holds(r, at(i))
    <3> DEFINE c == r.value[at(i)]
    <3>1. f.sums[i] = c * r.weight BY <2>1 DEF Own, GetWeight
    <3>2. c \in Int /\ \A x \in X : Val(i, x) = c BY <2>1, <1>3, <1>6
    <3> HIDE DEF c, X
    <3>3. [x \in X |-> Val(i, x)] = [x \in X |-> c] BY <3>2
    <3>4. SumFunction([x \in X |-> c]) = c * Cardinality(X) BY <1>1, <3>2, SumConst
    <3> QED BY <1>1, <3>1, <3>3, <3>4 DEF Sum
  <2>2. CASE ~Holds(r, at(i))
    <3>1. f.sums[i] = 0 BY <2>2 DEF Own
    <3> QED BY <3>1, <2>2, <1>7
  <2> QED BY <2>1, <2>2
<1>9. \A i \in AggregateIds : IsExtreme(i) => f.extremes[i] = Extreme(i, X)
  <2> SUFFICES ASSUME NEW i \in AggregateIds, IsExtreme(i) PROVE f.extremes[i] = Extreme(i, X) OBVIOUS
  <2>1. CASE Holds(r, at(i))
    <3> DEFINE c == r.value[at(i)]
               T == {Edge(i, x) : x \in X}
    <3>1. f.extremes[i] = c BY <2>1 DEF Own
    <3>2. c \in Values /\ c \in Int /\ \A x \in X : Edge(i, x) = c BY <2>1, <1>3, <1>6
    <3>3. X # {} BY <1>1, <1>2, FS_EmptySet
    <3> HIDE DEF c
    <3>4. T = {c} BY <3>2, <3>3
    <3> HIDE DEF T
    <3>5. c <= c BY <3>2
    <3>6. T \in SUBSET Values /\ c \in T /\ \A v \in T : Beats(i, c, v) BY <3>2, <3>4, <3>5 DEF Beats
    <3>7. Ext(i, T) = c BY <3>2, <3>6, ExtOf
    <3> QED BY <3>1, <3>7 DEF Extreme, T
  <2>2. CASE ~Holds(r, at(i))
    <3>1. f.extremes[i] = ExtremeIdentity(i) BY <2>2 DEF Own
    <3> QED BY <3>1, <2>2, <1>7
  <2> QED BY <2>1, <2>2
<1> HIDE DEF f, X, L
<1>10. Standing(f, L, X) BY <1>1, <1>2, <1>4, <1>5, <1>8, <1>9 DEF Standing
<1> QED BY <1>10 DEF f, X, L

-----------------------------------------------------------------------------
(* The row that names nothing adds nothing to a row. *)
LEMMA TimesUnit ==
  ASSUME NEW L, NEW X \in SUBSET RowsOver(L)
  PROVE  Times(L, X, {}, {EmptyRow}) = X
<1>1. L \cup {} = L OBVIOUS
<1>2. \A z \in RowsOver(L) : Restrict(z, L) = z /\ Restrict(z, {}) = EmptyRow
  BY DEF Restrict, RowsOver, EmptyRow
<1>3. Times(L, X, {}, {EmptyRow}) = {z \in RowsOver(L) : Restrict(z, L) \in X /\ Restrict(z, {}) \in {EmptyRow}}
  BY <1>1 DEF Times
<1> QED BY <1>2, <1>3

(* A product with an empty factor is empty. *)
LEMMA TimesNone ==
  ASSUME NEW L, NEW M, NEW X, NEW Y, X = {} \/ Y = {} PROVE Times(L, X, M, Y) = {}
BY DEF Times

(* One slot by itself. *)
LEMMA PartOne ==
  ASSUME NEW r \in Records, NEW s \in DOMAIN r.slots
  PROVE  UnderAll(r, {s}) = Under(r, s) /\ Part(r, {s}) = Alt(r, s)
<1> DEFINE W == {s}
<1>1. W \in SUBSET DOMAIN r.slots /\ s \in W /\ W \ {s} = {} OBVIOUS
<1> HIDE DEF W
<1>2. Part(r, W) = Times(Under(r, s), Alt(r, s), UnderAll(r, W \ {s}), Part(r, W \ {s}))
  BY <1>1, PartMore
<1>3. UnderAll(r, W \ {s}) = {} /\ Part(r, W \ {s}) = {EmptyRow} BY <1>1, PartNone
<1>4. Alt(r, s) \in SUBSET RowsOver(Under(r, s)) BY AltIs
<1>5. Times(Under(r, s), Alt(r, s), {}, {EmptyRow}) = Alt(r, s) BY <1>4, TimesUnit
<1>6. UnderAll(r, W) = Under(r, s) BY DEF UnderAll, W
<1> QED BY <1>2, <1>3, <1>5, <1>6 DEF W

(* Some slots, and some others. *)
LEMMA PartSplit ==
  ASSUME NEW r \in Records, NEW V \in SUBSET DOMAIN r.slots, NEW W \in SUBSET DOMAIN r.slots,
         V \cap W = {}
  PROVE  /\ UnderAll(r, V \cup W) = UnderAll(r, V) \cup UnderAll(r, W)
         /\ UnderAll(r, V) \cap UnderAll(r, W) = {}
         /\ Part(r, V \cup W) = Times(UnderAll(r, V), Part(r, V), UnderAll(r, W), Part(r, W))
<1> DEFINE L == UnderAll(r, V)
           M == UnderAll(r, W)
<1>1. UnderAll(r, V \cup W) = L \cup M BY DEF UnderAll
<1>2. L \cap M = {}
  <2>1. \A s \in V : \A t \in W : Under(r, s) \cap Under(r, t) = {}
    <3> SUFFICES ASSUME NEW s \in V, NEW t \in W PROVE Under(r, s) \cap Under(r, t) = {} OBVIOUS
    <3>1. s # t OBVIOUS
    <3> QED BY <3>1, UnderFacts
  <2> QED BY <2>1 DEF UnderAll
<1>3. ASSUME NEW z \in RowsOver(L \cup M), NEW U \in {V, W}
      PROVE  Restrict(z, UnderAll(r, U)) \in Part(r, U)
               <=> \A t \in U : Restrict(z, Under(r, t)) \in Alt(r, t)
  <2>1. UnderAll(r, U) \subseteq L \cup M OBVIOUS
  <2>2. Restrict(z, UnderAll(r, U)) \in RowsOver(UnderAll(r, U))
    <3> HIDE DEF L, M
    <3> QED BY <2>1, RestrictRows
  <2>3. ASSUME NEW t \in U
        PROVE  Restrict(Restrict(z, UnderAll(r, U)), Under(r, t)) = Restrict(z, Under(r, t))
    <3>1. Under(r, t) \subseteq UnderAll(r, U) BY DEF UnderAll
    <3> QED BY <3>1, RestrictTwice
  <2> QED BY <2>2, <2>3 DEF Part
<1>4. \A z \in RowsOver(L \cup M) :
        /\ Restrict(z, L) \in Part(r, V) <=> \A t \in V : Restrict(z, Under(r, t)) \in Alt(r, t)
        /\ Restrict(z, M) \in Part(r, W) <=> \A t \in W : Restrict(z, Under(r, t)) \in Alt(r, t)
  BY <1>3
<1>5. Part(r, V \cup W) = {z \in RowsOver(L \cup M) : \A t \in V \cup W : Restrict(z, Under(r, t)) \in Alt(r, t)}
  BY <1>1 DEF Part
<1>6. Part(r, V \cup W) = Times(L, Part(r, V), M, Part(r, W))
  <2> HIDE DEF L, M
  <2> QED BY <1>4, <1>5 DEF Times
<1> QED BY <1>1, <1>2, <1>6

(* What Here computes: one combination after the other. *)
LEMMA HereSteps ==
  ASSUME NEW r \in Records, NEW incoming \in Folds
  PROVE  \E h : /\ Here(r, incoming) = h[Len(r.slots)]
                /\ h[0] = Combine(incoming, Own(r))
                /\ \A n \in DOMAIN r.slots :
                     h[n] = IF n \in Walk(r) THEN h[n - 1] ELSE Combine(h[n - 1], SlotTotals(r.slots[n]))
<1> DEFINE k == Len(r.slots)
           D == 0 .. k
           rank == [n \in D |-> n]
           Step(f, n) == IF n = 0 THEN Combine(incoming, Own(r))
                         ELSE IF n \in Walk(r) THEN f[n - 1]
                         ELSE Combine(f[n - 1], SlotTotals(r.slots[n]))
           G == [n \in D |-> [f \in [D -> Folds] |-> Step(f, n)]]
           Iter(f) == [n \in D |-> Step(f, n)]
<1>0. k \in Nat /\ DOMAIN r.slots = 1 .. k BY RecordFacts
<1>1. G \in [D -> [[D -> Folds] -> Folds]]
  <2> SUFFICES ASSUME NEW n \in D, NEW f \in [D -> Folds] PROVE Step(f, n) \in Folds OBVIOUS
  <2>1. CASE n = 0
    <3>1. Own(r) \in Folds BY StandingOwn DEF Standing
    <3>2. Combine(incoming, Own(r)) \in Folds BY <3>1, CombineType
    <3> QED BY <2>1, <3>2
  <2>2. CASE n # 0
    <3>1. n - 1 \in D /\ n \in DOMAIN r.slots BY <1>0, <2>2
    <3>2. f[n - 1] \in Folds BY <3>1
    <3>3. SlotTotals(r.slots[n]) \in Folds BY <3>1, StandingSlot DEF Standing
    <3>4. Combine(f[n - 1], SlotTotals(r.slots[n])) \in Folds BY <3>2, <3>3, CombineType
    <3> QED BY <2>2, <3>2, <3>4
  <2> QED BY <2>1, <2>2
<1>2. \A n \in D : \A f, g \in [D -> Folds] :
        (\A m \in D : rank[m] < rank[n] => f[m] = g[m]) => G[n][f] = G[n][g]
  <2> SUFFICES ASSUME NEW n \in D, NEW f \in [D -> Folds], NEW g \in [D -> Folds],
                      \A m \in D : rank[m] < rank[n] => f[m] = g[m]
               PROVE  Step(f, n) = Step(g, n)
    OBVIOUS
  <2>1. n # 0 => n - 1 \in D /\ n - 1 < n BY <1>0
  <2>2. n # 0 => f[n - 1] = g[n - 1] BY <2>1
  <2> QED BY <2>2
<1>3. rank \in [D -> 0 .. k] OBVIOUS
<1>4. PICK f \in [D -> Folds] : \A n \in D : f[n] = G[n][f]
  <2>1. PICK v \in Folds : TRUE OBVIOUS
  <2> HIDE DEF G, rank, D, k
  <2>2. Guarded(D, Folds, k, rank, G) BY <1>0, <1>1, <1>2, <1>3 DEF Guarded
  <2> QED BY <2>1, <2>2, Recursion
<1>5. f = Iter(f) BY <1>4
<1> DEFINE h == CHOOSE g : g = Iter(g)
<1>6. h = Iter(h)
  <2> HIDE DEF Iter
  <2> QED BY <1>5
<1>7. Here(r, incoming) = h[k] BY DEF Here
<1> HIDE DEF h
<1>8. \A n \in D : h[n] = Step(h, n) BY <1>6
<1>9. 0 \in D /\ \A n \in DOMAIN r.slots : n \in D /\ n # 0 BY <1>0
<1>10. h[0] = Combine(incoming, Own(r)) BY <1>8, <1>9
<1>11. \A n \in DOMAIN r.slots :
         h[n] = IF n \in Walk(r) THEN h[n - 1] ELSE Combine(h[n - 1], SlotTotals(r.slots[n]))
  BY <1>8, <1>9
<1> QED BY <1>7, <1>10, <1>11

(* The slots of a record that are folded in, and what its fold then stands *)
(* for: rows over the levels met so far.                                   *)
Folded(r)           == DOMAIN r.slots \ Walk(r)
Base(r, L, X)       == Times(L, X, {r.level}, OwnRows(r))
HereLevels(r, L)    == (L \cup {r.level}) \cup UnderAll(r, Folded(r))
HereRows(r, L, X)   == Times(L \cup {r.level}, Base(r, L, X), UnderAll(r, Folded(r)), Part(r, Folded(r)))

(* Here stands for the rows that came in, with the record's own and those of *)
(* the slots without keys.                                                  *)
LEMMA HereIs ==
  ASSUME NEW r \in Records, NEW f, NEW L, NEW X, Standing(f, L, X), L \cap Below[r.level] = {}
  PROVE  Standing(Here(r, f), HereLevels(r, L), HereRows(r, L, X))
<1> DEFINE K == L \cup {r.level}
           B == Base(r, L, X)
           V(n) == (1 .. n) \ Walk(r)
<1>0. Len(r.slots) \in Nat /\ DOMAIN r.slots = 1 .. Len(r.slots) BY RecordFacts
<1>1. r.level \in Below[r.level] BY RecordFacts, BelowSelf
<1>2. PICK h : /\ Here(r, f) = h[Len(r.slots)]
               /\ h[0] = Combine(f, Own(r))
               /\ \A n \in DOMAIN r.slots :
                    h[n] = IF n \in Walk(r) THEN h[n - 1] ELSE Combine(h[n - 1], SlotTotals(r.slots[n]))
  <2>1. f \in Folds BY DEF Standing
  <2> QED BY <2>1, HereSteps
<1>3. Standing(h[0], K, B)
  <2>1. Standing(Own(r), {r.level}, OwnRows(r)) BY StandingOwn
  <2>2. L \cap {r.level} = {} BY <1>1
  <2>3. Standing(Combine(f, Own(r)), L \cup {r.level}, Times(L, X, {r.level}, OwnRows(r)))
    BY <2>1, <2>2, StandingTimes
  <2> QED BY <1>2, <2>3 DEF Base
<1>4. B \in SUBSET RowsOver(K) BY <1>3 DEF Standing
<1> HIDE DEF B
<1> DEFINE Good(n) == Standing(h[n], K \cup UnderAll(r, V(n)), Times(K, B, UnderAll(r, V(n)), Part(r, V(n))))
           S == {n \in Nat : n <= Len(r.slots) => Good(n)}
<1>5. 0 \in S
  <2>1. V(0) = {} OBVIOUS
  <2>2. UnderAll(r, V(0)) = {} /\ Part(r, V(0)) = {EmptyRow} BY <2>1, PartNone
  <2>3. Times(K, B, {}, {EmptyRow}) = B
    <3> HIDE DEF K
    <3> QED BY <1>4, TimesUnit
  <2>4. K \cup {} = K OBVIOUS
  <2> HIDE DEF K, V
  <2>5. Good(0) BY <1>3, <2>2, <2>3, <2>4
  <2> QED BY <2>5
<1>6. ASSUME NEW n \in S PROVE n + 1 \in S
  <2> SUFFICES ASSUME n + 1 <= Len(r.slots) PROVE Good(n + 1) OBVIOUS
  <2> DEFINE s == n + 1
             W == V(s)
  <2>1. n \in Nat /\ n <= Len(r.slots) /\ Good(n) BY <1>0
  <2>2. s \in DOMAIN r.slots /\ s - 1 = n BY <1>0, <2>1
  <2>3. h[s] = IF s \in Walk(r) THEN h[n] ELSE Combine(h[n], SlotTotals(r.slots[s])) BY <1>2, <2>2
  <2>4. CASE s \in Walk(r)
    <3>1. W = V(n) BY <2>1, <2>4
    <3>2. h[s] = h[n] BY <2>3, <2>4
    <3> HIDE DEF V, K, s
    <3> QED BY <2>1, <3>1, <3>2 DEF s
  <2>5. CASE s \notin Walk(r)
    <3>1. W \in SUBSET DOMAIN r.slots /\ s \in W /\ W \ {s} = V(n) BY <1>0, <2>1, <2>5
    <3> HIDE DEF W, s, V
    <3> DEFINE M == UnderAll(r, V(n))
               Y == Part(r, V(n))
               U == Under(r, s)
               A == Alt(r, s)
    <3>2. UnderAll(r, W) = U \cup UnderAll(r, W \ {s}) BY <3>1 DEF UnderAll
    <3>3. U \cap UnderAll(r, W \ {s}) = {} BY <3>1, PartMore
    <3>4. Part(r, W) = Times(U, A, UnderAll(r, W \ {s}), Part(r, W \ {s})) BY <3>1, PartMore
    <3>5. UnderAll(r, W) = M \cup U /\ U \cap M = {} /\ Part(r, W) = Times(M, Y, U, A)
      <4>1. UnderAll(r, W \ {s}) = M /\ Part(r, W \ {s}) = Y BY <3>1
      <4> HIDE DEF M, Y, U, A
      <4>2. Part(r, W) = Times(U, A, M, Y) BY <3>4, <4>1 DEF U, A
      <4>3. Part(r, W) = Times(M, Y, U, A) BY <4>2, TimesSwap
      <4>4. U \cup M = M \cup U OBVIOUS
      <4> QED BY <3>2, <3>3, <4>1, <4>3, <4>4 DEF U
    <3>6. Standing(SlotTotals(r.slots[s]), U, A) BY <2>2, StandingSlot
    <3>7. (K \cup M) \cap U = {}
      <4>1. U \subseteq Below[r.level] /\ r.level \notin U BY <2>2, UnderFacts
      <4> QED BY <4>1, <3>5
    <3>8. h[s] = Combine(h[n], SlotTotals(r.slots[s])) BY <2>3, <2>5
    <3>9. Standing(h[n], K \cup M, Times(K, B, M, Y)) BY <2>1
    <3> HIDE DEF M, Y, U, A, K
    <3>10. Standing(h[s], (K \cup M) \cup U, Times(K \cup M, Times(K, B, M, Y), U, A))
      BY <3>6, <3>7, <3>8, <3>9, StandingTimes
    <3>11. Times(K \cup M, Times(K, B, M, Y), U, A) = Times(K, B, M \cup U, Times(M, Y, U, A))
      BY TimesAssociates
    <3>12. (K \cup M) \cup U = K \cup (M \cup U) OBVIOUS
    <3>13. Standing(h[s], K \cup UnderAll(r, W), Times(K, B, UnderAll(r, W), Part(r, W)))
      BY <3>5, <3>10, <3>11, <3>12
    <3> QED BY <3>13 DEF W, s
  <2> QED BY <2>4, <2>5
<1>7. S \in SUBSET Nat OBVIOUS
<1> HIDE DEF S
<1>8. S = Nat BY <1>5, <1>6, <1>7, Climb
<1>9. Len(r.slots) \in S /\ Len(r.slots) <= Len(r.slots) BY <1>0, <1>8
<1>10. Good(Len(r.slots)) BY <1>9 DEF S
<1>11. V(Len(r.slots)) = Folded(r) BY <1>0 DEF Folded
<1> HIDE DEF V, K
<1>12. Standing(h[Len(r.slots)], K \cup UnderAll(r, Folded(r)),
                Times(K, B, UnderAll(r, Folded(r)), Part(r, Folded(r))))
  BY <1>10, <1>11
<1> QED BY <1>2, <1>12 DEF HereLevels, HereRows, K, B

(* What is left is a row below each slot that is walked. *)
LEMMA HereSplit ==
  ASSUME NEW r \in Records, NEW L, NEW X
  PROVE  /\ L \cup Below[r.level] = HereLevels(r, L) \cup UnderAll(r, Walk(r))
         /\ L \cap Below[r.level] = {} => HereLevels(r, L) \cap UnderAll(r, Walk(r)) = {}
         /\ Times(L, X, Below[r.level], FlatRows[r])
              = Times(HereLevels(r, L), HereRows(r, L, X), UnderAll(r, Walk(r)), Part(r, Walk(r)))
<1> DEFINE D == DOMAIN r.slots
           V == Folded(r)
           W == Walk(r)
           e == {r.level}
           O == OwnRows(r)
           A == UnderAll(r, V)
           P == Part(r, V)
           C == UnderAll(r, W)
           Q == Part(r, W)
<1>1. V \in SUBSET D /\ W \in SUBSET D /\ V \cap W = {} /\ V \cup W = D BY DEF Folded, Walk
<1>2. UnderAll(r, D) = A \cup C /\ A \cap C = {} /\ Part(r, D) = Times(A, P, C, Q)
  <2> HIDE DEF V, W
  <2>1. UnderAll(r, V \cup W) = UnderAll(r, V) \cup UnderAll(r, W) BY <1>1, PartSplit
  <2>2. UnderAll(r, V) \cap UnderAll(r, W) = {} BY <1>1, PartSplit
  <2>3. Part(r, V \cup W) = Times(UnderAll(r, V), Part(r, V), UnderAll(r, W), Part(r, W))
    BY <1>1, PartSplit
  <2> HIDE DEF D
  <2> QED BY <1>1, <2>1, <2>2, <2>3
<1>3. Below[r.level] = e \cup UnderAll(r, D) BY RowsSplit
<1>4. FlatRows[r] = Times(e, O, UnderAll(r, D), Part(r, D)) BY RowsSplit
<1>5. r.level \notin C BY PartRows, <1>1
<1>6. HereLevels(r, L) = (L \cup e) \cup A /\ HereRows(r, L, X) = Times(L \cup e, Times(L, X, e, O), A, P)
  BY DEF HereLevels, HereRows, Base
<1> HIDE DEF D, V, W, e, O, A, P, C, Q
<1>7. Times(L, X, Below[r.level], FlatRows[r])
        = Times(L \cup e, Times(L, X, e, O), A \cup C, Times(A, P, C, Q))
  BY <1>2, <1>3, <1>4, TimesAssociates
<1>8. Times(L \cup e, Times(L, X, e, O), A \cup C, Times(A, P, C, Q))
        = Times((L \cup e) \cup A, Times(L \cup e, Times(L, X, e, O), A, P), C, Q)
  BY TimesAssociates
<1>9. L \cup Below[r.level] = HereLevels(r, L) \cup C BY <1>2, <1>3, <1>6
<1>10. L \cap Below[r.level] = {} => HereLevels(r, L) \cap C = {}
  BY <1>2, <1>3, <1>5, <1>6 DEF e
<1> QED BY <1>6, <1>7, <1>8, <1>9, <1>10 DEF C, Q, W

(* Carries: a key is on the level or on one below it. *)
LEMMA CarriesIs ==
  \A l \in Levels : Carries[l] <=> \E m \in Below[l] : Attributes[m] \cap keys # {}
<1> DEFINE Iter(f) == [level \in Levels |->
                         \/ Attributes[level] \cap keys # {}
                         \/ \E s \in DOMAIN Slots[level] : f[Slots[level][s]]]
           here(m) == Attributes[m] \cap keys # {}
           f == [l \in Levels |-> \E m \in Below[l] : here(m)]
<1> HIDE DEF here
<1>1. f = Iter(f)
  <2>1. \A l \in Levels : (\E m \in Below[l] : here(m))
                            <=> here(l) \/ \E s \in DOMAIN Slots[l] : \E m \in Below[Slots[l][s]] : here(m)
    <3> SUFFICES ASSUME NEW l \in Levels
                 PROVE  (\E m \in Below[l] : here(m))
                          <=> here(l) \/ \E s \in DOMAIN Slots[l] : \E m \in Below[Slots[l][s]] : here(m)
      OBVIOUS
    <3>1. Below[l] = {l} \cup UNION {Below[Slots[l][s]] : s \in DOMAIN Slots[l]} BY BelowDef
    <3> QED BY <3>1
  <2>2. \A l \in Levels : \A s \in DOMAIN Slots[l] : Slots[l][s] \in Levels BY TreeFacts
  <2>3. \A l \in Levels : f[l] = (here(l) \/ \E s \in DOMAIN Slots[l] : f[Slots[l][s]])
    <3> SUFFICES ASSUME NEW l \in Levels
                 PROVE  f[l] = (here(l) \/ \E s \in DOMAIN Slots[l] : f[Slots[l][s]])
      OBVIOUS
    <3>1. \A s \in DOMAIN Slots[l] : f[Slots[l][s]] = \E m \in Below[Slots[l][s]] : here(m) BY <2>2
    <3>2. f[l] = \E m \in Below[l] : here(m) OBVIOUS
    <3> HIDE DEF f
    <3> QED BY <2>1, <3>1, <3>2
  <2>4. f = [l \in Levels |-> f[l]] OBVIOUS
  <2> HIDE DEF f
  <2>5. f = [l \in Levels |-> here(l) \/ \E s \in DOMAIN Slots[l] : f[Slots[l][s]]] BY <2>3, <2>4
  <2> QED BY <2>5 DEF here
<1>2. Carries = CHOOSE g : g = Iter(g) BY DEF Carries
<1>3. Carries = Iter(Carries)
  <2> HIDE DEF Iter
  <2> QED BY <1>1, <1>2
<1>4. \A l \in Levels : Carries[l] <=> here(l) \/ \E s \in DOMAIN Slots[l] : Carries[Slots[l][s]]
  BY <1>3 DEF here
<1> DEFINE S == {l \in Levels : Carries[l] <=> \E m \in Below[l] : here(m)}
<1>5. ASSUME NEW l \in Levels, \A s \in DOMAIN Slots[l] : Slots[l][s] \in S PROVE l \in S
  <2>1. Below[l] = {l} \cup UNION {Below[Slots[l][s]] : s \in DOMAIN Slots[l]} BY BelowDef
  <2>2. (\E m \in Below[l] : here(m))
          <=> here(l) \/ \E s \in DOMAIN Slots[l] : \E m \in Below[Slots[l][s]] : here(m)
    BY <2>1
  <2>3. \A s \in DOMAIN Slots[l] : Carries[Slots[l][s]] <=> \E m \in Below[Slots[l][s]] : here(m)
    BY <1>5
  <2> QED BY <1>4, <2>2, <2>3
<1>6. S \in SUBSET Levels OBVIOUS
<1> HIDE DEF S
<1>7. S = Levels BY <1>5, <1>6, UpTheTree
<1> QED BY <1>7 DEF S, here

(* No key is below a slot that is not walked. *)
LEMMA WalkIs ==
  ASSUME NEW r \in Records
  PROVE  /\ Walk(r) \in SUBSET DOMAIN r.slots /\ Walk(r) \in SUBSET Nat
         /\ \A s \in DOMAIN r.slots \ Walk(r) : \A k \in keys : k \in Stored => LevelOf(k) \notin Under(r, s)
<1>1. DOMAIN r.slots = 1 .. Len(r.slots) /\ Len(r.slots) \in Nat /\ r.level \in Levels
      /\ DOMAIN r.slots = DOMAIN Slots[r.level]
  BY RecordFacts
<1>2. Walk(r) \in SUBSET DOMAIN r.slots BY DEF Walk
<1>3. Walk(r) \in SUBSET Nat BY <1>1, <1>2
<1>4. ASSUME NEW s \in DOMAIN r.slots \ Walk(r), NEW k \in keys, k \in Stored, LevelOf(k) \in Under(r, s)
      PROVE  FALSE
  <2>1. ~Carries[Slots[r.level][s]] BY <1>4 DEF Walk
  <2>2. Slots[r.level][s] \in Levels BY <1>1, TreeFacts
  <2>3. k \in Attributes[LevelOf(k)] BY <1>4, LevelOfIs
  <2>4. LevelOf(k) \in Below[Slots[r.level][s]] BY <1>4 DEF Under
  <2> QED BY <1>4, <2>1, <2>2, <2>3, <2>4, CarriesIs
<1> QED BY <1>2, <1>3, <1>4

(* With the keys on one path a record has at most one slot to walk. *)
LEMMA OneToWalk ==
  ASSUME KeysOnOnePath, NEW r \in Records, NEW s \in Walk(r), NEW t \in Walk(r) PROVE s = t
<1> DEFINE W == {u \in DOMAIN Slots[r.level] : Carries[Slots[r.level][u]]}
<1>1. DOMAIN r.slots = 1 .. Len(r.slots) /\ Len(r.slots) \in Nat /\ r.level \in Levels
      /\ DOMAIN r.slots = DOMAIN Slots[r.level]
  BY RecordFacts
<1>2. Walk(r) = W BY <1>1 DEF Walk
<1>3. IsFiniteSet(W)
  <2>1. IsFiniteSet(DOMAIN Slots[r.level]) BY <1>1, FS_Interval
  <2>2. W \in SUBSET DOMAIN Slots[r.level] OBVIOUS
  <2> HIDE DEF W
  <2> QED BY <2>1, <2>2, FS_Subset
<1>4. Cardinality(W) <= 1 BY <1>1 DEF KeysOnOnePath
<1> HIDE DEF W
<1> SUFFICES ASSUME s # t PROVE FALSE OBVIOUS
<1>5. s \in W /\ t \in W \ {s} BY <1>2
<1>6. /\ IsFiniteSet(W \ {s}) /\ Cardinality(W \ {s}) \in Nat
      /\ Cardinality(W) = Cardinality(W \ {s}) + 1
  BY <1>3, <1>5, Without
<1>7. Cardinality(W \ {s}) # 0 BY <1>5, <1>6, FS_EmptySet
<1> QED BY <1>4, <1>6, <1>7

(* Here makes a fold of one. *)
LEMMA HereType == ASSUME NEW r \in Records, NEW f \in Folds PROVE Here(r, f) \in Folds
<1>0. Len(r.slots) \in Nat /\ DOMAIN r.slots = 1 .. Len(r.slots) BY RecordFacts
<1>1. PICK h : /\ Here(r, f) = h[Len(r.slots)]
               /\ h[0] = Combine(f, Own(r))
               /\ \A n \in DOMAIN r.slots :
                    h[n] = IF n \in Walk(r) THEN h[n - 1] ELSE Combine(h[n - 1], SlotTotals(r.slots[n]))
  BY HereSteps
<1> DEFINE S == {n \in Nat : n <= Len(r.slots) => h[n] \in Folds}
<1>2. 0 \in S
  <2>1. Own(r) \in Folds BY StandingOwn DEF Standing
  <2>2. Combine(f, Own(r)) \in Folds BY <2>1, CombineType
  <2> QED BY <1>1, <2>2
<1>3. ASSUME NEW n \in S PROVE n + 1 \in S
  <2> SUFFICES ASSUME n + 1 <= Len(r.slots) PROVE h[n + 1] \in Folds OBVIOUS
  <2>1. n + 1 \in DOMAIN r.slots /\ (n + 1) - 1 = n BY <1>0
  <2>2. h[n] \in Folds BY <1>0
  <2>3. SlotTotals(r.slots[n + 1]) \in Folds
    <3>1. \A s \in DOMAIN r.slots : SlotTotals(r.slots[s]) \in Folds BY StandingSlot DEF Standing
    <3> QED BY <2>1, <3>1
  <2>4. Combine(h[n], SlotTotals(r.slots[n + 1])) \in Folds BY <2>2, <2>3, CombineType
  <2>5. h[n + 1] = IF n + 1 \in Walk(r) THEN h[n] ELSE Combine(h[n], SlotTotals(r.slots[n + 1]))
    BY <1>1, <2>1
  <2> QED BY <2>2, <2>4, <2>5
<1>4. S \in SUBSET Nat OBVIOUS
<1> HIDE DEF S
<1>5. S = Nat BY <1>2, <1>3, <1>4, Climb
<1>6. Len(r.slots) \in S /\ Len(r.slots) <= Len(r.slots) BY <1>0, <1>5
<1> QED BY <1>1, <1>6 DEF S

-----------------------------------------------------------------------------
(* What a call returns: finitely many groups, each with its fold. *)
IsMap(g) ==
  /\ g = [k \in DOMAIN g |-> g[k]] /\ DOMAIN g \in SUBSET [keys -> Values] /\ IsFiniteSet(DOMAIN g)
  /\ \A k \in DOMAIN g : g[k] \in Folds

GroupMaps == UNION {[D -> Folds] : D \in {E \in SUBSET [keys -> Values] : IsFiniteSet(E)}}

(* The maps from groups to folds are the members of one set. *)
LEMMA MapsAre == \A g : g \in GroupMaps <=> IsMap(g)
<1>1. ASSUME NEW g \in GroupMaps PROVE IsMap(g)
  <2>1. PICK D \in SUBSET [keys -> Values] : IsFiniteSet(D) /\ g \in [D -> Folds] BY DEF GroupMaps
  <2>2. DOMAIN g = D BY <2>1
  <2> QED BY <2>1, <2>2 DEF IsMap
<1>2. ASSUME NEW g, IsMap(g) PROVE g \in GroupMaps
  <2>1. g \in [DOMAIN g -> Folds] BY <1>2 DEF IsMap
  <2>2. DOMAIN g \in SUBSET [keys -> Values] /\ IsFiniteSet(DOMAIN g) BY <1>2 DEF IsMap
  <2> QED BY <2>1, <2>2 DEF GroupMaps
<1> QED BY <1>1, <1>2

(* The empty map is one of them. *)
LEMMA NoGroups == <<>> \in GroupMaps /\ DOMAIN <<>> = {}
<1>1. DOMAIN <<>> = {} OBVIOUS
<1>2. <<>> = [k \in {} |-> <<>>[k]] OBVIOUS
<1>3. IsMap(<<>>) BY <1>1, <1>2, FS_EmptySet DEF IsMap
<1> QED BY <1>1, <1>3, MapsAre

(* So is a map with one group. *)
LEMMA OneGroup ==
  ASSUME NEW k \in [keys -> Values], NEW v \in Folds
  PROVE  [x \in {k} |-> v] \in GroupMaps
<1> DEFINE g == [x \in {k} |-> v]
<1>2. DOMAIN g = {k} /\ g[k] = v OBVIOUS
<1>3. IsFiniteSet({k}) BY FS_Singleton
<1>4. g = [x \in DOMAIN g |-> g[x]] OBVIOUS
<1> HIDE DEF g
<1>5. IsMap(g) BY <1>2, <1>3, <1>4 DEF IsMap
<1> QED BY <1>2, <1>5, MapsAre DEF g

(* A family of maps. *)
Family(added, I) == IsFiniteSet(I) /\ DOMAIN added = I /\ \A x \in I : added[x] \in GroupMaps

(* So is what a family of them is gathered into. *)
LEMMA GatheredType ==
  ASSUME NEW added, NEW I, Family(added, I) PROVE Gathered(added) \in GroupMaps
<1> DEFINE D == UNION {DOMAIN added[x] : x \in DOMAIN added}
           J(row) == {y \in DOMAIN added : row \in DOMAIN added[y]}
           F(row) == [x \in J(row) |-> added[x][row]]
<1>1. IsFiniteSet(I) /\ DOMAIN added = I /\ \A x \in I : IsMap(added[x]) BY MapsAre DEF Family
<1>2. D \in SUBSET [keys -> Values] BY <1>1 DEF IsMap
<1>3. IsFiniteSet(D)
  <2> DEFINE P == [x \in I |-> DOMAIN added[x]]
  <2>1. \A x \in I : IsFiniteSet(P[x]) BY <1>1 DEF IsMap
  <2>2. D = UNION {P[x] : x \in I} BY <1>1
  <2> HIDE DEF P, D
  <2>3. IsFiniteSet(UNION {P[x] : x \in I}) BY <1>1, <2>1, FiniteFamily
  <2> QED BY <2>2, <2>3
<1>4. ASSUME NEW row \in D PROVE Alternatives(EmptyGroup, F(row)) \in Folds
  <2> DEFINE H == J(row)
             G == F(row)
  <2>1. H \in SUBSET I BY <1>1
  <2>2. IsFiniteSet(H)
    <3> HIDE DEF H
    <3> QED BY <1>1, <2>1, FS_Subset
  <2>3. G \in [H -> Folds] BY <1>1 DEF IsMap
  <2> HIDE DEF G, H
  <2>4. Alternatives(Nothing, G) \in Folds BY <2>2, <2>3, NothingIs, AlternativesType
  <2> QED BY <2>4 DEF G, EmptyGroup
<1> DEFINE g == Gathered(added)
<1>5. g = [row \in D |-> Alternatives(EmptyGroup, F(row))] BY DEF Gathered
<1>6. DOMAIN g = D /\ \A row \in D : g[row] \in Folds BY <1>4, <1>5
<1>7. g = [row \in DOMAIN g |-> g[row]] BY <1>5
<1> HIDE DEF g, D
<1>8. IsMap(g) BY <1>2, <1>3, <1>6, <1>7 DEF IsMap
<1> QED BY <1>8, MapsAre DEF g

(* The call that a record's walk makes. *)
CallOf(record, row, incoming) ==
  [record |-> record, walk |-> Walk(record), row |-> Fixed(record, row), incoming |-> Here(record, incoming)]

(* Fixing the record's keys leaves a row of values. *)
LEMMA FixedType ==
  ASSUME NEW r \in Records, NEW row \in [keys -> Values] PROVE Fixed(r, row) \in [keys -> Values]
<1>1. \A k \in keys : Holds(r, k) => r.value[k] \in Values BY RecordFacts DEF Holds
<1> QED BY <1>1 DEF Fixed

(* DescendBy returns a map if the call it makes does. *)
LEMMA DescendType ==
  ASSUME NEW f, NEW r \in Records, NEW row \in [keys -> Values], NEW incoming \in Folds,
         Walk(r) # {} => f[CallOf(r, row, incoming)] \in GroupMaps
  PROVE  DescendBy(f, r, row, incoming) \in GroupMaps
<1> DEFINE here == Here(r, incoming)
<1>1. here \in Folds BY HereType
<1>2. DescendBy(f, r, row, incoming)
        = IF incoming.count = 0 \/ SubtreeSize[r] = 0 \/ here.count = 0 THEN <<>>
          ELSE IF Walk(r) = {} THEN [fixed \in {Fixed(r, row)} |-> Alternatives(EmptyGroup, <<here>>)]
          ELSE f[CallOf(r, row, incoming)]
  BY DEF DescendBy, CallOf
<1>3. [fixed \in {Fixed(r, row)} |-> Alternatives(EmptyGroup, <<here>>)] \in GroupMaps
  <2> DEFINE F == <<here>>
  <2>1. F \in [{1} -> Folds] /\ IsFiniteSet({1})
    <3>1. F = [n \in 1 .. 1 |-> here] OBVIOUS
    <3>2. 1 .. 1 = {1} OBVIOUS
    <3> HIDE DEF F, here
    <3>3. F \in [1 .. 1 -> Folds] BY <1>1, <3>1
    <3> QED BY <3>2, <3>3, FS_Singleton
  <2> HIDE DEF F
  <2>2. Alternatives(Nothing, F) \in Folds BY <2>1, NothingIs, AlternativesType
  <2>3. Fixed(r, row) \in [keys -> Values] BY FixedType
  <2> QED BY <2>2, <2>3, OneGroup DEF EmptyGroup, F
<1> HIDE DEF here
<1> QED BY <1>2, <1>3, NoGroups

(* A proper part of a finite set is smaller. *)
LEMMA Fewer ==
  ASSUME NEW B, IsFiniteSet(B), NEW A \in SUBSET B, NEW x \in B \ A
  PROVE  /\ IsFiniteSet(A) /\ Cardinality(A) \in Nat /\ Cardinality(B) \in Nat
         /\ Cardinality(A) < Cardinality(B)
<1>1. /\ IsFiniteSet(B \ {x}) /\ Cardinality(B) \in Nat /\ Cardinality(B \ {x}) \in Nat
      /\ Cardinality(B) = Cardinality(B \ {x}) + 1
  BY Without
<1>2. A \in SUBSET (B \ {x}) OBVIOUS
<1>3. IsFiniteSet(A) /\ Cardinality(A) <= Cardinality(B \ {x}) BY <1>1, <1>2, FS_Subset
<1>4. Cardinality(A) \in Nat BY <1>3, FS_CardinalityType
<1> QED BY <1>1, <1>3, <1>4

-----------------------------------------------------------------------------
(* A call of Cross, the slot it takes and the slots it leaves. *)
FirstOf(call) == Min(call.walk)
SlotOf(call)  == call.record.slots[Min(call.walk)]
RestOf(call)  == call.walk \ {Min(call.walk)}

(* The levels that are left; there are fewer of them in each nested call.  *)
LevelsOf(call) == UnderAll(call.record, call.walk)
CallRank == [call \in Calls |-> Cardinality(LevelsOf(call))]

(* What is known of a call. *)
LEMMA CallFacts ==
  ASSUME NEW call \in Calls
  PROVE  /\ call.record \in Records /\ call.walk \in SUBSET DOMAIN call.record.slots
         /\ call.row \in [keys -> Values] /\ call.incoming \in Folds
         /\ FirstOf(call) \in call.walk /\ FirstOf(call) \in DOMAIN call.record.slots
         /\ RestOf(call) \in SUBSET call.walk /\ RestOf(call) \in SUBSET Nat
         /\ SlotOf(call) = call.record.slots[FirstOf(call)]
         /\ SlotOf(call) \in SUBSET Records /\ IsFiniteSet(SlotOf(call))
<1>1. /\ call.record \in Records /\ call.walk \in SUBSET Nat /\ call.walk # {}
      /\ call.row \in [keys -> Values] /\ call.incoming \in Folds
      /\ call.walk \subseteq DOMAIN call.record.slots
  BY DEF Calls
<1>2. FirstOf(call) \in call.walk
  <2>1. PICK n \in call.walk : \A m \in call.walk : n <= m BY <1>1, LeastOf
  <2> QED BY <2>1 DEF FirstOf, Min
<1>3. SlotOf(call) = call.record.slots[FirstOf(call)] BY DEF SlotOf, FirstOf
<1>4. SlotOf(call) \in SUBSET Records /\ IsFiniteSet(SlotOf(call)) BY <1>1, <1>2, <1>3, RecordFacts
<1> QED BY <1>1, <1>2, <1>3, <1>4 DEF RestOf

(* The levels below some slots are at most all of them. *)
LEMMA LevelsFacts ==
  ASSUME NEW r \in Records, NEW W \in SUBSET DOMAIN r.slots
  PROVE  UnderAll(r, W) \in SUBSET Levels /\ IsFiniteSet(UnderAll(r, W))
         /\ Cardinality(UnderAll(r, W)) \in 0 .. N
<1>1. UnderAll(r, W) \in SUBSET Levels BY PartRows
<1>2. IsFiniteSet(Levels) /\ Cardinality(Levels) = N /\ N \in Nat BY TreeFacts, FS_Interval
<1>3. IsFiniteSet(UnderAll(r, W)) /\ Cardinality(UnderAll(r, W)) <= N BY <1>1, <1>2, FS_Subset
<1>4. Cardinality(UnderAll(r, W)) \in Nat BY <1>3, FS_CardinalityType
<1> QED BY <1>1, <1>2, <1>3, <1>4

(* So the rank of a call is bounded. *)
LEMMA CallRankType == CallRank \in [Calls -> 0 .. N]
<1>1. \A call \in Calls : Cardinality(LevelsOf(call)) \in 0 .. N
  <2> SUFFICES ASSUME NEW call \in Calls PROVE Cardinality(LevelsOf(call)) \in 0 .. N OBVIOUS
  <2>1. call.record \in Records /\ call.walk \in SUBSET DOMAIN call.record.slots BY CallFacts
  <2> QED BY <2>1, LevelsFacts DEF LevelsOf
<1> QED BY <1>1 DEF CallRank

(* The call for the slots that are left. *)
RestCall(call, row, incoming) ==
  [record |-> call.record, walk |-> RestOf(call), row |-> row, incoming |-> incoming]

(* The call for the slots left is of lower rank, *)
LEMMA RestCallIs ==
  ASSUME NEW call \in Calls, RestOf(call) # {}, NEW row \in [keys -> Values], NEW incoming \in Folds
  PROVE  /\ RestCall(call, row, incoming) \in Calls
         /\ CallRank[RestCall(call, row, incoming)] < CallRank[call]
<1> DEFINE c == RestCall(call, row, incoming)
           s == FirstOf(call)
           r == call.record
           A == UnderAll(r, RestOf(call))
           B == UnderAll(r, call.walk)
<1>1. /\ r \in Records /\ call.walk \in SUBSET DOMAIN r.slots
      /\ s \in call.walk /\ s \in DOMAIN r.slots
      /\ RestOf(call) = call.walk \ {s} /\ RestOf(call) \in SUBSET Nat
  BY CallFacts DEF RestOf, FirstOf
<1>2. c \in Calls
  <2>1. RestOf(call) \in (SUBSET Nat) \ {{}} /\ RestOf(call) \subseteq DOMAIN r.slots BY <1>1
  <2> HIDE DEF r
  <2> QED BY <1>1, <2>1 DEF Calls, RestCall, r
<1>3. IsFiniteSet(B) BY <1>1, LevelsFacts
<1>4. \E x \in B \ A : TRUE
  <2>1. Slots[r.level][s] \in Under(r, s)
    <3>1. r.level \in Levels /\ s \in DOMAIN Slots[r.level] BY <1>1, RecordFacts
    <3>2. Slots[r.level][s] \in Levels BY <3>1, TreeFacts
    <3> QED BY <3>2, BelowSelf DEF Under
  <2>2. Under(r, s) \cap A = {}
    <3> HIDE DEF s, r
    <3>1. Under(r, s) \cap UnderAll(r, call.walk \ {s}) = {} BY <1>1, PartMore
    <3> QED BY <1>1, <3>1
  <2>3. Under(r, s) \subseteq B BY <1>1 DEF UnderAll
  <2> QED BY <2>1, <2>2, <2>3
<1>5. A \in SUBSET B BY <1>1 DEF UnderAll
<1>6. c.record = r /\ c.walk = RestOf(call) BY DEF RestCall
<1>7. Cardinality(A) < Cardinality(B)
  <2> HIDE DEF A, B
  <2>1. PICK x \in B \ A : TRUE BY <1>4
  <2> QED BY <1>3, <1>5, <2>1, Fewer
<1> HIDE DEF c
<1>8. CallRank[c] = Cardinality(A) /\ CallRank[call] = Cardinality(B)
  BY <1>2, <1>6 DEF CallRank, LevelsOf
<1> QED BY <1>2, <1>7, <1>8 DEF c

(* and so is the call for a child. *)
LEMMA ChildCallIs ==
  ASSUME NEW call \in Calls, NEW child \in SlotOf(call), Walk(child) # {},
         NEW row \in [keys -> Values], NEW incoming \in Folds
  PROVE  /\ CallOf(child, row, incoming) \in Calls
         /\ CallRank[CallOf(child, row, incoming)] < CallRank[call]
<1> DEFINE c == CallOf(child, row, incoming)
           s == FirstOf(call)
           r == call.record
           A == UnderAll(child, Walk(child))
           B == UnderAll(r, call.walk)
<1>1. /\ r \in Records /\ call.walk \in SUBSET DOMAIN r.slots
      /\ s \in call.walk /\ s \in DOMAIN r.slots /\ child \in r.slots[s] /\ child \in Records
  BY CallFacts
<1>2. Walk(child) \in SUBSET DOMAIN child.slots /\ Walk(child) \in SUBSET Nat BY <1>1, WalkIs
<1>3. c.record = child /\ c.walk = Walk(child) BY DEF CallOf
<1>4. c \in Calls
  <2>1. Fixed(child, row) \in [keys -> Values] BY <1>1, FixedType
  <2>2. Here(child, incoming) \in Folds BY <1>1, HereType
  <2> QED BY <1>1, <1>2, <2>1, <2>2 DEF Calls, CallOf
<1>5. IsFiniteSet(B) BY <1>1, LevelsFacts
<1>6. Below[child.level] = Under(r, s) BY <1>1, UnderFacts
<1>7. A \subseteq Below[child.level] /\ child.level \notin A /\ child.level \in Below[child.level]
  <2>1. \A t \in Walk(child) : Under(child, t) \subseteq Below[child.level] /\ child.level \notin Under(child, t)
    BY <1>1, <1>2, UnderFacts
  <2>2. child.level \in Below[child.level] BY <1>1, RecordFacts, BelowSelf
  <2> QED BY <2>1, <2>2 DEF UnderAll
<1>8. Under(r, s) \subseteq B BY <1>1 DEF UnderAll
<1>9. A \in SUBSET B /\ child.level \in B \ A BY <1>6, <1>7, <1>8
<1>10. Cardinality(A) < Cardinality(B)
  <2> HIDE DEF A, B
  <2> QED BY <1>5, <1>9, Fewer
<1> HIDE DEF c
<1>11. CallRank[c] = Cardinality(A) /\ CallRank[call] = Cardinality(B)
  BY <1>3, <1>4 DEF CallRank, LevelsOf
<1> QED BY <1>4, <1>10, <1>11 DEF c

(* What Cross computes for a call from what f returns for others. *)
Onwards(f, call, nested) ==
  Gathered([merged \in DOMAIN nested |->
              f[RestCall(call, merged, Combine(call.incoming, nested[merged]))]])
Into(f, call, child) ==
  IF RestOf(call) = {} THEN DescendBy(f, child, call.row, call.incoming)
                       ELSE Onwards(f, call, DescendBy(f, child, call.row, NewFold))
CrossText(f, call) ==
  IF RestOf(call) = {}
  THEN Gathered([child \in SlotOf(call) |-> DescendBy(f, child, call.row, call.incoming)])
  ELSE Gathered([child \in SlotOf(call) |-> Onwards(f, call, DescendBy(f, child, call.row, NewFold))])
CrossBody(f, call) == Gathered([child \in SlotOf(call) |-> Into(f, call, child)])

(* f has what the calls nested in this one need. *)
Ready(f, call) == \A c \in Calls : CallRank[c] < CallRank[call] => f[c] \in GroupMaps

(* The walk of a child returns a map, *)
LEMMA ReadyDescend ==
  ASSUME NEW f, NEW call \in Calls, Ready(f, call), NEW child \in SlotOf(call),
         NEW incoming \in Folds
  PROVE  DescendBy(f, child, call.row, incoming) \in GroupMaps
<1>1. child \in Records /\ call.row \in [keys -> Values] BY CallFacts
<1>2. Walk(child) # {} => f[CallOf(child, call.row, incoming)] \in GroupMaps
  <2> SUFFICES ASSUME Walk(child) # {} PROVE f[CallOf(child, call.row, incoming)] \in GroupMaps OBVIOUS
  <2>1. /\ CallOf(child, call.row, incoming) \in Calls
        /\ CallRank[CallOf(child, call.row, incoming)] < CallRank[call]
    BY <1>1, ChildCallIs
  <2> QED BY <2>1 DEF Ready
<1> QED BY <1>1, <1>2, DescendType

(* carrying it into the slots left does, *)
LEMMA ReadyOnwards ==
  ASSUME NEW f, NEW call \in Calls, Ready(f, call), RestOf(call) # {}, NEW nested \in GroupMaps
  PROVE  Onwards(f, call, nested) \in GroupMaps
<1> DEFINE D == DOMAIN nested
           F == [merged \in D |-> f[RestCall(call, merged, Combine(call.incoming, nested[merged]))]]
<1>1. IsMap(nested) BY MapsAre
<1>2. D \in SUBSET [keys -> Values] /\ IsFiniteSet(D) /\ \A k \in D : nested[k] \in Folds
  BY <1>1 DEF IsMap
<1>3. ASSUME NEW k \in D PROVE F[k] \in GroupMaps
  <2>1. Combine(call.incoming, nested[k]) \in Folds BY <1>2, CallFacts, CombineType
  <2>2. k \in [keys -> Values] BY <1>2
  <2> DEFINE c == RestCall(call, k, Combine(call.incoming, nested[k]))
  <2>3. c \in Calls /\ CallRank[c] < CallRank[call] BY <2>1, <2>2, RestCallIs
  <2>4. F[k] = f[c] OBVIOUS
  <2> HIDE DEF c
  <2> QED BY <2>3, <2>4 DEF Ready
<1>4. DOMAIN F = D OBVIOUS
<1>5. \A k \in D : F[k] \in GroupMaps BY <1>3
<1> HIDE DEF F, D
<1>6. Family(F, D) BY <1>2, <1>4, <1>5 DEF Family
<1>7. Gathered(F) \in GroupMaps BY <1>6, GatheredType
<1> QED BY <1>7 DEF Onwards, F, D

(* either way to deal with a child does, *)
LEMMA ReadyInto ==
  ASSUME NEW f, NEW call \in Calls, Ready(f, call), NEW child \in SlotOf(call)
  PROVE  Into(f, call, child) \in GroupMaps
<1>1. CASE RestOf(call) = {}
  <2>1. call.incoming \in Folds BY CallFacts
  <2>2. DescendBy(f, child, call.row, call.incoming) \in GroupMaps BY <2>1, ReadyDescend
  <2> QED BY <1>1, <2>2 DEF Into
<1>2. CASE RestOf(call) # {}
  <2>1. NewFold \in Folds BY NothingIs
  <2>2. DescendBy(f, child, call.row, NewFold) \in GroupMaps BY <2>1, ReadyDescend
  <2>3. Onwards(f, call, DescendBy(f, child, call.row, NewFold)) \in GroupMaps
    BY <1>2, <2>2, ReadyOnwards
  <2> QED BY <1>2, <2>3 DEF Into
<1> QED BY <1>1, <1>2

(* and so does the call. *)
LEMMA CrossBodyType ==
  ASSUME NEW f, NEW call \in Calls, Ready(f, call) PROVE CrossBody(f, call) \in GroupMaps
<1> DEFINE I == SlotOf(call)
           F == [child \in I |-> Into(f, call, child)]
<1>1. IsFiniteSet(I) BY CallFacts
<1>2. DOMAIN F = I /\ \A child \in I : F[child] \in GroupMaps BY ReadyInto
<1> HIDE DEF I, F
<1>3. Family(F, I) BY <1>1, <1>2 DEF Family
<1>4. Gathered(F) \in GroupMaps BY <1>3, GatheredType
<1> QED BY <1>4 DEF CrossBody, F, I

(* It looks at no other calls. *)
Alike(f, g, call) == \A c \in Calls : CallRank[c] < CallRank[call] => f[c] = g[c]

(* The walk of a child makes no other calls than those nested in this one, *)
LEMMA AlikeDescend ==
  ASSUME NEW f, NEW g, NEW call \in Calls, Alike(f, g, call), NEW child \in SlotOf(call),
         NEW incoming \in Folds
  PROVE  DescendBy(f, child, call.row, incoming) = DescendBy(g, child, call.row, incoming)
<1>1. Walk(child) # {} => f[CallOf(child, call.row, incoming)] = g[CallOf(child, call.row, incoming)]
  <2> SUFFICES ASSUME Walk(child) # {}
               PROVE  f[CallOf(child, call.row, incoming)] = g[CallOf(child, call.row, incoming)]
    OBVIOUS
  <2>1. /\ CallOf(child, call.row, incoming) \in Calls
        /\ CallRank[CallOf(child, call.row, incoming)] < CallRank[call]
    BY CallFacts, ChildCallIs
  <2> QED BY <2>1 DEF Alike
<1> QED BY <1>1 DEF DescendBy, CallOf

(* nor does carrying its groups into the slots left, *)
LEMMA AlikeOnwards ==
  ASSUME NEW f, NEW g, NEW call \in Calls, Alike(f, g, call), RestOf(call) # {},
         NEW nested \in GroupMaps
  PROVE  Onwards(f, call, nested) = Onwards(g, call, nested)
<1> DEFINE D == DOMAIN nested
           next(k) == RestCall(call, k, Combine(call.incoming, nested[k]))
<1>1. IsMap(nested) BY MapsAre
<1>2. D \in SUBSET [keys -> Values] /\ \A k \in D : nested[k] \in Folds BY <1>1 DEF IsMap
<1>3. ASSUME NEW k \in D PROVE f[next(k)] = g[next(k)]
  <2>1. Combine(call.incoming, nested[k]) \in Folds BY <1>2, CallFacts, CombineType
  <2>2. k \in [keys -> Values] BY <1>2
  <2>3. next(k) \in Calls /\ CallRank[next(k)] < CallRank[call] BY <2>1, <2>2, RestCallIs
  <2> HIDE DEF next
  <2> QED BY <2>3 DEF Alike
<1>4. [k \in D |-> f[next(k)]] = [k \in D |-> g[next(k)]]
  <2> HIDE DEF next, D
  <2> QED BY <1>3
<1> QED BY <1>4 DEF Onwards

(* so the call depends on those only. *)
LEMMA CrossBodySame ==
  ASSUME NEW f, NEW g, NEW call \in Calls, Alike(f, g, call), Ready(f, call)
  PROVE  CrossBody(f, call) = CrossBody(g, call)
<1>1. ASSUME NEW child \in SlotOf(call) PROVE Into(f, call, child) = Into(g, call, child)
  <2>1. CASE RestOf(call) = {}
    <3>1. call.incoming \in Folds BY CallFacts
    <3>2. DescendBy(f, child, call.row, call.incoming) = DescendBy(g, child, call.row, call.incoming)
      BY <3>1, AlikeDescend
    <3> QED BY <2>1, <3>2 DEF Into
  <2>2. CASE RestOf(call) # {}
    <3> DEFINE n == DescendBy(f, child, call.row, NewFold)
    <3>1. NewFold \in Folds BY NothingIs
    <3>2. n = DescendBy(g, child, call.row, NewFold) BY <3>1, AlikeDescend
    <3>3. n \in GroupMaps BY <3>1, ReadyDescend
    <3> HIDE DEF n
    <3>4. Onwards(f, call, n) = Onwards(g, call, n) BY <2>2, <3>3, AlikeOnwards
    <3> QED BY <2>2, <3>2, <3>4 DEF Into, n
  <2> QED BY <2>1, <2>2
<1>2. [child \in SlotOf(call) |-> Into(f, call, child)] = [child \in SlotOf(call) |-> Into(g, call, child)]
  BY <1>1
<1> QED BY <1>2 DEF CrossBody

(* The text of Cross says the same. *)
LEMMA TextIs == ASSUME NEW f, NEW call PROVE CrossText(f, call) = CrossBody(f, call)
<1>1. CASE RestOf(call) = {}
  <2>1. [child \in SlotOf(call) |-> Into(f, call, child)]
        = [child \in SlotOf(call) |-> DescendBy(f, child, call.row, call.incoming)]
    BY <1>1 DEF Into
  <2> QED BY <1>1, <2>1 DEF CrossText, CrossBody
<1>2. CASE RestOf(call) # {}
  <2>1. [child \in SlotOf(call) |-> Into(f, call, child)]
        = [child \in SlotOf(call) |-> Onwards(f, call, DescendBy(f, child, call.row, NewFold))]
    BY <1>2 DEF Into
  <2> QED BY <1>2, <2>1 DEF CrossText, CrossBody
<1> QED BY <1>1, <1>2

(* Cross satisfies its recursive definition, and returns maps. *)
LEMMA CrossIs ==
  \A call \in Calls : Cross[call] = CrossBody(Cross, call) /\ Cross[call] \in GroupMaps
<1> DEFINE V == GroupMaps
           G == [call \in Calls |-> [f \in [Calls -> V] |-> CrossBody(f, call)]]
           Iter(f) == [call \in Calls |-> CrossText(f, call)]
<1>0. \A f \in [Calls -> V] : \A call \in Calls : Ready(f, call) BY DEF Ready
<1>1. G \in [Calls -> [[Calls -> V] -> V]] BY <1>0, CrossBodyType
<1>2. \A call \in Calls : \A f, g \in [Calls -> V] :
        (\A c \in Calls : CallRank[c] < CallRank[call] => f[c] = g[c]) => G[call][f] = G[call][g]
  <2> SUFFICES ASSUME NEW call \in Calls, NEW f \in [Calls -> V], NEW g \in [Calls -> V],
                      \A c \in Calls : CallRank[c] < CallRank[call] => f[c] = g[c]
               PROVE  CrossBody(f, call) = CrossBody(g, call)
    OBVIOUS
  <2>1. Alike(f, g, call) BY DEF Alike
  <2> QED BY <1>0, <2>1, CrossBodySame
<1>3. PICK f \in [Calls -> V] : \A call \in Calls : f[call] = G[call][f]
  <2>1. <<>> \in V BY NoGroups
  <2>2. PICK v \in V : TRUE BY <2>1
  <2>3. N \in Nat BY TreeFacts
  <2> HIDE DEF G, V
  <2>4. Guarded(Calls, V, N, CallRank, G) BY <1>1, <1>2, <2>3, CallRankType DEF Guarded
  <2> QED BY <2>2, <2>4, Recursion
<1>4. f = Iter(f) BY <1>3, TextIs
<1>5. Cross = CHOOSE g : g = Iter(g)
  BY DEF Cross, CrossText, Onwards, RestCall, RestOf, SlotOf
<1>6. Cross = Iter(Cross)
  <2> HIDE DEF Iter
  <2> QED BY <1>4, <1>5
<1>7. \A call \in Calls : Cross[call] = CrossBody(Cross, call) BY <1>6, TextIs
<1> DEFINE S == {n \in Nat : \A call \in Calls : CallRank[call] <= n => Cross[call] = f[call]}
<1>8. ASSUME NEW call \in Calls, \A c \in Calls : CallRank[c] < CallRank[call] => Cross[c] = f[c]
      PROVE  Cross[call] = f[call]
  <2>1. Alike(f, Cross, call) BY <1>8 DEF Alike
  <2>2. Ready(f, call) BY <1>0
  <2>3. CrossBody(f, call) = CrossBody(Cross, call) BY <2>1, <2>2, CrossBodySame
  <2> QED BY <1>3, <1>7, <2>3
<1>9. \A call \in Calls : CallRank[call] \in Nat
  <2>1. N \in Nat BY TreeFacts
  <2> QED BY <2>1, CallRankType
<1>10. 0 \in S
  <2> SUFFICES ASSUME NEW call \in Calls, CallRank[call] <= 0 PROVE Cross[call] = f[call] OBVIOUS
  <2>1. \A c \in Calls : ~(CallRank[c] < CallRank[call]) BY <1>9
  <2> QED BY <1>8, <2>1
<1>11. ASSUME NEW n \in S PROVE n + 1 \in S
  <2> SUFFICES ASSUME NEW call \in Calls, CallRank[call] <= n + 1 PROVE Cross[call] = f[call] OBVIOUS
  <2>1. \A c \in Calls : CallRank[c] < CallRank[call] => CallRank[c] <= n BY <1>9
  <2> QED BY <1>8, <2>1
<1>12. S \in SUBSET Nat OBVIOUS
<1> HIDE DEF S
<1>13. S = Nat BY <1>10, <1>11, <1>12, Climb
<1>14. \A call \in Calls : Cross[call] = f[call]
  <2> SUFFICES ASSUME NEW call \in Calls PROVE Cross[call] = f[call] OBVIOUS
  <2>1. CallRank[call] \in S /\ CallRank[call] <= CallRank[call] BY <1>9, <1>13
  <2> QED BY <2>1 DEF S
<1> QED BY <1>7, <1>14

-----------------------------------------------------------------------------
(* The key of a row: what it carries on the levels of M, and what has been *)
(* fixed before.                                                           *)
Key(M, row, z) == [k \in keys |-> IF LevelOf(k) \in M THEN z[LevelOf(k)].record.value[k] ELSE row[k]]

With(Z, M, row, k) == {z \in Z : Key(M, row, z) = k}

(* The groups are those of the rows of Z. *)
Grouped(out, K, Z, M, row) ==
  /\ K \in SUBSET Levels /\ Z \in SUBSET RowsOver(K) /\ IsFiniteSet(Z)
  /\ DOMAIN out = {Key(M, row, z) : z \in Z}
  /\ \A k \in DOMAIN out : Standing(out[k], K, With(Z, M, row, k))

Groupings(added, I, P, K, M, row) ==
  /\ K \in SUBSET Levels /\ IsFiniteSet(I) /\ DOMAIN added = I
  /\ \A x \in I : Grouped(added[x], K, P[x], M, row)
  /\ \A x, y \in I : x # y => P[x] \cap P[y] = {}

(* A disjoint union of rows, gathered. *)
LEMMA GatheredIs ==
  ASSUME NEW added, NEW I, NEW P, NEW K, NEW M, NEW row, Groupings(added, I, P, K, M, row)
  PROVE  Grouped(Gathered(added), K, UNION {P[x] : x \in I}, M, row)
<1> DEFINE Z == UNION {P[x] : x \in I}
           out == Gathered(added)
<1>1. /\ K \in SUBSET Levels /\ IsFiniteSet(I) /\ DOMAIN added = I
      /\ \A x \in I : /\ P[x] \in SUBSET RowsOver(K) /\ IsFiniteSet(P[x])
                      /\ DOMAIN added[x] = {Key(M, row, z) : z \in P[x]}
                      /\ \A k \in DOMAIN added[x] : Standing(added[x][k], K, With(P[x], M, row, k))
      /\ \A x, y \in I : x # y => P[x] \cap P[y] = {}
  BY DEF Groupings, Grouped
<1>2. Z \in SUBSET RowsOver(K) /\ IsFiniteSet(Z)
  <2>1. IsFiniteSet(Z) BY <1>1, FiniteFamily
  <2> QED BY <1>1, <2>1
<1>3. DOMAIN out = {Key(M, row, z) : z \in Z}
  <2>1. DOMAIN out = UNION {DOMAIN added[x] : x \in I} BY <1>1 DEF Gathered
  <2> QED BY <1>1, <2>1
<1>4. ASSUME NEW k \in DOMAIN out PROVE Standing(out[k], K, With(Z, M, row, k))
  <2> DEFINE J == {y \in I : k \in DOMAIN added[y]}
             F == [x \in J |-> added[x][k]]
             Q == [x \in J |-> With(P[x], M, row, k)]
  <2>1. out[k] = Alternatives(Nothing, F) BY <1>1 DEF Gathered, EmptyGroup
  <2>2. IsFiniteSet(J)
    <3>1. J \in SUBSET I OBVIOUS
    <3> HIDE DEF J
    <3> QED BY <1>1, <3>1, FS_Subset
  <2>3. \A x \in J : Standing(F[x], K, Q[x]) BY <1>1
  <2>4. \A x, y \in J : x # y => Q[x] \cap Q[y] = {} BY <1>1 DEF With
  <2>5. UNION {Q[x] : x \in J} = With(Z, M, row, k)
    <3>1. ASSUME NEW z \in With(Z, M, row, k) PROVE z \in UNION {Q[x] : x \in J}
      <4>1. PICK x \in I : z \in P[x] BY DEF With
      <4>2. Key(M, row, z) = k BY DEF With
      <4>3. x \in J /\ z \in With(P[x], M, row, k) BY <1>1, <4>1, <4>2 DEF With
      <4> QED BY <4>3
    <3>2. ASSUME NEW x \in J, NEW z \in Q[x] PROVE z \in With(Z, M, row, k) BY DEF With
    <3> QED BY <3>1, <3>2
  <2>6. DOMAIN F = J /\ F = [x \in J |-> F[x]] OBVIOUS
  <2> HIDE DEF J, F, Q, Z
  <2>7. Branches(K, J, Q, F) BY <1>1, <2>2, <2>3, <2>4, <2>6 DEF Branches
  <2>8. Standing(Alternatives(Nothing, F), K, UNION {Q[x] : x \in J}) BY <2>7, StandingFamily
  <2> QED BY <2>1, <2>5, <2>8
<1> HIDE DEF Z, out
<1>5. Grouped(out, K, Z, M, row) BY <1>1, <1>2, <1>3, <1>4 DEF Grouped
<1> QED BY <1>5 DEF Z, out

(* The same keys, told in another way. *)
LEMMA GroupedSame ==
  ASSUME NEW out, NEW K, NEW Z, NEW M, NEW row, NEW M2, NEW row2,
         Grouped(out, K, Z, M, row), \A z \in Z : Key(M, row, z) = Key(M2, row2, z)
  PROVE  Grouped(out, K, Z, M2, row2)
<1>1. \A k : With(Z, M, row, k) = With(Z, M2, row2, k) BY DEF With
<1>2. {Key(M, row, z) : z \in Z} = {Key(M2, row2, z) : z \in Z} OBVIOUS
<1> QED BY <1>1, <1>2 DEF Grouped

(* No rows, no groups. *)
LEMMA GroupedNone ==
  ASSUME NEW K \in SUBSET Levels, NEW Z, Z = {}, NEW M, NEW row
  PROVE  Grouped(<<>>, K, Z, M, row)
<1>1. DOMAIN <<>> = {} BY NoGroups
<1>2. IsFiniteSet(Z) /\ Z \in SUBSET RowsOver(K) BY FS_EmptySet
<1>3. {Key(M, row, z) : z \in Z} = {} OBVIOUS
<1> QED BY <1>1, <1>2, <1>3 DEF Grouped

(* Rows that all have the same key are one group. *)
LEMMA GroupedOne ==
  ASSUME NEW f, NEW K, NEW Z, Standing(f, K, Z), Z # {}, NEW k, NEW M, NEW row,
         \A z \in Z : Key(M, row, z) = k
  PROVE  Grouped([x \in {k} |-> Alternatives(EmptyGroup, <<f>>)], K, Z, M, row)
<1> DEFINE F == <<f>>
           P == [x \in {1} |-> Z]
           out == [x \in {k} |-> Alternatives(EmptyGroup, F)]
<1>1. DOMAIN F = {1} /\ F[1] = f /\ F = [x \in {1} |-> F[x]]
  <2>1. F = [n \in 1 .. 1 |-> f] /\ 1 .. 1 = {1} OBVIOUS
  <2>2. F = [x \in {1} |-> f] BY <2>1
  <2> QED BY <2>2
<1>2. UNION {P[x] : x \in {1}} = Z OBVIOUS
<1>3. /\ K \in SUBSET Levels /\ Z \in SUBSET RowsOver(K) /\ IsFiniteSet(Z) BY DEF Standing
<1>4. Branches(K, {1}, P, F)
  <2>1. IsFiniteSet({1}) BY FS_Singleton
  <2>2. \A x \in {1} : Standing(F[x], K, P[x])
    <3>1. F[1] = f /\ P[1] = Z BY <1>1
    <3> HIDE DEF F, P
    <3> QED BY <3>1
  <2> HIDE DEF F, P
  <2> QED BY <1>1, <1>3, <2>1, <2>2 DEF Branches
<1> HIDE DEF F, P
<1>5. Standing(Alternatives(Nothing, F), K, Z)
  <2>1. PICK J : J = {1} OBVIOUS
  <2>2. Standing(Alternatives(Nothing, F), K, UNION {P[x] : x \in J}) BY <1>4, <2>1, StandingFamily
  <2> QED BY <1>2, <2>1, <2>2
<1>6. With(Z, M, row, k) = Z BY DEF With
<1>7. DOMAIN out = {Key(M, row, z) : z \in Z} OBVIOUS
<1>8. \A x \in DOMAIN out : Standing(out[x], K, With(Z, M, row, x)) BY <1>5, <1>6 DEF EmptyGroup
<1> HIDE DEF out
<1>9. Grouped(out, K, Z, M, row) BY <1>3, <1>7, <1>8 DEF Grouped
<1> QED BY <1>9 DEF out, F

-----------------------------------------------------------------------------
CrossesTo(call, L, X) ==
  Grouped(Cross[call], L \cup LevelsOf(call),
          Times(L, X, LevelsOf(call), Part(call.record, call.walk)), LevelsOf(call), call.row)

(* The call groups the rows its fold stands for, with those of its slots.  *)
CrossGood(call) ==
  (KeysOnOnePath => RestOf(call) = {}) =>
    \A L \in SUBSET Levels : \A X \in SUBSET RowsOver(L) :
      Standing(call.incoming, L, X) /\ L \cap LevelsOf(call) = {} => CrossesTo(call, L, X)

DescendsTo(r, f, row, L, X) ==
  Grouped(DescendBy(Cross, r, row, f), L \cup Below[r.level],
          Times(L, X, Below[r.level], FlatRows[r]), Below[r.level], row)

(* The rows below a record name it. *)
LEMMA RowsOfRecord ==
  ASSUME NEW r \in Records, NEW L, NEW X, NEW z \in Times(L, X, Below[r.level], FlatRows[r])
  PROVE  z[r.level].record = r
<1>1. r.level \in Below[r.level] BY RecordFacts, BelowSelf
<1>2. Restrict(z, Below[r.level]) \in FlatRows[r] BY DEF Times
<1>3. Restrict(z, Below[r.level])[r.level] \in Copies(r) BY <1>2, FlatRowsAre
<1>4. Restrict(z, Below[r.level])[r.level] = z[r.level] BY <1>1 DEF Restrict
<1> QED BY <1>3, <1>4, CopiesAre

(* What is fixed at a record, and what its walk will fix. *)
LEMMA KeyDescend ==
  ASSUME keys \subseteq Stored, NEW r \in Records, NEW z, z[r.level].record = r, NEW row
  PROVE  Key(UnderAll(r, Walk(r)), Fixed(r, row), z) = Key(Below[r.level], row, z)
<1> DEFINE U == UnderAll(r, Walk(r))
           at(k) == IF LevelOf(k) \in U THEN z[LevelOf(k)].record.value[k] ELSE Fixed(r, row)[k]
           to(k) == IF LevelOf(k) \in Below[r.level] THEN z[LevelOf(k)].record.value[k] ELSE row[k]
<1>1. ASSUME NEW k \in keys PROVE at(k) = to(k)
  <2> DEFINE l == LevelOf(k)
  <2>1. k \in Stored /\ l \in Levels /\ k \in Attributes[l] BY LevelOfIs
  <2>2. Holds(r, k) <=> l = r.level BY <2>1, RecordFacts, LevelOfIs DEF Holds
  <2>3. Fixed(r, row)[k] = IF l = r.level THEN r.value[k] ELSE row[k] BY <2>2 DEF Fixed
  <2>4. CASE l \in U
    <3>1. U \subseteq Below[r.level]
      <4>1. \A s \in Walk(r) : Under(r, s) \subseteq Below[r.level] BY WalkIs, UnderFacts
      <4> QED BY <4>1 DEF UnderAll
    <3> QED BY <2>4, <3>1
  <2>5. CASE l = r.level
    <3>1. r.level \in Below[r.level] BY RecordFacts, BelowSelf
    <3>2. r.level \notin U BY WalkIs, PartRows
    <3> HIDE DEF U
    <3> QED BY <2>3, <2>5, <3>1, <3>2
  <2>6. CASE l \notin U /\ l # r.level
    <3>1. l \notin Below[r.level]
      <4> SUFFICES ASSUME l \in Below[r.level] PROVE FALSE OBVIOUS
      <4>1. PICK s \in DOMAIN r.slots : l \in Under(r, s) BY <2>6, UnderSplit
      <4>2. s \notin Walk(r) BY <2>6, <4>1 DEF UnderAll
      <4> QED BY <2>1, <4>1, <4>2, WalkIs
    <3> HIDE DEF U
    <3> QED BY <2>3, <2>6, <3>1
  <2> QED BY <2>4, <2>5, <2>6
<1>2. [k \in keys |-> at(k)] = [k \in keys |-> to(k)]
  <2> HIDE DEF at, to
  <2> QED BY <1>1
<1> QED BY <1>2 DEF Key

(* A fold with the count zero stands for no row. *)
LEMMA NoRows ==
  ASSUME NEW f, NEW L, NEW X, Standing(f, L, X) PROVE f.count = 0 <=> X = {}
BY FS_EmptySet DEF Standing

(* The walk below a record groups its rows if the call it makes does. *)
LEMMA DescendStep ==
  ASSUME keys \subseteq Stored, NEW r \in Records, NEW f, NEW row \in [keys -> Values], NEW L, NEW X,
         Standing(f, L, X), L \cap Below[r.level] = {},
         Walk(r) # {} => CrossGood(CallOf(r, row, f))
  PROVE  DescendsTo(r, f, row, L, X)
<1> DEFINE M == Below[r.level]
           Z == Times(L, X, M, FlatRows[r])
           K == L \cup M
           h == Here(r, f)
           HL == HereLevels(r, L)
           H == HereRows(r, L, X)
           W == Walk(r)
           U == UnderAll(r, W)
           P == Part(r, W)
           c == CallOf(r, row, f)
           out == DescendBy(Cross, r, row, f)
<1>1. Standing(h, HL, H) BY HereIs
<1>2. K = HL \cup U /\ HL \cap U = {} /\ Z = Times(HL, H, U, P)
  <2>1. L \cup Below[r.level] = HereLevels(r, L) \cup UnderAll(r, Walk(r)) BY HereSplit
  <2>2. HereLevels(r, L) \cap UnderAll(r, Walk(r)) = {} BY HereSplit
  <2>3. Times(L, X, Below[r.level], FlatRows[r])
          = Times(HereLevels(r, L), HereRows(r, L, X), UnderAll(r, Walk(r)), Part(r, Walk(r)))
    BY HereSplit
  <2> QED BY <2>1, <2>2, <2>3
<1>3. K \in SUBSET Levels
  <2>1. M \in SUBSET Levels BY RecordFacts, BelowType
  <2> QED BY <2>1 DEF Standing
<1>4. \A z \in Z : Key(U, Fixed(r, row), z) = Key(M, row, z)
  <2>1. \A z \in Z : z[r.level].record = r BY RowsOfRecord
  <2> HIDE DEF Z
  <2> QED BY <2>1, KeyDescend
<1>5. out = IF f.count = 0 \/ SubtreeSize[r] = 0 \/ h.count = 0 THEN <<>>
            ELSE IF W = {} THEN [fixed \in {Fixed(r, row)} |-> Alternatives(EmptyGroup, <<h>>)]
            ELSE Cross[c]
  BY DEF DescendBy, CallOf
<1>6. CASE f.count = 0 \/ SubtreeSize[r] = 0 \/ h.count = 0
  <2>1. Z = {}
    <3>1. CASE f.count = 0
      <4>1. X = {} BY <3>1, NoRows
      <4> QED BY <4>1, TimesNone
    <3>2. CASE SubtreeSize[r] = 0
      <4>1. FlatRows[r] = {} BY <3>2, FlatFinite
      <4> QED BY <4>1, TimesNone
    <3>3. CASE h.count = 0
      <4> HIDE DEF h, HL, H, U, P, Z
      <4>1. H = {} BY <1>1, <3>3, NoRows
      <4>2. Times(HL, H, U, P) = {} BY <4>1, TimesNone
      <4> QED BY <1>2, <4>2
    <3> QED BY <1>6, <3>1, <3>2, <3>3
  <2> HIDE DEF Z, K, M, h
  <2>2. Grouped(<<>>, K, Z, M, row) BY <1>3, <2>1, GroupedNone
  <2>3. out = <<>> BY <1>5, <1>6
  <2> QED BY <2>2, <2>3 DEF DescendsTo, Z, K, M, out
<1>7. CASE f.count # 0 /\ SubtreeSize[r] # 0 /\ h.count # 0 /\ W = {}
  <2>1. U = {} /\ P = {EmptyRow} BY <1>7, PartNone
  <2>2. H \in SUBSET RowsOver(HL) BY <1>1 DEF Standing
  <2>4. \A z \in Z : Key(M, row, z) = Fixed(r, row)
    <3>1. \A z : Key(U, Fixed(r, row), z) = Fixed(r, row) BY <2>1 DEF Key, Fixed
    <3> HIDE DEF Z, U, M
    <3> QED BY <1>4, <3>1
  <2>5. out = [fixed \in {Fixed(r, row)} |-> Alternatives(EmptyGroup, <<h>>)] BY <1>5, <1>7
  <2> HIDE DEF HL, H, U, P, Z, K, h, W, out, M
  <2>6. Z = H /\ K = HL
    <3>1. Times(HL, H, {}, {EmptyRow}) = H BY <2>2, TimesUnit
    <3> QED BY <1>2, <2>1, <3>1
  <2>7. H # {} BY <1>1, <1>7, NoRows
  <2> DEFINE key == Fixed(r, row)
  <2> HIDE DEF key
  <2>8. \A z \in H : Key(M, row, z) = key BY <2>4, <2>6 DEF key
  <2>9. Grouped([x \in {key} |-> Alternatives(EmptyGroup, <<h>>)], HL, H, M, row)
    BY <1>1, <2>7, <2>8, GroupedOne
  <2> QED BY <2>5, <2>6, <2>9 DEF DescendsTo, out, K, Z, M, key
<1>8. CASE f.count # 0 /\ SubtreeSize[r] # 0 /\ h.count # 0 /\ W # {}
  <2>1. c.record = r /\ c.walk = W /\ c.row = Fixed(r, row) /\ c.incoming = h BY DEF CallOf
  <2>2. KeysOnOnePath => RestOf(c) = {}
    <3> SUFFICES ASSUME KeysOnOnePath PROVE RestOf(c) = {} OBVIOUS
    <3>1. W \in SUBSET Nat BY WalkIs
    <3>2. Min(W) \in W
      <4>1. PICK n \in W : \A m \in W : n <= m BY <1>8, <3>1, LeastOf
      <4> HIDE DEF W
      <4> QED BY <4>1 DEF Min
    <3>3. \A s \in W : s = Min(W) BY <3>2, OneToWalk
    <3> HIDE DEF c, W
    <3> QED BY <2>1, <3>3 DEF RestOf
  <2>3. CrossGood(c) BY <1>8
  <2>4. LevelsOf(c) = U BY <2>1 DEF LevelsOf
  <2>5. out = Cross[c] BY <1>5, <1>8
  <2>6. HL \in SUBSET Levels /\ H \in SUBSET RowsOver(HL) BY <1>1 DEF Standing
  <2>7. Part(c.record, c.walk) = P BY <2>1
  <2> HIDE DEF c, HL, H, U, P, Z, K, h, W, out, M
  <2>8. CrossesTo(c, HL, H) BY <1>1, <1>2, <2>1, <2>2, <2>3, <2>4, <2>6 DEF CrossGood
  <2>9. Grouped(out, K, Z, U, Fixed(r, row)) BY <1>2, <2>1, <2>4, <2>5, <2>7, <2>8 DEF CrossesTo
  <2> DEFINE fixed == Fixed(r, row)
  <2> HIDE DEF fixed
  <2>10. Grouped(out, K, Z, M, row)
    <3>1. Grouped(out, K, Z, U, fixed) /\ \A z \in Z : Key(U, fixed, z) = Key(M, row, z)
      BY <1>4, <2>9 DEF fixed
    <3> QED BY <3>1, GroupedSame
  <2> QED BY <2>10 DEF DescendsTo, out, K, Z, M
<1> QED BY <1>6, <1>7, <1>8

(* A product with a union is the union of the products, *)
LEMMA TimesOver ==
  ASSUME NEW L, NEW X, NEW M, NEW I, NEW F
  PROVE  UNION {Times(L, X, M, F[c]) : c \in I} = Times(L, X, M, UNION {F[c] : c \in I})
BY DEF Times

(* on either side, *)
LEMMA OverTimes ==
  ASSUME NEW L, NEW Y, NEW M, NEW I, NEW F
  PROVE  UNION {Times(L, F[c], M, Y) : c \in I} = Times(L, UNION {F[c] : c \in I}, M, Y)
BY DEF Times

(* and products of disjoint sets are disjoint. *)
LEMMA TimesApart ==
  ASSUME NEW L, NEW X, NEW Y, NEW M, NEW A, NEW B, A \cap B = {}
  PROVE  /\ Times(L, X, M, A) \cap Times(L, X, M, B) = {}
         /\ Times(L, A, M, Y) \cap Times(L, B, M, Y) = {}
BY DEF Times

(* Cross has what every call needs. *)
LEMMA CrossReady == \A call \in Calls : Ready(Cross, call)
BY CrossIs DEF Ready

(* The calls of lower rank are right. *)
NestedGood(call) == \A c \in Calls : CallRank[c] < CallRank[call] => CrossGood(c)

(* The walk of a child groups the child's rows. *)
LEMMA NestedDescend ==
  ASSUME keys \subseteq Stored, NEW call \in Calls, NestedGood(call), NEW child \in SlotOf(call),
         NEW f, NEW L, NEW X, Standing(f, L, X), L \cap Below[child.level] = {}
  PROVE  DescendsTo(child, f, call.row, L, X)
<1>1. child \in Records /\ call.row \in [keys -> Values] /\ f \in Folds BY CallFacts DEF Standing
<1>2. Walk(child) # {} => CrossGood(CallOf(child, call.row, f))
  <2> SUFFICES ASSUME Walk(child) # {} PROVE CrossGood(CallOf(child, call.row, f)) OBVIOUS
  <2>1. /\ CallOf(child, call.row, f) \in Calls
        /\ CallRank[CallOf(child, call.row, f)] < CallRank[call]
    BY <1>1, ChildCallIs
  <2> QED BY <2>1 DEF NestedGood
<1> QED BY <1>1, <1>2, DescendStep

(* The slot that a call takes. *)
LEMMA FirstSlot ==
  ASSUME NEW call \in Calls
  PROVE  /\ SlotOf(call) = call.record.slots[FirstOf(call)]
         /\ \A child \in SlotOf(call) : /\ child \in Records
                                        /\ Below[child.level] = Under(call.record, FirstOf(call))
         /\ \A c, d \in SlotOf(call) : c # d => FlatRows[c] \cap FlatRows[d] = {}
         /\ UNION {FlatRows[child] : child \in SlotOf(call)} = Alt(call.record, FirstOf(call))
<1> DEFINE r == call.record
           s == FirstOf(call)
<1>1. r \in Records /\ s \in DOMAIN r.slots /\ SlotOf(call) = r.slots[s] BY CallFacts
<1>2. \A child \in r.slots[s] : child \in Records /\ Below[child.level] = Under(r, s)
  BY <1>1, ChildFacts, UnderFacts
<1>3. \A c, d \in r.slots[s] : c # d => FlatRows[c] \cap FlatRows[d] = {} BY <1>1, FlatRowsApart
<1>4. UNION {FlatRows[child] : child \in r.slots[s]} = Alt(r, s) BY DEF Alt, AltOf
<1> QED BY <1>1, <1>2, <1>3, <1>4

(* A call that takes the last slot groups its rows. *)
LEMMA LastSlot ==
  ASSUME keys \subseteq Stored, NEW call \in Calls, NestedGood(call), RestOf(call) = {},
         NEW L, NEW X, Standing(call.incoming, L, X), L \cap LevelsOf(call) = {}
  PROVE  CrossesTo(call, L, X)
<1> DEFINE r == call.record
           s == FirstOf(call)
           U == Under(r, s)
           I == SlotOf(call)
           F == [child \in I |-> Into(Cross, call, child)]
           Q == [child \in I |-> FlatRows[child]]
           P == [child \in I |-> Times(L, X, U, Q[child])]
<1>1. /\ r \in Records /\ s \in DOMAIN r.slots /\ call.walk = {s} /\ IsFiniteSet(I)
  BY CallFacts DEF RestOf, FirstOf
<1>2. LevelsOf(call) = U /\ Part(r, call.walk) = Alt(r, s) BY <1>1, PartOne DEF LevelsOf
<1>3. /\ \A child \in I : child \in Records /\ Below[child.level] = U
      /\ \A c, d \in I : c # d => Q[c] \cap Q[d] = {}
      /\ UNION {Q[c] : c \in I} = Alt(r, s)
  BY FirstSlot
<1>4. ASSUME NEW child \in I PROVE Grouped(F[child], L \cup U, P[child], U, call.row)
  <2>1. Below[child.level] = U BY <1>3
  <2>2. L \cap Below[child.level] = {} BY <1>2, <2>1
  <2>3. DescendsTo(child, call.incoming, call.row, L, X) BY <2>2, NestedDescend
  <2>4. F[child] = DescendBy(Cross, child, call.row, call.incoming) BY DEF Into
  <2>5. P[child] = Times(L, X, U, FlatRows[child]) OBVIOUS
  <2> HIDE DEF F, P, U
  <2> QED BY <2>1, <2>3, <2>4, <2>5 DEF DescendsTo
<1>5. \A c, d \in I : c # d => P[c] \cap P[d] = {}
  <2> SUFFICES ASSUME NEW c \in I, NEW d \in I, c # d PROVE P[c] \cap P[d] = {} OBVIOUS
  <2>1. Q[c] \cap Q[d] = {} BY <1>3
  <2>2. P[c] = Times(L, X, U, Q[c]) /\ P[d] = Times(L, X, U, Q[d]) OBVIOUS
  <2>3. PICK A : A = Q[c] OBVIOUS
  <2>4. PICK B : B = Q[d] OBVIOUS
  <2> HIDE DEF P, Q
  <2>5. A \cap B = {} BY <2>1, <2>3, <2>4
  <2>6. Times(L, X, U, A) \cap Times(L, X, U, B) = {} BY <2>5, TimesApart
  <2> QED BY <2>2, <2>3, <2>4, <2>6
<1>6. UNION {P[c] : c \in I} = Times(L, X, U, Alt(r, s))
  <2>1. UNION {P[c] : c \in I} = UNION {Times(L, X, U, Q[c]) : c \in I} OBVIOUS
  <2> HIDE DEF P, Q
  <2>2. UNION {Times(L, X, U, Q[c]) : c \in I} = Times(L, X, U, UNION {Q[c] : c \in I}) BY TimesOver
  <2> QED BY <1>3, <2>1, <2>2
<1>7. L \cup U \in SUBSET Levels BY <1>1, UnderFacts DEF Standing
<1>8. Cross[call] = Gathered(F) BY CrossIs DEF CrossBody
<1>9. DOMAIN F = I OBVIOUS
<1> HIDE DEF F, P, I, U
<1>10. Groupings(F, I, P, L \cup U, U, call.row) BY <1>1, <1>4, <1>5, <1>7, <1>9 DEF Groupings
<1>11. Grouped(Gathered(F), L \cup U, UNION {P[c] : c \in I}, U, call.row) BY <1>10, GatheredIs
<1> QED BY <1>2, <1>6, <1>8, <1>11 DEF CrossesTo

(* The key of a row is fixed by the first slot and then by those left. *)
LEMMA CrossKey ==
  ASSUME NEW U, NEW V, NEW row, NEW z
  PROVE  Key(V, Key(U, row, Restrict(z, U)), z) = Key(U \cup V, row, z)
BY DEF Key, Restrict

(* The rows of a child with one key, with those met before.                *)
Crossed(L, X, U, A, row, k) == Times(L, X, U, With(A, U, row, k))

(* The rows that a group of the first slot is carried into. *)
LEMMA CrossedIs ==
  ASSUME NEW L, NEW X, NEW U, NEW A, NEW row, NEW k, NEW V, NEW Y,
         NEW z \in RowsOver((L \cup U) \cup V)
  PROVE  z \in Times(L \cup U, Crossed(L, X, U, A, row, k), V, Y)
           <=> /\ Restrict(z, L) \in X /\ Restrict(z, U) \in A /\ Restrict(z, V) \in Y
               /\ Key(U, row, Restrict(z, U)) = k
<1>1. L \cup U \subseteq (L \cup U) \cup V OBVIOUS
<1>2. Restrict(z, L \cup U) \in RowsOver(L \cup U) BY <1>1, RestrictRows
<1>3. Restrict(Restrict(z, L \cup U), L) = Restrict(z, L)
  <2>1. L \subseteq L \cup U OBVIOUS
  <2> QED BY <2>1, RestrictTwice
<1>4. Restrict(Restrict(z, L \cup U), U) = Restrict(z, U)
  <2>1. U \subseteq L \cup U OBVIOUS
  <2> QED BY <2>1, RestrictTwice
<1>5. Restrict(z, L \cup U) \in Crossed(L, X, U, A, row, k)
        <=> Restrict(z, L) \in X /\ Restrict(z, U) \in A /\ Key(U, row, Restrict(z, U)) = k
  BY <1>2, <1>3, <1>4 DEF Crossed, Times, With
<1> QED BY <1>5 DEF Times

(* The rows of all groups of a child, carried into the slots left. *)
LEMMA CrossedRows ==
  ASSUME NEW L, NEW X, NEW U, NEW A, NEW V, NEW Y, NEW z \in RowsOver((L \cup U) \cup V)
  PROVE  z \in Times(L \cup U, Times(L, X, U, A), V, Y)
           <=> Restrict(z, L) \in X /\ Restrict(z, U) \in A /\ Restrict(z, V) \in Y
<1>1. L \cup U \subseteq (L \cup U) \cup V OBVIOUS
<1>2. Restrict(z, L \cup U) \in RowsOver(L \cup U) BY <1>1, RestrictRows
<1>3. Restrict(Restrict(z, L \cup U), L) = Restrict(z, L)
  <2>1. L \subseteq L \cup U OBVIOUS
  <2> QED BY <2>1, RestrictTwice
<1>4. Restrict(Restrict(z, L \cup U), U) = Restrict(z, U)
  <2>1. U \subseteq L \cup U OBVIOUS
  <2> QED BY <2>1, RestrictTwice
<1>5. Restrict(z, L \cup U) \in Times(L, X, U, A) <=> Restrict(z, L) \in X /\ Restrict(z, U) \in A
  BY <1>2, <1>3, <1>4 DEF Times
<1> QED BY <1>5 DEF Times

(* What is carried on from the groups of one child to the slots left.      *)
LEMMA OnwardsIs ==
  ASSUME NEW call \in Calls, NestedGood(call), RestOf(call) # {}, ~KeysOnOnePath,
         NEW L, NEW X, Standing(call.incoming, L, X), L \cap LevelsOf(call) = {},
         NEW U, NEW V, NEW A, NEW Y, NEW n \in GroupMaps,
         LevelsOf(call) = U \cup V, U \cap V = {},
         V = UnderAll(call.record, RestOf(call)), Y = Part(call.record, RestOf(call)),
         Grouped(n, U, A, U, call.row)
  PROVE  Grouped(Onwards(Cross, call, n), (L \cup U) \cup V,
                 Times(L \cup U, Times(L, X, U, A), V, Y), U \cup V, call.row)
<1> DEFINE D == DOMAIN n
           B(k) == Crossed(L, X, U, A, call.row, k)
           nextc(k) == RestCall(call, k, Combine(call.incoming, n[k]))
           F == [k \in D |-> Cross[nextc(k)]]
           P == [k \in D |-> Times(L \cup U, B(k), V, Y)]
           K == (L \cup U) \cup V
           Z == Times(L \cup U, Times(L, X, U, A), V, Y)
<1>1. IsMap(n) BY MapsAre
<1>2. D \in SUBSET [keys -> Values] /\ IsFiniteSet(D) /\ \A k \in D : n[k] \in Folds BY <1>1 DEF IsMap
<1>3. /\ D = {Key(U, call.row, z) : z \in A}
      /\ \A k \in D : Standing(n[k], U, With(A, U, call.row, k))
  BY DEF Grouped
<1>4. L \cap U = {} /\ (L \cup U) \cap V = {} OBVIOUS
<1>5. ASSUME NEW k \in D PROVE Grouped(F[k], K, P[k], U \cup V, call.row)
  <2> DEFINE inc == Combine(call.incoming, n[k])
             c == nextc(k)
  <2>1. Standing(inc, L \cup U, B(k))
    <3>1. Standing(n[k], U, With(A, U, call.row, k)) BY <1>3
    <3> QED BY <1>4, <3>1, StandingTimes DEF Crossed
  <2>2. inc \in Folds BY <2>1 DEF Standing
  <2>3. c \in Calls /\ CallRank[c] < CallRank[call]
    <3>1. k \in [keys -> Values] BY <1>2
    <3> HIDE DEF inc
    <3>2. /\ RestCall(call, k, inc) \in Calls
          /\ CallRank[RestCall(call, k, inc)] < CallRank[call]
      BY <2>2, <3>1, RestCallIs
    <3> QED BY <3>2 DEF inc
  <2>4. CrossGood(c)
    <3> HIDE DEF c
    <3> QED BY <2>3 DEF NestedGood
  <2>5. c.record = call.record /\ c.walk = RestOf(call) /\ c.row = k /\ c.incoming = inc BY DEF RestCall
  <2>6. LevelsOf(c) = V /\ Part(c.record, c.walk) = Y BY <2>5 DEF LevelsOf
  <2>7. F[k] = Cross[c] /\ P[k] = Times(L \cup U, B(k), V, Y) OBVIOUS
  <2>8. L \cup U \in SUBSET Levels /\ B(k) \in SUBSET RowsOver(L \cup U) BY <2>1 DEF Standing
  <2> HIDE DEF c, inc, F, P, B
  <2>9. CrossesTo(c, L \cup U, B(k)) BY <1>4, <2>1, <2>4, <2>5, <2>6, <2>8 DEF CrossGood
  <2>10. Grouped(F[k], K, P[k], V, k) BY <2>5, <2>6, <2>7, <2>9 DEF CrossesTo
  <2>11. \A z \in P[k] : Key(V, k, z) = Key(U \cup V, call.row, z)
    <3> SUFFICES ASSUME NEW z \in P[k] PROVE Key(V, k, z) = Key(U \cup V, call.row, z) OBVIOUS
    <3>1. z \in Times(L \cup U, Crossed(L, X, U, A, call.row, k), V, Y) BY <2>7 DEF B
    <3>2. z \in RowsOver((L \cup U) \cup V) BY <3>1 DEF Times
    <3>3. Key(U, call.row, Restrict(z, U)) = k BY <3>1, <3>2, CrossedIs
    <3>4. Key(V, Key(U, call.row, Restrict(z, U)), z) = Key(U \cup V, call.row, z) BY CrossKey
    <3> QED BY <3>3, <3>4
  <2> HIDE DEF K
  <2> QED BY <2>10, <2>11, GroupedSame
<1>6. \A k, j \in D : k # j => P[k] \cap P[j] = {}
  <2> SUFFICES ASSUME NEW k \in D, NEW j \in D, NEW z, z \in P[k], z \in P[j] PROVE k = j OBVIOUS
  <2>1. z \in Times(L \cup U, Crossed(L, X, U, A, call.row, k), V, Y) OBVIOUS
  <2>2. z \in Times(L \cup U, Crossed(L, X, U, A, call.row, j), V, Y) OBVIOUS
  <2>3. z \in RowsOver((L \cup U) \cup V) BY <2>1 DEF Times
  <2>4. Key(U, call.row, Restrict(z, U)) = k BY <2>1, <2>3, CrossedIs
  <2>5. Key(U, call.row, Restrict(z, U)) = j BY <2>2, <2>3, CrossedIs
  <2> QED BY <2>4, <2>5
<1>7. UNION {P[k] : k \in D} = Z
  <2>1. ASSUME NEW z \in Z PROVE z \in UNION {P[k] : k \in D}
    <3>1. z \in RowsOver((L \cup U) \cup V) BY DEF Times
    <3>2. Restrict(z, L) \in X /\ Restrict(z, U) \in A /\ Restrict(z, V) \in Y BY <3>1, CrossedRows
    <3> DEFINE k == Key(U, call.row, Restrict(z, U))
    <3>3. k \in D BY <1>3, <3>2
    <3>4. z \in Times(L \cup U, Crossed(L, X, U, A, call.row, k), V, Y) BY <3>1, <3>2, CrossedIs
    <3>5. z \in P[k] BY <3>3, <3>4
    <3> QED BY <3>3, <3>5
  <2>2. ASSUME NEW k \in D, NEW z \in P[k] PROVE z \in Z
    <3>1. z \in Times(L \cup U, Crossed(L, X, U, A, call.row, k), V, Y) OBVIOUS
    <3>2. z \in RowsOver((L \cup U) \cup V) BY <3>1 DEF Times
    <3>3. Restrict(z, L) \in X /\ Restrict(z, U) \in A /\ Restrict(z, V) \in Y
      BY <3>1, <3>2, CrossedIs
    <3> QED BY <3>2, <3>3, CrossedRows
  <2> HIDE DEF P, Z, D
  <2> QED BY <2>1, <2>2
<1>8. K \in SUBSET Levels
  <2>1. L \in SUBSET Levels BY DEF Standing
  <2>2. U \cup V \in SUBSET Levels BY CallFacts, PartRows DEF LevelsOf
  <2> QED BY <2>1, <2>2
<1>9. Onwards(Cross, call, n) = Gathered(F) BY DEF Onwards
<1>10. DOMAIN F = D OBVIOUS
<1> HIDE DEF F, P, D, K, Z
<1>11. Groupings(F, D, P, K, U \cup V, call.row) BY <1>2, <1>5, <1>6, <1>8, <1>10 DEF Groupings
<1>12. Grouped(Gathered(F), K, UNION {P[k] : k \in D}, U \cup V, call.row) BY <1>11, GatheredIs
<1> QED BY <1>7, <1>9, <1>12 DEF K, Z

(* A call that leaves slots groups its rows. *)
LEMMA MoreSlots ==
  ASSUME keys \subseteq Stored, NEW call \in Calls, NestedGood(call), RestOf(call) # {}, ~KeysOnOnePath,
         NEW L, NEW X, Standing(call.incoming, L, X), L \cap LevelsOf(call) = {}
  PROVE  CrossesTo(call, L, X)
<1> DEFINE r == call.record
           s == FirstOf(call)
           R == RestOf(call)
           U == Under(r, s)
           V == UnderAll(r, R)
           Y == Part(r, R)
           M == U \cup V
           I == SlotOf(call)
           F == [child \in I |-> Into(Cross, call, child)]
           T == [child \in I |-> Times(L, X, U, FlatRows[child])]
           P == [child \in I |-> Times(L \cup U, T[child], V, Y)]
<1>1. /\ r \in Records /\ s \in DOMAIN r.slots /\ s \in call.walk /\ R = call.walk \ {s}
      /\ call.walk \in SUBSET DOMAIN r.slots /\ IsFiniteSet(I) /\ call.row \in [keys -> Values]
  BY CallFacts DEF RestOf, FirstOf
<1>2. /\ LevelsOf(call) = M /\ U \cap V = {}
      /\ Part(r, call.walk) = Times(U, Alt(r, s), V, Y)
  <2> HIDE DEF r, s
  <2>1. UnderAll(r, call.walk) = Under(r, s) \cup UnderAll(r, call.walk \ {s})
    BY <1>1 DEF UnderAll
  <2>2. Under(r, s) \cap UnderAll(r, call.walk \ {s}) = {} BY <1>1, PartMore
  <2>3. Part(r, call.walk)
          = Times(Under(r, s), Alt(r, s), UnderAll(r, call.walk \ {s}), Part(r, call.walk \ {s}))
    BY <1>1, PartMore
  <2>4. LevelsOf(call) = UnderAll(r, call.walk) BY DEF LevelsOf, r
  <2> HIDE DEF R
  <2> QED BY <1>1, <2>1, <2>2, <2>3, <2>4
<1>3. /\ \A child \in I : child \in Records /\ Below[child.level] = U
      /\ \A c, d \in I : c # d => FlatRows[c] \cap FlatRows[d] = {}
      /\ UNION {FlatRows[c] : c \in I} = Alt(r, s)
  BY FirstSlot
<1>4. ASSUME NEW child \in I PROVE Grouped(F[child], (L \cup U) \cup V, P[child], M, call.row)
  <2> DEFINE n == DescendBy(Cross, child, call.row, NewFold)
             A == FlatRows[child]
  <2>1. Below[child.level] = U /\ child \in Records BY <1>3
  <2>2. Grouped(n, U, A, U, call.row)
    <3>1. Standing(NewFold, {}, {EmptyRow}) BY StandingNewFold
    <3>2. {} \cap Below[child.level] = {} OBVIOUS
    <3>3. DescendsTo(child, NewFold, call.row, {}, {EmptyRow}) BY <3>1, <3>2, NestedDescend
    <3>4. Grouped(n, {} \cup U, Times({}, {EmptyRow}, U, A), U, call.row)
      BY <2>1, <3>3 DEF DescendsTo
    <3>5. A \in SUBSET RowsOver(U) BY <2>1, FlatRowsDef
    <3> HIDE DEF A, U, n
    <3>6. Times({}, {EmptyRow}, U, A) = Times(U, A, {}, {EmptyRow}) BY TimesSwap
    <3>7. Times(U, A, {}, {EmptyRow}) = A BY <3>5, TimesUnit
    <3>8. {} \cup U = U OBVIOUS
    <3> QED BY <3>4, <3>6, <3>7, <3>8
  <2>3. n \in GroupMaps
    <3>1. Ready(Cross, call) /\ NewFold \in Folds BY CrossReady, NothingIs
    <3> QED BY <3>1, ReadyDescend
  <2>4. F[child] = Onwards(Cross, call, n) BY DEF Into
  <2>5. P[child] = Times(L \cup U, Times(L, X, U, A), V, Y) OBVIOUS
  <2>6. V = UnderAll(call.record, RestOf(call)) /\ Y = Part(call.record, RestOf(call)) OBVIOUS
  <2> HIDE DEF n, A, U, V, Y, F, P
  <2>7. Grouped(Onwards(Cross, call, n), (L \cup U) \cup V,
                Times(L \cup U, Times(L, X, U, A), V, Y), U \cup V, call.row)
    BY <1>2, <2>2, <2>3, <2>6, OnwardsIs
  <2> QED BY <2>4, <2>5, <2>7
<1>5. \A c, d \in I : c # d => P[c] \cap P[d] = {}
  <2> SUFFICES ASSUME NEW c \in I, NEW d \in I, c # d PROVE P[c] \cap P[d] = {} OBVIOUS
  <2>1. FlatRows[c] \cap FlatRows[d] = {} BY <1>3
  <2>2. T[c] \cap T[d] = {} BY <2>1, TimesApart
  <2>3. P[c] = Times(L \cup U, T[c], V, Y) /\ P[d] = Times(L \cup U, T[d], V, Y) OBVIOUS
  <2>4. PICK A : A = T[c] OBVIOUS
  <2>5. PICK B : B = T[d] OBVIOUS
  <2>6. PICK K : K = L \cup U OBVIOUS
  <2> HIDE DEF P, T
  <2>7. A \cap B = {} BY <2>2, <2>4, <2>5
  <2>8. Times(K, A, V, Y) \cap Times(K, B, V, Y) = {} BY <2>7, TimesApart
  <2> QED BY <2>3, <2>4, <2>5, <2>6, <2>8
<1>6. UNION {P[c] : c \in I} = Times(L, X, M, Part(r, call.walk))
  <2> DEFINE Q == [child \in I |-> FlatRows[child]]
  <2>1. UNION {P[c] : c \in I} = UNION {Times(L \cup U, T[c], V, Y) : c \in I} OBVIOUS
  <2>2. UNION {T[c] : c \in I} = UNION {Times(L, X, U, Q[c]) : c \in I} OBVIOUS
  <2>3. UNION {Q[c] : c \in I} = Alt(r, s) BY <1>3
  <2> HIDE DEF P, T, Q, r, s, I, U, V, Y
  <2>4. UNION {Times(L \cup U, T[c], V, Y) : c \in I} = Times(L \cup U, UNION {T[c] : c \in I}, V, Y)
    <3> DEFINE K == L \cup U
    <3> HIDE DEF K
    <3>1. UNION {Times(K, T[c], V, Y) : c \in I} = Times(K, UNION {T[c] : c \in I}, V, Y) BY DEF Times
    <3> QED BY <3>1 DEF K
  <2>5. UNION {Times(L, X, U, Q[c]) : c \in I} = Times(L, X, U, UNION {Q[c] : c \in I}) BY TimesOver
  <2>6. Times(L \cup U, Times(L, X, U, Alt(r, s)), V, Y) = Times(L, X, U \cup V, Times(U, Alt(r, s), V, Y))
    BY TimesAssociates
  <2> QED BY <1>2, <2>1, <2>2, <2>3, <2>4, <2>5, <2>6
<1>7. (L \cup U) \cup V = L \cup M OBVIOUS
<1>8. L \cup M \in SUBSET Levels
  <2>1. M \in SUBSET Levels BY <1>1, <1>2, PartRows DEF LevelsOf
  <2> QED BY <2>1 DEF Standing
<1>9. Cross[call] = Gathered(F) BY CrossIs DEF CrossBody
<1>10. DOMAIN F = I OBVIOUS
<1> HIDE DEF F, P, I, M, U, V
<1>11. \A c \in I : Grouped(F[c], L \cup M, P[c], M, call.row) BY <1>4, <1>7
<1>12. Groupings(F, I, P, L \cup M, M, call.row) BY <1>1, <1>5, <1>8, <1>10, <1>11 DEF Groupings
<1>13. Grouped(Gathered(F), L \cup M, UNION {P[c] : c \in I}, M, call.row) BY <1>12, GatheredIs
<1> QED BY <1>2, <1>6, <1>9, <1>13 DEF CrossesTo

(* Every call of Cross groups the rows it is given. *)
LEMMA CrossAll == ASSUME keys \subseteq Stored PROVE \A call \in Calls : CrossGood(call)
<1> DEFINE S == {n \in Nat : \A call \in Calls : CallRank[call] <= n => CrossGood(call)}
<1>1. ASSUME NEW call \in Calls, NestedGood(call) PROVE CrossGood(call)
  <2> SUFFICES ASSUME KeysOnOnePath => RestOf(call) = {}, NEW L \in SUBSET Levels, NEW X \in SUBSET RowsOver(L),
                      Standing(call.incoming, L, X), L \cap LevelsOf(call) = {}
               PROVE  CrossesTo(call, L, X)
    BY DEF CrossGood
  <2>1. CASE RestOf(call) = {} BY <1>1, <2>1, LastSlot
  <2>2. CASE RestOf(call) # {} BY <1>1, <2>2, MoreSlots
  <2> QED BY <2>1, <2>2
<1>2. \A call \in Calls : CallRank[call] \in Nat
  <2>1. N \in Nat BY TreeFacts
  <2> QED BY <2>1, CallRankType
<1>3. 0 \in S
  <2> SUFFICES ASSUME NEW call \in Calls, CallRank[call] <= 0 PROVE CrossGood(call) OBVIOUS
  <2>1. \A c \in Calls : ~(CallRank[c] < CallRank[call]) BY <1>2
  <2>2. NestedGood(call) BY <2>1 DEF NestedGood
  <2> QED BY <1>1, <2>2
<1>4. ASSUME NEW n \in S PROVE n + 1 \in S
  <2> SUFFICES ASSUME NEW call \in Calls, CallRank[call] <= n + 1 PROVE CrossGood(call) OBVIOUS
  <2>1. \A c \in Calls : CallRank[c] < CallRank[call] => CallRank[c] <= n BY <1>2
  <2>2. NestedGood(call) BY <2>1 DEF NestedGood
  <2> QED BY <1>1, <2>2
<1>5. S \in SUBSET Nat OBVIOUS
<1> HIDE DEF S
<1>6. S = Nat BY <1>3, <1>4, <1>5, Climb
<1> SUFFICES ASSUME NEW call \in Calls PROVE CrossGood(call) OBVIOUS
<1>7. CallRank[call] \in S /\ CallRank[call] <= CallRank[call] BY <1>2, <1>6
<1> QED BY <1>7 DEF S

(* The walk below a record groups its rows: for every way the keys lie in  *)
(* its slots, the groups that Descend adds for a fold that stands for the  *)
(* rows of X are those of X times the rows below the record (plan.cpp,     *)
(* Descend and Cross).                                                     *)
THEOREM DescendIs ==
  ASSUME keys \subseteq Stored, NEW r \in Records, NEW f, NEW row \in [keys -> Values], NEW L, NEW X,
         Standing(f, L, X), L \cap Below[r.level] = {}
  PROVE  DescendsTo(r, f, row, L, X)
<1>1. Walk(r) # {} => CrossGood(CallOf(r, row, f))
  <2> SUFFICES ASSUME Walk(r) # {} PROVE CrossGood(CallOf(r, row, f)) OBVIOUS
  <2>1. Walk(r) \in SUBSET DOMAIN r.slots /\ Walk(r) \in SUBSET Nat BY WalkIs
  <2>2. Fixed(r, row) \in [keys -> Values] BY FixedType
  <2>3. f \in Folds BY DEF Standing
  <2>4. Here(r, f) \in Folds BY <2>3, HereType
  <2>5. CallOf(r, row, f) \in Calls BY <2>1, <2>2, <2>4 DEF Calls, CallOf
  <2> QED BY <2>5, CrossAll
<1> QED BY <1>1, DescendStep

-----------------------------------------------------------------------------
(* The same for any choice ks of the keys. *)
KeyIn(ks, row) == [k \in ks |-> ValueIn(row[2], k)]
Of(ks, rows, k) == {row \in rows : KeyIn(ks, row) = k}
OnePath(ks) ==
  \A level \in Levels :
    Cardinality({s \in DOMAIN Slots[level] :
                   \E m \in Below[Slots[level][s]] : Attributes[m] \cap ks # {}}) <= 1

(* Whether the keys are on one path depends on the keys only. *)
LEMMA OnePathIs == KeysOnOnePath <=> OnePath(keys)
<1>1. ASSUME NEW level \in Levels
      PROVE  {s \in DOMAIN Slots[level] : Carries[Slots[level][s]]}
             = {s \in DOMAIN Slots[level] : \E m \in Below[Slots[level][s]] : Attributes[m] \cap keys # {}}
  <2>1. \A s \in DOMAIN Slots[level] : Slots[level][s] \in Levels BY TreeFacts
  <2>2. \A s \in DOMAIN Slots[level] :
          Carries[Slots[level][s]] <=> \E m \in Below[Slots[level][s]] : Attributes[m] \cap keys # {}
    BY <2>1, CarriesIs
  <2> QED BY <2>2
<1>2. \A level \in Levels :
        Cardinality({s \in DOMAIN Slots[level] : Carries[Slots[level][s]]})
        = Cardinality({s \in DOMAIN Slots[level] : \E m \in Below[Slots[level][s]] : Attributes[m] \cap keys # {}})
  BY <1>1
<1> QED BY <1>2 DEF KeysOnOnePath, OnePath

Tagged(Q) == IsFiniteSet(Q) /\ \A q \in Q : q[2] \in RowsOver(Levels)

(* g has the groups of the rows of Q, and what they count and sum.         *)
Exact(ks, g, Q) ==
  /\ Tagged(Q) /\ DOMAIN g = {KeyIn(ks, q) : q \in Q}
  /\ \A k \in DOMAIN g :
       /\ g[k].count = Cardinality(Of(ks, Q, k))
       /\ \A i \in AggregateIds :
            ~IsExtreme(i) => g[k].values[i] = IF IsSum(i) THEN SumOver(Of(ks, Q, k), Aggregates[i].attribute)
                                              ELSE Cardinality(Of(ks, Q, k))
       /\ OnePath(ks) => \A i \in AggregateIds :
            IsExtreme(i) => g[k].values[i] = ExtremeOver(Of(ks, Q, k), i)

(* What a whole row carries. *)
LEMMA ValueFacts ==
  \A x \in RowsOver(Levels) : \A i \in AggregateIds :
    /\ ValueIn(x, Aggregates[i].attribute) = Val(i, x) /\ ValueIn(x, Aggregates[i].attribute) = Edge(i, x)
    /\ ValueIn(x, Aggregates[i].attribute) \in Int /\ ValueIn(x, Aggregates[i].attribute) \in Values
<1> SUFFICES ASSUME NEW x \in RowsOver(Levels), NEW i \in AggregateIds
             PROVE  /\ ValueIn(x, Aggregates[i].attribute) = Val(i, x)
                    /\ ValueIn(x, Aggregates[i].attribute) = Edge(i, x)
                    /\ ValueIn(x, Aggregates[i].attribute) \in Int
                    /\ ValueIn(x, Aggregates[i].attribute) \in Values
  OBVIOUS
<1>1. LevelOf(Aggregates[i].attribute) \in Levels BY AggregateFacts
<1>2. DOMAIN x = Levels BY DEF RowsOver
<1>3. ValueIn(x, Aggregates[i].attribute) = Val(i, x) /\ ValueIn(x, Aggregates[i].attribute) = Edge(i, x)
  BY <1>1, <1>2 DEF ValueIn, Val, Edge, At
<1>4. Val(i, x) \in Int /\ Edge(i, x) \in Values BY ValType
<1> QED BY <1>3, <1>4

(* The rows of a group are some of the rows. *)
LEMMA OfTagged ==
  ASSUME NEW ks, NEW Q, Tagged(Q), NEW k PROVE Tagged(Of(ks, Q, k)) /\ Of(ks, Q, k) \in SUBSET Q
<1> DEFINE R == Of(ks, Q, k)
<1>1. R \in SUBSET Q BY DEF Of
<1> HIDE DEF R
<1>2. IsFiniteSet(R) BY <1>1, FS_Subset DEF Tagged
<1>3. Tagged(R) BY <1>1, <1>2 DEF Tagged
<1> QED BY <1>1, <1>3 DEF R

SumsApart(Q, R, i) ==
  SumOver(Q \cup R, Aggregates[i].attribute)
    = SumOver(Q, Aggregates[i].attribute) + SumOver(R, Aggregates[i].attribute)

(* Sums over disjoint sets of rows add. *)
LEMMA SumOverUnion ==
  ASSUME NEW Q, NEW R, Tagged(Q), Tagged(R), Q \cap R = {}, NEW i \in AggregateIds
  PROVE  SumsApart(Q, R, i)
<1> DEFINE a == Aggregates[i].attribute
           S == Q \cup R
           f == [q \in S |-> ValueIn(q[2], a)]
<1>1. IsFiniteSet(S) BY FS_Union DEF Tagged
<1>2. f \in [S -> Int]
  <2>1. \A q \in S : ValueIn(q[2], a) \in Int BY ValueFacts DEF Tagged
  <2> QED BY <2>1
<1>3. Q \in SUBSET S /\ R \in SUBSET S OBVIOUS
<1>4. Total(Q, f) = SumOver(Q, a) /\ Total(R, f) = SumOver(R, a)
  <2>1. [q \in Q |-> f[q]] = [q \in Q |-> ValueIn(q[2], a)] OBVIOUS
  <2>2. [q \in R |-> f[q]] = [q \in R |-> ValueIn(q[2], a)] OBVIOUS
  <2> QED BY <2>1, <2>2 DEF Total, SumOver
<1>5. SumFunction(f) = SumOver(S, a) BY DEF SumOver
<1> HIDE DEF f, S, a
<1>6. Total(S, f) = SumFunction(f) BY <1>2, TotalWhole
<1>7. Total(Q \cup R, f) = Total(Q, f) + Total(R, f) BY <1>1, <1>2, <1>3, TotalUnion
<1>8. SumsApart(Q, R, i) <=> SumOver(S, a) = SumOver(Q, a) + SumOver(R, a) BY DEF SumsApart, S, a
<1> QED BY <1>4, <1>5, <1>6, <1>7, <1>8 DEF S

(* The extreme over a union is the better of the two. *)
LEMMA ExtremeOverUnion ==
  ASSUME NEW Q, NEW R, Tagged(Q), Tagged(R), Q # {}, R # {}, NEW i \in AggregateIds
  PROVE  ExtremeOver(Q \cup R, i) = Better(i, ExtremeOver(Q, i), ExtremeOver(R, i))
<1> DEFINE v(q) == ValueIn(q[2], Aggregates[i].attribute)
           A == {v(q) : q \in Q}
           B == {v(q) : q \in R}
           C == {v(q) : q \in Q \cup R}
<1>1. \A q \in Q \cup R : v(q) \in Values BY ValueFacts DEF Tagged
<1>2. ExtremeOver(Q, i) = Best(i, A) /\ ExtremeOver(R, i) = Best(i, B) /\ ExtremeOver(Q \cup R, i) = Best(i, C)
  BY DEF ExtremeOver
<1> HIDE DEF v
<1>3. A \in SUBSET Values /\ B \in SUBSET Values /\ A # {} /\ B # {} BY <1>1
<1>4. C = A \cup B OBVIOUS
<1> HIDE DEF A, B, C
<1>5. Ext(i, A) = Best(i, A) /\ Ext(i, B) = Best(i, B) BY <1>3, ExtSome
<1>6. C \in SUBSET Values /\ C # {} BY <1>3, <1>4
<1>7. Ext(i, C) = Best(i, C) BY <1>6, ExtSome
<1>8. Ext(i, A \cup B) = Better(i, Ext(i, A), Ext(i, B)) BY <1>3, ExtUnion
<1> QED BY <1>2, <1>4, <1>5, <1>7, <1>8

(* One group that is in both. *)
LEMMA MergeBoth ==
  ASSUME NEW ks, NEW g, NEW h, NEW Q, NEW R, Exact(ks, g, Q), Exact(ks, h, R), Q \cap R = {},
         NEW k \in DOMAIN g, k \in DOMAIN h, NEW A, NEW B, A = Of(ks, Q, k), B = Of(ks, R, k)
  PROVE  /\ MergeGroup(g[k], h[k]).count = Cardinality(A \cup B)
         /\ \A i \in AggregateIds :
              ~IsExtreme(i) => MergeGroup(g[k], h[k]).values[i]
                                 = IF IsSum(i) THEN SumOver(A \cup B, Aggregates[i].attribute)
                                   ELSE Cardinality(A \cup B)
         /\ OnePath(ks) => \A i \in AggregateIds :
              IsExtreme(i) => MergeGroup(g[k], h[k]).values[i] = ExtremeOver(A \cup B, i)
<1> DEFINE m == MergeGroup(g[k], h[k])
<1>1. Tagged(A) /\ Tagged(B) /\ A \cap B = {}
  <2>1. Tagged(Q) /\ Tagged(R) BY DEF Exact
  <2>2. Tagged(A) /\ A \in SUBSET Q BY <2>1, OfTagged
  <2>3. Tagged(B) /\ B \in SUBSET R BY <2>1, OfTagged
  <2> QED BY <2>2, <2>3
<1>2. A # {} /\ B # {}
  <2>1. PICK q \in Q : KeyIn(ks, q) = k BY DEF Exact
  <2>2. PICK r \in R : KeyIn(ks, r) = k BY DEF Exact
  <2> QED BY <2>1, <2>2 DEF Of
<1>3. /\ g[k].count = Cardinality(A) /\ h[k].count = Cardinality(B)
      /\ \A i \in AggregateIds : ~IsExtreme(i) =>
           /\ g[k].values[i] = IF IsSum(i) THEN SumOver(A, Aggregates[i].attribute) ELSE Cardinality(A)
           /\ h[k].values[i] = IF IsSum(i) THEN SumOver(B, Aggregates[i].attribute) ELSE Cardinality(B)
      /\ OnePath(ks) => \A i \in AggregateIds : IsExtreme(i) =>
           g[k].values[i] = ExtremeOver(A, i) /\ h[k].values[i] = ExtremeOver(B, i)
  BY DEF Exact
<1>4. Cardinality(A \cup B) = Cardinality(A) + Cardinality(B)
  <2>1. IsFiniteSet(A) /\ IsFiniteSet(B) BY <1>1 DEF Tagged
  <2>2. Cardinality(A) \in Nat /\ Cardinality(B) \in Nat BY <2>1, FS_CardinalityType
  <2>3. Cardinality(A \cup B) = Cardinality(A) + Cardinality(B) - Cardinality(A \cap B)
    BY <2>1, FS_Union
  <2>4. Cardinality(A \cap B) = 0 BY <1>1, FS_EmptySet
  <2> QED BY <2>2, <2>3, <2>4
<1>5. m.count = Cardinality(A \cup B) BY <1>3, <1>4 DEF MergeGroup
<1>6. ASSUME NEW i \in AggregateIds, ~IsExtreme(i)
      PROVE  m.values[i] = IF IsSum(i) THEN SumOver(A \cup B, Aggregates[i].attribute)
                           ELSE Cardinality(A \cup B)
  <2>1. m.values[i] = g[k].values[i] + h[k].values[i] BY <1>6 DEF MergeGroup
  <2>2. SumOver(A \cup B, Aggregates[i].attribute)
          = SumOver(A, Aggregates[i].attribute) + SumOver(B, Aggregates[i].attribute)
    <3>1. SumsApart(A, B, i) BY <1>1, SumOverUnion
    <3> QED BY <3>1 DEF SumsApart
  <2>3. CASE IsSum(i) BY <1>3, <1>6, <2>1, <2>2, <2>3
  <2>4. CASE ~IsSum(i) BY <1>3, <1>4, <1>6, <2>1, <2>4
  <2> QED BY <2>3, <2>4
<1>7. ASSUME OnePath(ks), NEW i \in AggregateIds, IsExtreme(i) PROVE m.values[i] = ExtremeOver(A \cup B, i)
  <2>1. m.values[i] = Better(i, g[k].values[i], h[k].values[i]) BY <1>7 DEF MergeGroup
  <2>2. ExtremeOver(A \cup B, i) = Better(i, ExtremeOver(A, i), ExtremeOver(B, i))
    BY <1>1, <1>2, ExtremeOverUnion
  <2> QED BY <1>3, <1>7, <2>1, <2>2
<1> QED BY <1>5, <1>6, <1>7

(* Parts have no rows in common, so their groups merge. *)
LEMMA MergeIs ==
  ASSUME NEW ks, NEW g, NEW h, NEW Q, NEW R, Exact(ks, g, Q), Exact(ks, h, R), Q \cap R = {}
  PROVE  Exact(ks, MergeGroups(g, h), Q \cup R)
<1> DEFINE m == MergeGroups(g, h)
           S == Q \cup R
<1>1. Tagged(S)
  <2>1. Tagged(Q) /\ Tagged(R) BY DEF Exact
  <2> QED BY <2>1, FS_Union DEF Tagged
<1>2. DOMAIN m = {KeyIn(ks, q) : q \in S}
  <2>1. DOMAIN m = DOMAIN g \cup DOMAIN h BY DEF MergeGroups
  <2>2. DOMAIN g = {KeyIn(ks, q) : q \in Q} /\ DOMAIN h = {KeyIn(ks, q) : q \in R} BY DEF Exact
  <2> QED BY <2>1, <2>2
<1>3. ASSUME NEW k \in DOMAIN m
      PROVE  /\ m[k].count = Cardinality(Of(ks, S, k))
             /\ \A i \in AggregateIds :
                  ~IsExtreme(i) => m[k].values[i] = IF IsSum(i) THEN SumOver(Of(ks, S, k), Aggregates[i].attribute)
                                                    ELSE Cardinality(Of(ks, S, k))
             /\ OnePath(ks) => \A i \in AggregateIds :
                  IsExtreme(i) => m[k].values[i] = ExtremeOver(Of(ks, S, k), i)
  <2> DEFINE A == Of(ks, Q, k)
             B == Of(ks, R, k)
  <2>1. Of(ks, S, k) = A \cup B BY DEF Of
  <2>2. k \in DOMAIN g \/ k \in DOMAIN h BY DEF MergeGroups
  <2>3. k \notin DOMAIN g => A = {} BY DEF Exact, Of
  <2>4. k \notin DOMAIN h => B = {} BY DEF Exact, Of
  <2>5. CASE k \in DOMAIN g /\ k \notin DOMAIN h
    <3>1. m[k] = g[k] BY <2>5 DEF MergeGroups
    <3>2. Of(ks, S, k) = Of(ks, Q, k) BY <2>1, <2>4, <2>5
    <3> HIDE DEF m, S, A, B
    <3> QED BY <2>5, <3>1, <3>2 DEF Exact
  <2>6. CASE k \notin DOMAIN g /\ k \in DOMAIN h
    <3>1. m[k] = h[k] BY <2>6 DEF MergeGroups
    <3>2. Of(ks, S, k) = Of(ks, R, k) BY <2>1, <2>3, <2>6
    <3> HIDE DEF m, S, A, B
    <3> QED BY <2>6, <3>1, <3>2 DEF Exact
  <2>7. CASE k \in DOMAIN g /\ k \in DOMAIN h
    <3>1. m[k] = MergeGroup(g[k], h[k]) BY <2>7 DEF MergeGroups
    <3> HIDE DEF m, S
    <3>2. A = Of(ks, Q, k) /\ B = Of(ks, R, k) OBVIOUS
    <3> HIDE DEF A, B
    <3> QED BY <2>1, <2>7, <3>1, <3>2, MergeBoth
  <2> QED BY <2>2, <2>5, <2>6, <2>7
<1> HIDE DEF m, S
<1>4. Exact(ks, m, S) BY <1>1, <1>2, <1>3 DEF Exact
<1> QED BY <1>4 DEF m, S

-----------------------------------------------------------------------------
(* The rows of the roots, whichever of them they are of. *)
RootRows(roots) == UNION {FlatRows[root] : root \in roots}

Rooted(roots) ==
  roots \in SUBSET Records /\ IsFiniteSet(roots) /\ \A root \in roots : root.level = 1

(* Two roots have no row in common. *)
LEMMA RootRowsApart ==
  ASSUME NEW roots, Rooted(roots), NEW c \in roots, NEW d \in roots, c # d
  PROVE  FlatRows[c] \cap FlatRows[d] = {}
<1> SUFFICES ASSUME NEW x \in FlatRows[c], x \in FlatRows[d] PROVE FALSE OBVIOUS
<1>1. c \in Records /\ d \in Records /\ c.level = d.level BY DEF Rooted
<1>2. x[c.level] \in Copies(c) /\ x[d.level] \in Copies(d) BY <1>1, FlatRowsAre
<1>3. x[c.level].record = c /\ x[d.level].record = d BY <1>1, <1>2, CopiesAre
<1> QED BY <1>1, <1>3

(* The rows of the roots are finitely many rows over all levels. *)
LEMMA RootRowsAre ==
  ASSUME NEW roots, Rooted(roots)
  PROVE  RootRows(roots) \in SUBSET RowsOver(Levels) /\ IsFiniteSet(RootRows(roots))
<1>1. \A root \in roots : root \in Records /\ root.level = 1 BY DEF Rooted
<1>2. \A root \in roots : FlatRows[root] \in SUBSET RowsOver(Levels)
  BY <1>1, FlatRowsDef, AllBelowRoot
<1>3. \A root \in roots : IsFiniteSet(FlatRows[root]) BY <1>1, SizeIs
<1>4. IsFiniteSet(roots) BY DEF Rooted
<1>5. IsFiniteSet(UNION {FlatRows[root] : root \in roots}) BY <1>3, <1>4, FiniteFamily
<1> QED BY <1>2, <1>5 DEF RootRows

(* What the walk starts with. *)
NoKey == [k \in keys |-> 0]

(* One root. *)
LEMMA RootIs ==
  ASSUME keys \subseteq Stored, NEW r \in Records, r.level = 1
  PROVE  Grouped(DescendBy(Cross, r, NoKey, Identity), Levels, FlatRows[r], Levels, NoKey)
<1>1. NoKey \in [keys -> Values] BY ValuesFacts DEF NoKey
<1>2. Standing(Identity, {}, {EmptyRow}) BY StandingIdentity
<1>3. PICK L : L = {} OBVIOUS
<1>4. PICK X : X = {EmptyRow} OBVIOUS
<1>5. Standing(Identity, L, X) BY <1>2, <1>3, <1>4
<1>6. L \cap Below[r.level] = {} BY <1>3
<1>7. DescendsTo(r, Identity, NoKey, L, X) BY <1>1, <1>5, <1>6, DescendIs
<1>8. Below[r.level] = Levels BY AllBelowRoot
<1>9. FlatRows[r] \in SUBSET RowsOver(Levels) BY <1>8, FlatRowsDef
<1>10. Times(L, X, Levels, FlatRows[r]) = FlatRows[r]
  <2>1. Times(Levels, FlatRows[r], {}, {EmptyRow}) = FlatRows[r] BY <1>9, TimesUnit
  <2>2. Times(L, X, Levels, FlatRows[r]) = Times(Levels, FlatRows[r], L, X) BY TimesSwap
  <2> QED BY <1>3, <1>4, <2>1, <2>2
<1>11. L \cup Levels = Levels BY <1>3
<1> QED BY <1>7, <1>8, <1>10, <1>11 DEF DescendsTo

(* Run: the groups of the rows of all roots. *)
LEMMA TotalsIs ==
  ASSUME keys \subseteq Stored, NEW roots, Rooted(roots)
  PROVE  Grouped(Totals(roots), Levels, RootRows(roots), Levels, NoKey)
<1> DEFINE added == [root \in roots |-> DescendBy(Cross, root, NoKey, Identity)]
<1>1. IsFiniteSet(roots) /\ DOMAIN added = roots BY DEF Rooted
<1>2. \A x \in roots : Grouped(added[x], Levels, FlatRows[x], Levels, NoKey)
  BY RootIs DEF Rooted
<1>3. \A x, y \in roots : x # y => FlatRows[x] \cap FlatRows[y] = {} BY RootRowsApart
<1>4. Totals(roots) = Gathered(added) BY DEF Totals, NoKey
<1> HIDE DEF added
<1>5. PICK K : K = Levels OBVIOUS
<1>6. PICK row : row = NoKey OBVIOUS
<1>7. Groupings(added, roots, FlatRows, K, K, row) BY <1>1, <1>2, <1>3, <1>5, <1>6 DEF Groupings
<1>8. Grouped(Gathered(added), K, UNION {FlatRows[x] : x \in roots}, K, row) BY <1>7, GatheredIs
<1> QED BY <1>4, <1>5, <1>6, <1>8 DEF RootRows

(* The rows of one part, told from those of the others. *)
Tag(p, Z) == {<<p, z>> : z \in Z}

(* Tagging changes neither the number of rows, *)
LEMMA TagIs ==
  ASSUME NEW p, NEW Z \in SUBSET RowsOver(Levels), IsFiniteSet(Z)
  PROVE  Tagged(Tag(p, Z)) /\ Cardinality(Tag(p, Z)) = Cardinality(Z)
<1> DEFINE h == [z \in Z |-> <<p, z>>]
           T == Tag(p, Z)
<1>1. h \in [Z -> T] BY DEF Tag
<1>2. \A x, y \in Z : h[x] = h[y] => x = y OBVIOUS
<1>3. \A t \in T : \E x \in Z : h[x] = t BY DEF Tag
<1>4. \A t \in T : t[2] \in RowsOver(Levels) BY DEF Tag
<1> HIDE DEF h, T
<1>5. h \in Bijection(Z, T)
  BY <1>1, <1>2, <1>3 DEF Bijection, Injection, Surjection, IsInjective
<1>6. IsFiniteSet(T) /\ Cardinality(T) = Cardinality(Z) BY <1>5, FS_Bijection DEF ExistsBijection
<1>7. Tagged(T) BY <1>4, <1>6 DEF Tagged
<1> QED BY <1>6, <1>7 DEF T

(* nor their sums, *)
LEMMA TagSum ==
  ASSUME NEW p, NEW Z \in SUBSET RowsOver(Levels), IsFiniteSet(Z), NEW i \in AggregateIds
  PROVE  SumOver(Tag(p, Z), Aggregates[i].attribute) = Sum(i, Z)
<1> DEFINE h == [z \in Z |-> <<p, z>>]
           T == Tag(p, Z)
           a == Aggregates[i].attribute
           f == [q \in T |-> ValueIn(q[2], a)]
<1>1. h \in [Z -> T] BY DEF Tag
<1>2. \A x, y \in Z : h[x] = h[y] => x = y OBVIOUS
<1>3. \A t \in T : \E x \in Z : h[x] = t BY DEF Tag
<1>4. IsFiniteSet(T) BY TagIs DEF Tagged
<1>5. \A q \in T : q[2] \in RowsOver(Levels) BY DEF Tag
<1>6. f \in [T -> Int]
  <2>1. \A q \in T : ValueIn(q[2], a) \in Int BY <1>5, ValueFacts
  <2> QED BY <2>1
<1>7. SumOver(T, a) = SumFunction(f) BY DEF SumOver
<1>8. \A x \in Z : f[h[x]] = Val(i, x)
  <2>1. \A x \in Z : h[x] \in T /\ h[x][2] = x BY DEF Tag
  <2>2. \A x \in Z : f[h[x]] = ValueIn(h[x][2], a) BY <2>1
  <2>3. \A x \in Z : ValueIn(x, a) = Val(i, x) BY ValueFacts
  <2> QED BY <2>1, <2>2, <2>3
<1> HIDE DEF h, T, a, f
<1>9. [x \in Z |-> f[h[x]]] = [x \in Z |-> Val(i, x)] BY <1>8
<1>10. SumFunction([x \in Z |-> f[h[x]]]) = SumFunction(f) BY <1>1, <1>2, <1>3, <1>4, <1>6, SumReindex
<1>11. SumOver(T, a) = Sum(i, Z) BY <1>7, <1>9, <1>10 DEF Sum
<1> QED BY <1>11 DEF T, a

(* nor their extremes, *)
LEMMA TagExtreme ==
  ASSUME NEW p, NEW Z \in SUBSET RowsOver(Levels), Z # {}, NEW i \in AggregateIds
  PROVE  ExtremeOver(Tag(p, Z), i) = Extreme(i, Z)
<1> DEFINE a == Aggregates[i].attribute
           A == {ValueIn(q[2], a) : q \in Tag(p, Z)}
           B == {Edge(i, z) : z \in Z}
<1>1. \A z \in Z : ValueIn(z, a) = Edge(i, z) BY ValueFacts
<1>2. A = {ValueIn(z, a) : z \in Z}
  <2>1. \A z \in Z : <<p, z>> \in Tag(p, Z) /\ <<p, z>>[2] = z BY DEF Tag
  <2>2. \A q \in Tag(p, Z) : q[2] \in Z BY DEF Tag
  <2> QED BY <2>1, <2>2
<1>3. A = B BY <1>1, <1>2
<1>4. B \in SUBSET Values BY ExtremeType
<1>5. B # {} OBVIOUS
<1>6. ExtremeOver(Tag(p, Z), i) = Best(i, A) /\ Extreme(i, Z) = Ext(i, B) BY DEF ExtremeOver, Extreme
<1> HIDE DEF A, B
<1>7. Ext(i, B) = Best(i, B) BY <1>4, <1>5, ExtSome
<1> QED BY <1>3, <1>6, <1>7

(* nor their keys. *)
LEMMA TagKey ==
  ASSUME keys \subseteq Stored, NEW p, NEW Z \in SUBSET RowsOver(Levels)
  PROVE  /\ \A z \in Z : KeyIn(keys, <<p, z>>) = Key(Levels, NoKey, z)
         /\ {KeyIn(keys, q) : q \in Tag(p, Z)} = {Key(Levels, NoKey, z) : z \in Z}
         /\ \A k : Of(keys, Tag(p, Z), k) = Tag(p, With(Z, Levels, NoKey, k))
<1>1. \A k \in keys : LevelOf(k) \in Levels BY LevelOfIs
<1>2. ASSUME NEW z \in Z PROVE KeyIn(keys, <<p, z>>) = Key(Levels, NoKey, z)
  <2>1. \A k \in keys : ValueIn(z, k) = z[LevelOf(k)].record.value[k] BY DEF ValueIn
  <2>2. KeyIn(keys, <<p, z>>) = [k \in keys |-> ValueIn(z, k)] BY DEF KeyIn
  <2>3. Key(Levels, NoKey, z) = [k \in keys |-> z[LevelOf(k)].record.value[k]] BY <1>1 DEF Key
  <2> QED BY <2>1, <2>2, <2>3
<1>3. {KeyIn(keys, q) : q \in Tag(p, Z)} = {Key(Levels, NoKey, z) : z \in Z} BY <1>2 DEF Tag
<1>4. \A k : Of(keys, Tag(p, Z), k) = Tag(p, With(Z, Levels, NoKey, k)) BY <1>2 DEF Of, Tag, With
<1> QED BY <1>2, <1>3, <1>4

(* GroupBy: the groups of the rows of the roots with what they count and    *)
(* sum.                                                                     *)
LEMMA GroupByIs ==
  ASSUME keys \subseteq Stored, NEW roots, Rooted(roots), NEW p
  PROVE  Exact(keys, GroupBy(roots), Tag(p, RootRows(roots)))
<1> DEFINE totals == Totals(roots)
           Z == RootRows(roots)
           Q == Tag(p, Z)
           W(k) == With(Z, Levels, NoKey, k)
<1>1. Z \in SUBSET RowsOver(Levels) /\ IsFiniteSet(Z) BY RootRowsAre
<1>2. Tagged(Q) BY <1>1, TagIs
<1>3. Grouped(totals, Levels, Z, Levels, NoKey) BY TotalsIs
<1>4. DOMAIN totals = {Key(Levels, NoKey, z) : z \in Z} BY <1>3 DEF Grouped
<1>5. {KeyIn(keys, q) : q \in Q} = DOMAIN totals BY <1>1, <1>4, TagKey
<1>6. ASSUME NEW k \in DOMAIN totals
      PROVE  /\ W(k) \in SUBSET RowsOver(Levels) /\ IsFiniteSet(W(k)) /\ W(k) # {}
             /\ Standing(totals[k], Levels, W(k)) /\ Of(keys, Q, k) = Tag(p, W(k))
  <2>1. W(k) \in SUBSET Z BY DEF With
  <2>2. IsFiniteSet(W(k)) BY <1>1, <2>1, FS_Subset
  <2>3. W(k) # {} BY <1>4 DEF With
  <2>4. Standing(totals[k], Levels, W(k)) BY <1>3 DEF Grouped
  <2>5. Of(keys, Q, k) = Tag(p, W(k)) BY <1>1, TagKey
  <2> QED BY <1>1, <2>1, <2>2, <2>3, <2>4, <2>5
<1> HIDE DEF totals, Z, W
<1>7. \A k \in DOMAIN totals :
        totals[k].count = Cardinality(Of(keys, Q, k)) /\ totals[k].count > 0
  <2> SUFFICES ASSUME NEW k \in DOMAIN totals
               PROVE  totals[k].count = Cardinality(Of(keys, Q, k)) /\ totals[k].count > 0
    OBVIOUS
  <2>1. totals[k].count = Cardinality(W(k)) BY <1>6 DEF Standing
  <2>2. Cardinality(Tag(p, W(k))) = Cardinality(W(k)) BY <1>6, TagIs
  <2>3. Cardinality(W(k)) \in Nat /\ Cardinality(W(k)) # 0
    <3>1. IsFiniteSet(W(k)) /\ W(k) # {} BY <1>6
    <3> QED BY <3>1, FS_CardinalityType, FS_EmptySet
  <2> QED BY <1>6, <2>1, <2>2, <2>3
<1>8. DOMAIN GroupBy(roots) = DOMAIN totals BY <1>7 DEF GroupBy, totals
<1>9. \A k \in DOMAIN totals : GroupBy(roots)[k] = Emitted(totals[k])
  BY <1>7 DEF GroupBy, totals
<1>10. ASSUME NEW k \in DOMAIN totals
       PROVE  /\ Emitted(totals[k]).count = Cardinality(Of(keys, Q, k))
              /\ \A i \in AggregateIds :
                   ~IsExtreme(i) => Emitted(totals[k]).values[i]
                                      = IF IsSum(i) THEN SumOver(Of(keys, Q, k), Aggregates[i].attribute)
                                        ELSE Cardinality(Of(keys, Q, k))
              /\ OnePath(keys) => \A i \in AggregateIds :
                   IsExtreme(i) => Emitted(totals[k]).values[i] = ExtremeOver(Of(keys, Q, k), i)
  <2>1. Emitted(totals[k]).count = Cardinality(Of(keys, Q, k)) BY <1>7 DEF Emitted
  <2>2. ASSUME NEW i \in AggregateIds, ~IsExtreme(i)
        PROVE  Emitted(totals[k]).values[i]
                 = IF IsSum(i) THEN SumOver(Of(keys, Q, k), Aggregates[i].attribute)
                   ELSE Cardinality(Of(keys, Q, k))
    <3>1. CASE IsSum(i)
      <4>1. Emitted(totals[k]).values[i] = totals[k].sums[i] BY <3>1 DEF Emitted
      <4>2. totals[k].sums[i] = Sum(i, W(k)) BY <1>6, <3>1 DEF Standing
      <4>3. SumOver(Tag(p, W(k)), Aggregates[i].attribute) = Sum(i, W(k)) BY <1>6, TagSum
      <4> QED BY <1>6, <3>1, <4>1, <4>2, <4>3
    <3>2. CASE ~IsSum(i)
      <4>1. Emitted(totals[k]).values[i] = totals[k].count BY <2>2, <3>2 DEF Emitted
      <4> QED BY <1>7, <3>2, <4>1
    <3> QED BY <3>1, <3>2
  <2>3. ASSUME OnePath(keys), NEW i \in AggregateIds, IsExtreme(i)
        PROVE  Emitted(totals[k]).values[i] = ExtremeOver(Of(keys, Q, k), i)
    <3>1. ~IsSum(i) BY <2>3 DEF IsSum, IsExtreme
    <3>2. Emitted(totals[k]).values[i] = totals[k].extremes[i] BY <2>3, <3>1 DEF Emitted
    <3>3. KeysOnOnePath BY <2>3, OnePathIs
    <3>4. totals[k].extremes[i] = Extreme(i, W(k)) BY <1>6, <2>3, <3>3 DEF Standing
    <3>5. ExtremeOver(Tag(p, W(k)), i) = Extreme(i, W(k)) BY <1>6, TagExtreme
    <3> QED BY <1>6, <3>2, <3>4, <3>5
  <2> QED BY <2>1, <2>2, <2>3
<1> HIDE DEF Q
<1>11. Exact(keys, GroupBy(roots), Q) BY <1>2, <1>5, <1>8, <1>9, <1>10 DEF Exact
<1> QED BY <1>11 DEF Q, Z

-----------------------------------------------------------------------------
RowsOf(ps) == UNION {Tag(p, RootRows(ps[p])) : p \in DOMAIN ps}

(* The inductive invariant: the groups so far are those of the parts so    *)
(* far.                                                                    *)
PartsTaken ==
  /\ parts \in Seq(SUBSET Records) /\ Len(parts) <= Len(Parts)
  /\ \A p \in DOMAIN parts : parts[p] \in Parts[p]
FoldInvariant == keys \in KeySets /\ PartsTaken /\ Exact(keys, groups, RowsOf(parts))

(* One part more adds its rows, and nothing of them was there before.      *)
LEMMA RowsAppended ==
  ASSUME NEW ps \in Seq(SUBSET Records), NEW roots \in SUBSET Records
  PROVE  /\ RowsOf(Append(ps, roots)) = RowsOf(ps) \cup Tag(Len(ps) + 1, RootRows(roots))
         /\ RowsOf(ps) \cap Tag(Len(ps) + 1, RootRows(roots)) = {}
<1> DEFINE qs == Append(ps, roots)
           n == Len(ps) + 1
<1>1. /\ DOMAIN ps = 1 .. Len(ps) /\ Len(ps) \in Nat
      /\ DOMAIN qs = 1 .. n /\ qs[n] = roots /\ \A p \in DOMAIN ps : qs[p] = ps[p]
  OBVIOUS
<1>2. DOMAIN qs = DOMAIN ps \cup {n} /\ n \notin DOMAIN ps BY <1>1
<1> HIDE DEF qs, n
<1>3. RowsOf(qs) = RowsOf(ps) \cup Tag(n, RootRows(roots)) BY <1>1, <1>2 DEF RowsOf
<1>4. \A q \in Tag(n, RootRows(roots)) : q[1] = n BY DEF Tag
<1>5. \A q \in RowsOf(ps) : q[1] \in DOMAIN ps BY DEF RowsOf, Tag
<1> QED BY <1>2, <1>3, <1>4, <1>5 DEF qs, n

(* The invariant holds before the first part. *)
LEMMA FoldInit == Init => FoldInvariant
<1> SUFFICES ASSUME Init PROVE FoldInvariant OBVIOUS
<1>1. keys \in KeySets BY DEF Init
<1>2. parts = <<>> /\ groups = <<>> BY DEF Init
<1>3. PartsTaken BY <1>2, PartsAssumption DEF PartsTaken
<1>4. RowsOf(parts) = {} BY <1>2 DEF RowsOf
<1>5. Tagged({}) BY FS_EmptySet DEF Tagged
<1>6. DOMAIN groups = {} BY <1>2
<1>7. Exact(keys, groups, {}) BY <1>5, <1>6 DEF Exact
<1> QED BY <1>1, <1>3, <1>4, <1>7 DEF FoldInvariant

(* The roots of a part are roots. *)
LEMMA PartRooted == ASSUME NEW p \in DOMAIN Parts, NEW roots \in Parts[p] PROVE Rooted(roots)
BY PartsAssumption DEF Rooted

(* One part more keeps it. *)
LEMMA FoldStep == FoldInvariant /\ FoldPart => FoldInvariant'
<1> SUFFICES ASSUME FoldInvariant, FoldPart PROVE FoldInvariant' OBVIOUS
<1> DEFINE n == Len(parts) + 1
<1>1. PICK roots \in Parts[n] :
        parts' = Append(parts, roots) /\ groups' = MergeGroups(groups, GroupBy(roots))
  BY DEF FoldPart
<1>2. keys' = keys /\ keys \in KeySets /\ keys \subseteq Stored
  BY QueryAssumption DEF FoldPart, FoldInvariant
<1>3. parts \in Seq(SUBSET Records) /\ Len(parts) < Len(Parts) BY DEF FoldInvariant, PartsTaken, FoldPart
<1>4. n \in DOMAIN Parts BY <1>3, PartsAssumption
<1>5. Rooted(roots) BY <1>1, <1>4, PartRooted
<1>6. roots \in SUBSET Records BY <1>5 DEF Rooted
<1>7. PartsTaken'
  <2>1. \A p \in DOMAIN parts : parts[p] \in Parts[p] BY DEF FoldInvariant, PartsTaken
  <2>2. parts' \in Seq(SUBSET Records) /\ Len(parts') = n BY <1>1, <1>3, <1>6
  <2>3. Len(parts') <= Len(Parts) BY <1>3, <2>2, PartsAssumption
  <2>4. \A p \in DOMAIN parts' : parts'[p] \in Parts[p] BY <1>1, <1>3, <2>1
  <2> QED BY <2>2, <2>3, <2>4 DEF PartsTaken
<1> DEFINE R == Tag(n, RootRows(roots))
           Q == RowsOf(parts)
<1>8. Exact(keys, GroupBy(roots), R) BY <1>2, <1>5, GroupByIs
<1>9. RowsOf(Append(parts, roots)) = Q \cup R /\ Q \cap R = {} BY <1>3, <1>6, RowsAppended
<1>10. Exact(keys, groups, Q) BY DEF FoldInvariant
<1> HIDE DEF Q, R
<1>11. Exact(keys, MergeGroups(groups, GroupBy(roots)), Q \cup R) BY <1>8, <1>9, <1>10, MergeIs
<1>12. Exact(keys', groups', RowsOf(parts')) BY <1>1, <1>2, <1>9, <1>11
<1> QED BY <1>2, <1>7, <1>12 DEF FoldInvariant

(* The inductive invariant holds throughout: after any number of parts,     *)
(* folded by Run and put together by MergeGroups (plan.cpp, GroupBy and     *)
(* CombineGroups), the groups are exactly those of the parts' rows, with    *)
(* exact counts and sums, and with exact extremes if the keys lie on one    *)
(* path of the f-tree.                                                      *)
THEOREM FoldInvariantHolds == Spec => []FoldInvariant
<1>1. Init => FoldInvariant BY FoldInit
<1>2. FoldInvariant /\ [Next]_vars => FoldInvariant'
  <2> SUFFICES ASSUME FoldInvariant, [Next]_vars PROVE FoldInvariant' OBVIOUS
  <2>1. CASE FoldPart BY <2>1, FoldStep
  <2>2. CASE UNCHANGED vars
    <3>1. keys' = keys /\ parts' = parts /\ groups' = groups BY <2>2 DEF vars
    <3>2. PartsTaken' BY <3>1 DEF FoldInvariant, PartsTaken
    <3>3. Exact(keys', groups', RowsOf(parts')) BY <3>1 DEF FoldInvariant
    <3> QED BY <3>1, <3>2, <3>3 DEF FoldInvariant
  <2> QED BY <2>1, <2>2 DEF Next, Done
<1> QED BY <1>1, <1>2, PTL DEF Spec

(* The rows the properties speak of are those of the invariant. *)
LEMMA RowsAre == Rows = RowsOf(parts)
BY DEF Rows, RowsOf, Tag, RootRows

(* The invariant says that counts and sums are exact, *)
LEMMA ReadCounts == FoldInvariant => CountsAndSumsAreExact
<1> SUFFICES ASSUME FoldInvariant PROVE CountsAndSumsAreExact OBVIOUS
<1>1. Exact(keys, groups, Rows) BY RowsAre DEF FoldInvariant
<1>2. \A row : RowKey(row) = KeyIn(keys, row) BY DEF RowKey, KeyIn
<1>3. DOMAIN groups = {RowKey(row) : row \in Rows} BY <1>1, <1>2 DEF Exact
<1>4. \A k : {row \in Rows : RowKey(row) = k} = Of(keys, Rows, k) BY <1>2 DEF Of
<1> HIDE DEF Rows
<1> QED BY <1>1, <1>3, <1>4 DEF Exact, CountsAndSumsAreExact

(* and extremes where the keys lie on one path. *)
LEMMA ReadExtremes == FoldInvariant => ExtremesExactOnOnePath
<1> SUFFICES ASSUME FoldInvariant, KeysOnOnePath PROVE ExtremesAreExact BY DEF ExtremesExactOnOnePath
<1>1. Exact(keys, groups, Rows) BY RowsAre DEF FoldInvariant
<1>2. OnePath(keys) BY OnePathIs
<1>3. \A row : RowKey(row) = KeyIn(keys, row) BY DEF RowKey, KeyIn
<1>4. \A k : {row \in Rows : RowKey(row) = k} = Of(keys, Rows, k) BY <1>3 DEF Of
<1> QED BY <1>1, <1>2, <1>4 DEF Exact, ExtremesAreExact

(* The grouped fold and the merge of its buckets name exactly the groups of *)
(* the flat join, with their exact counts and sums: for every f-tree,       *)
(* representation, choice of keys, list of aggregates and partition into    *)
(* buckets.                                                                 *)
THEOREM CountsAndSumsAlwaysExact == Spec => []CountsAndSumsAreExact
BY FoldInvariantHolds, ReadCounts, PTL

(* So do the extremes of every group, wherever the keys do not lie in       *)
(* sibling branches: empty subtrees, slots without a key and the merge of   *)
(* buckets never bring in a value that no tuple of the group carries        *)
(* (plan.cpp, Combine).                                                     *)
THEOREM ExtremesAlwaysExactOnOnePath == Spec => []ExtremesExactOnOnePath
BY FoldInvariantHolds, ReadExtremes, PTL
=============================================================================
