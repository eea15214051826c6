------------------------- MODULE SliceMemoryProofs -------------------------
(***************************************************************************)
(* That counting a join piece by piece counts every tuple exactly once,    *)
(* that a limit is met and not exceeded, and that a slice is only stopped  *)
(* for a sibling that has tried every modulus: for any join, any hashes of *)
(* its keys, any number of slices and any sequence of factors.             *)
(*                                                                         *)
(* The argument.  However a bucket is cut, each of its tuples is in one    *)
(* piece, whose number a tuple determines (Index).  So what a call holds   *)
(* while it counts are the tuples of its bucket in the pieces before the   *)
(* next one, each once; starting over loses them all, and finishing adds   *)
(* the whole bucket to the buckets before.                                 *)
(***************************************************************************)
EXTENDS SliceMemory, FiniteSetTheorems, TLAPS

(* What a quotient and a remainder are. *)
LEMMA DivMod ==
  ASSUME NEW n \in Int, NEW m \in Nat \ {0}
  PROVE  /\ n \div m \in Int /\ n % m \in 0 .. m - 1
         /\ n = m * (n \div m) + (n % m)
OBVIOUS

(* A product grows with its factor. *)
LEMMA ProductMonotonic ==
  ASSUME NEW a \in Int, NEW b \in Int, NEW m \in Nat, a <= b
  PROVE  m * a <= m * b
OBVIOUS

(* A number has one quotient and one remainder. *)
LEMMA DivisionUnique ==
  ASSUME NEW m \in Nat \ {0}, NEW q \in Int, NEW p \in Int,
         NEW r \in 0 .. m - 1, NEW s \in 0 .. m - 1,
         m * q + r = m * p + s
  PROVE  q = p /\ r = s
<1>1. m * q \in Int /\ m * p \in Int /\ m * (p - q) \in Int
  OBVIOUS
<1>2. m * (p - q) = r - s
  <2>1. m * (p - q) = m * p - m * q OBVIOUS
  <2> QED BY <1>1, <2>1
<1>3. ~(p - q >= 1)
  <2> SUFFICES ASSUME p - q >= 1 PROVE FALSE OBVIOUS
  <2>1. m * 1 <= m * (p - q) BY ProductMonotonic
  <2> QED BY <2>1, <1>2, <1>1
<1>4. ~(p - q <= -1)
  <2> SUFFICES ASSUME p - q <= -1 PROVE FALSE OBVIOUS
  <2>1. m * (p - q) <= m * (-1) BY ProductMonotonic
  <2> QED BY <2>1, <1>2, <1>1
<1> QED BY <1>3, <1>4, <1>1

(* Any such pair is the quotient and the remainder. *)
LEMMA DivisionIs ==
  ASSUME NEW n \in Int, NEW m \in Nat \ {0}, NEW q \in Int, NEW r \in 0 .. m - 1,
         n = m * q + r
  PROVE  n \div m = q /\ n % m = r
BY DivMod, DivisionUnique

(* The remainder by a product tells both the remainder by one factor and   *)
(* that of the quotient by the other.                                      *)
LEMMA RemainderSplits ==
  ASSUME NEW n \in Int, NEW m \in Nat \ {0}, NEW f \in Nat \ {0}
  PROVE  n % (m * f) = (n % m) + ((n \div m) % f) * m
<1> DEFINE q == n \div m
           k == q \div f
           j == q % f
           r == n % m
<1>1. /\ q \in Int /\ r \in 0 .. m - 1 /\ n = m * q + r
      /\ k \in Int /\ j \in 0 .. f - 1 /\ q = f * k + j
  BY DivMod
<1> HIDE DEF q, k, j, r
<1>2. m * f \in Nat \ {0} /\ m * j \in Int /\ j * m = m * j
  BY <1>1
<1>3. n = (m * f) * k + (r + j * m)
  <2>1. m * q = m * (f * k) + m * j BY <1>1
  <2>2. m * (f * k) = (m * f) * k BY <1>1
  <2> QED BY <2>1, <2>2, <1>1
<1>4. r + j * m \in 0 .. (m * f) - 1
  <2>1. m * j <= m * (f - 1) BY <1>1, ProductMonotonic
  <2>2. m * (f - 1) = m * f - m OBVIOUS
  <2>3. 0 <= m * j BY <1>1
  <2> QED BY <2>1, <2>2, <2>3, <1>1, <1>2
<1>5. n % (m * f) = r + j * m
  <2> DEFINE M == m * f
             R == r + j * m
  <2>1. M \in Nat \ {0} /\ R \in 0 .. M - 1 /\ n = M * k + R BY <1>2, <1>3, <1>4
  <2> HIDE DEF M, R
  <2>2. n % M = R BY <2>1, <1>1, DivisionIs
  <2> QED BY <2>2 DEF M, R
<1> QED BY <1>5 DEF q, j, r

-----------------------------------------------------------------------------
(* The piece of attempt a that a tuple belongs to. *)
Index(x, a) ==
  IF a = 0 THEN 0
  ELSE IF a <= LastFactor THEN (KeyHash[x] \div Modulus) % Factors[a]
  ELSE OtherHash[x] % SecondParts[a - LastFactor]

(* The tuples of bucket b in the pieces before piece p, and of the buckets *)
(* before b.                                                               *)
Covered(b, a, p) == {x \in input : InBucket(x, b) /\ Index(x, a) < p}
Before(b) == {x \in input : KeyHash[x] % Modulus < b}

Types ==
  /\ query \in Queries /\ input \in Inputs
  /\ bucket \in [AllCalls -> 0 .. Modulus - 1]
  /\ attempt \in [AllCalls -> 0 .. LastAttempt]
  /\ part \in [AllCalls -> Nat]
  /\ got \in [AllCalls -> [Tuples -> Nat]]
  /\ total \in [AllCalls -> [Tuples -> Nat]]
  /\ verdict \in [AllCalls -> {"running", "ok", "failed", "stopped"}]
  /\ abandoned \in BOOLEAN

(* A slice counts the bucket of its own number, the others all of them. *)
OwnBucket(c) == query.kind = "slice" => bucket[c] = c
CountedBefore(c) == IF query.kind = "slice" THEN {} ELSE Before(bucket[c])
CoveredBy(c) == Covered(bucket[c], attempt[c], part[c])

(* What a running call holds. *)
Underway(c) ==
  verdict[c] = "running" =>
    /\ part[c] < Pieces(attempt[c])
    /\ got[c] = Once(CoveredBy(c))
    /\ total[c] = Once(CountedBefore(c))
    /\ query.kind = "list" /\ query.limit > 0 => Cardinality(CoveredBy(c)) < query.limit

(* What a call that has ended well may have counted. *)
Wanted ==
  IF query.limit = 0 \/ query.limit > Cardinality(input)
  THEN Cardinality(input) ELSE query.limit

Complete(c, T) ==
  /\ query.kind = "slice" => T = {x \in input : InBucket(x, c)}
  /\ query.kind = "whole" => T = input
  /\ query.kind = "atMost" => T = input \/ Cardinality(T) >= query.limit
  /\ query.kind = "list" => Cardinality(T) = Wanted

Answered(c) ==
  verdict[c] = "ok" => \E T \in SUBSET input : total[c] = Once(T) /\ Complete(c, T)

(* The flag is raised by a call that then fails, all its moduli tried. *)
RaisedForCause ==
  abandoned => \E d \in Calls : verdict[d] = "failed" /\ attempt[d] >= LastFactor
StoppedByFlag == \A c \in Calls : verdict[c] = "stopped" => abandoned

Local(c) == OwnBucket(c) /\ Underway(c) /\ Answered(c)

IInv ==
  /\ Types
  /\ \A c \in Calls : Local(c)
  /\ RaisedForCause /\ StoppedByFlag

-----------------------------------------------------------------------------
(* Numbers of calls, buckets and pieces. *)

(* The numbers of an attempt are natural. *)
LEMMA ModulusType ==
  ASSUME query \in Queries
  PROVE  /\ Modulus \in Nat \ {0}
         /\ query.kind = "slice" => Modulus = Slices
         /\ query.kind \in {"whole", "list"} => Modulus = 1
BY PartsAssumption DEF Modulus, Queries, Kinds

(* The attempts are the factors and, for a slice, the second partitions. *)
LEMMA AttemptsType ==
  ASSUME query \in Queries
  PROVE  /\ LastFactor \in Nat /\ LastAttempt \in Nat
         /\ LastFactor <= LastAttempt
         /\ LastAttempt <= LastFactor + Len(SecondParts)
         /\ Len(SecondParts) \in Nat
BY PartsAssumption DEF LastFactor, LastAttempt

(* Every attempt has at least one piece. *)
LEMMA PiecesType ==
  ASSUME query \in Queries, NEW a \in 0 .. LastAttempt
  PROVE  /\ Pieces(a) \in Nat \ {0}
         /\ a # 0 /\ a <= LastFactor => Factors[a] \in Nat \ {0} /\ Pieces(a) = Factors[a]
         /\ a > LastFactor => /\ SecondParts[a - LastFactor] \in Nat \ {0}
                              /\ Pieces(a) = SecondParts[a - LastFactor]
<1>1. /\ LastFactor \in Nat /\ LastAttempt \in Nat
      /\ LastAttempt <= LastFactor + Len(SecondParts) /\ Len(SecondParts) \in Nat
  BY AttemptsType
<1>2. CASE a = 0 BY <1>1, <1>2 DEF Pieces
<1>3. CASE a # 0 /\ a <= LastFactor
  <2>1. a \in 1 .. Len(Factors) BY <1>1, <1>3 DEF LastFactor
  <2>2. Factors[a] \in Nat \ {0} BY <2>1, PartsAssumption
  <2> QED BY <2>2, <1>1, <1>3 DEF Pieces
<1>4. CASE a > LastFactor
  <2>1. a - LastFactor \in 1 .. Len(SecondParts) BY <1>1, <1>4
  <2>2. SecondParts[a - LastFactor] \in Nat \ {0} BY <2>1, PartsAssumption
  <2> QED BY <2>2, <1>1, <1>4 DEF Pieces
<1> QED BY <1>1, <1>2, <1>3, <1>4

(* The calls of a query: one, or one per bucket. *)
LEMMA CallsType ==
  ASSUME query \in Queries
  PROVE  /\ Calls \subseteq AllCalls /\ 0 \in AllCalls
         /\ query.kind # "slice" => Calls = {0}
         /\ query.kind = "slice" => Calls = 0 .. Modulus - 1
BY PartsAssumption DEF Calls, AllCalls, Modulus

(* Each tuple of a bucket is in exactly one piece of an attempt. *)
LEMMA IndexType ==
  ASSUME query \in Queries, NEW x \in Tuples, NEW a \in 0 .. LastAttempt
  PROVE  Index(x, a) \in 0 .. Pieces(a) - 1
<1>1. KeyHash[x] \in Nat /\ OtherHash[x] \in Nat BY TuplesAssumption
<1>2. Modulus \in Nat \ {0} BY ModulusType
<1>3. KeyHash[x] \div Modulus \in Int
  <2> DEFINE n == KeyHash[x]
             m == Modulus
  <2>1. n \in Int /\ m \in Nat \ {0} BY <1>1, <1>2
  <2> HIDE DEF n, m
  <2>2. n \div m \in Int BY <2>1, DivMod
  <2> QED BY <2>2 DEF n, m
<1>4. LastFactor \in Nat BY AttemptsType
<1>5. CASE a = 0 BY <1>5 DEF Index, Pieces
<1>6. CASE a # 0 /\ a <= LastFactor
  <2>1. Factors[a] \in Nat \ {0} /\ Pieces(a) = Factors[a] BY <1>6, PiecesType
  <2>2. (KeyHash[x] \div Modulus) % Factors[a] \in 0 .. Factors[a] - 1
    <3> DEFINE n == KeyHash[x] \div Modulus
               m == Factors[a]
    <3>1. n \in Int /\ m \in Nat \ {0} BY <2>1, <1>3
    <3> HIDE DEF n, m
    <3>2. n % m \in 0 .. m - 1 BY <3>1, DivMod
    <3> QED BY <3>2 DEF n, m
  <2> QED BY <2>1, <2>2, <1>6 DEF Index
<1>7. CASE a > LastFactor
  <2>1. SecondParts[a - LastFactor] \in Nat \ {0} /\ Pieces(a) = SecondParts[a - LastFactor]
    BY <1>7, PiecesType
  <2>2. OtherHash[x] % SecondParts[a - LastFactor] \in 0 .. SecondParts[a - LastFactor] - 1
    <3> DEFINE n == OtherHash[x]
               m == SecondParts[a - LastFactor]
    <3>1. n \in Int /\ m \in Nat \ {0} BY <2>1, <1>1
    <3> HIDE DEF n, m
    <3>2. n % m \in 0 .. m - 1 BY <3>1, DivMod
    <3> QED BY <3>2 DEF n, m
  <2> QED BY <2>1, <2>2, <1>4, <1>7 DEF Index
<1> QED BY <1>4, <1>5, <1>6, <1>7

(* A piece is the tuples of its bucket with the piece's index. *)
LEMMA PieceIs ==
  ASSUME query \in Queries, input \in SUBSET Tuples, NEW b \in 0 .. Modulus - 1,
         NEW a \in 0 .. LastAttempt, NEW p \in 0 .. Pieces(a) - 1
  PROVE  Piece(b, a, p) = {x \in input : InBucket(x, b) /\ Index(x, a) = p}
<1>1. Modulus \in Nat \ {0} BY ModulusType
<1>2. CASE a = 0 BY <1>2 DEF Piece, Index, Pieces
<1>3. CASE a # 0 /\ a <= LastFactor
  <2>1. Factors[a] \in Nat \ {0} /\ Pieces(a) = Factors[a] BY <1>3, PiecesType
  <2>2. ASSUME NEW x \in input
        PROVE  Congruent(x, b, Factors[a], p) <=> InBucket(x, b) /\ Index(x, a) = p
    <3>1. KeyHash[x] \in Int BY TuplesAssumption
    <3>2. KeyHash[x] % (Modulus * Factors[a]) = b + p * Modulus
            <=> KeyHash[x] % Modulus = b /\ (KeyHash[x] \div Modulus) % Factors[a] = p
      <4> DEFINE n == KeyHash[x]
                 m == Modulus
                 f == Factors[a]
      <4>1. n \in Int /\ m \in Nat \ {0} /\ f \in Nat \ {0}
        BY <3>1, <2>1, <1>1
      <4>2. b \in 0 .. m - 1 /\ p \in 0 .. f - 1 BY <2>1
      <4> HIDE DEF n, m, f
      <4>3. n % (m * f) = (n % m) + ((n \div m) % f) * m
        BY <4>1, RemainderSplits
      <4>4. /\ n \div m \in Int /\ n % m \in 0 .. m - 1 /\ (n \div m) % f \in 0 .. f - 1
        <5>1. n \div m \in Int /\ n % m \in 0 .. m - 1 BY <4>1, DivMod
        <5> DEFINE q == n \div m
        <5> HIDE DEF q
        <5>2. q \in Int BY <5>1 DEF q
        <5>3. q % f \in 0 .. f - 1 BY <5>2, <4>1, DivMod
        <5> QED BY <5>1, <5>3 DEF q
      <4> DEFINE r == n % m
                 j == (n \div m) % f
      <4>5. r \in 0 .. m - 1 /\ j \in 0 .. f - 1 BY <4>4
      <4> HIDE DEF r, j
      <4>6. r + j * m = b + p * m <=> r = b /\ j = p
        <5>1. ASSUME m * j + r = m * p + b PROVE j = p /\ r = b
          BY <5>1, <4>5, <4>1, <4>2, DivisionUnique
        <5>2. j * m = m * j /\ p * m = m * p /\ m * j \in Int /\ m * p \in Int
          BY <4>5, <4>1, <4>2
        <5> QED BY <5>1, <5>2, <4>1, <4>2, <4>5
      <4> QED BY <4>3, <4>6 DEF n, m, f, r, j
    <3> QED BY <3>2, <1>3 DEF Congruent, InBucket, Index
  <2> QED BY <2>2, <1>3 DEF Piece
<1>4. CASE a # 0 /\ ~(a <= LastFactor) BY <1>4 DEF Piece, Index
<1> QED BY <1>2, <1>3, <1>4

(* There are finitely many tuples. *)
LEMMA InputFinite ==
  ASSUME input \in Inputs
  PROVE  /\ input \in SUBSET Tuples
         /\ \A S \in SUBSET input : IsFiniteSet(S) /\ Cardinality(S) \in Nat
<1>1. input \in SUBSET Tuples /\ IsFiniteSet(Tuples) BY TuplesAssumption
<1>2. ASSUME NEW S \in SUBSET input PROVE IsFiniteSet(S) /\ Cardinality(S) \in Nat
  <2>1. S \in SUBSET Tuples BY <1>1
  <2>2. IsFiniteSet(S) BY <2>1, <1>1, FS_Subset
  <2> QED BY <2>2, FS_CardinalityType
<1> QED BY <1>1, <1>2

-----------------------------------------------------------------------------
(* Bags that hold a tuple once or not at all. *)

(* Once(S) is the bag with one of each member of S; a bag has a size. *)
LEMMA OnceType == ASSUME NEW S PROVE Once(S) \in [Tuples -> Nat]
BY DEF Once

LEMMA OnceNothing == NoTuples = Once({})
BY DEF NoTuples, Once

LEMMA OncePlus ==
  ASSUME NEW S, NEW T, S \cap T = {}
  PROVE  Plus(Once(S), Once(T)) = Once(S \cup T)
BY DEF Plus, Once

LEMMA SizeOnce ==
  ASSUME NEW S \in SUBSET Tuples
  PROVE  Size(Once(S)) = Cardinality(S)
<1> DEFINE times == UNION {{x} \X (1 .. Once(S)[x]) : x \in Tuples}
<1>1. \A x \in Tuples : Once(S)[x] = IF x \in S THEN 1 ELSE 0 BY DEF Once
<1>2. times = S \X {1}
  <2>1. \A x \in Tuples : {x} \X (1 .. Once(S)[x]) = IF x \in S THEN {<<x, 1>>} ELSE {}
    <3> SUFFICES ASSUME NEW x \in Tuples
                 PROVE  {x} \X (1 .. Once(S)[x]) = IF x \in S THEN {<<x, 1>>} ELSE {}
      OBVIOUS
    <3>1. CASE x \in S
      <4>1. 1 .. Once(S)[x] = {1} BY <3>1, <1>1
      <4> QED BY <4>1, <3>1
    <3>2. CASE x \notin S
      <4>1. 1 .. Once(S)[x] = {} BY <3>2, <1>1
      <4> QED BY <4>1, <3>2
    <3> QED BY <3>1, <3>2
  <2>2. times = UNION {IF x \in S THEN {<<x, 1>>} ELSE {} : x \in Tuples} BY <2>1
  <2>3. UNION {IF x \in S THEN {<<x, 1>>} ELSE {} : x \in Tuples} = {<<x, 1>> : x \in S}
    OBVIOUS
  <2>4. {<<x, 1>> : x \in S} = S \X {1} OBVIOUS
  <2> QED BY <2>2, <2>3, <2>4
<1>3. IsFiniteSet(S) BY TuplesAssumption, FS_Subset
<1>4. IsFiniteSet({1}) /\ Cardinality({1}) = 1 BY FS_Singleton
<1>5. Cardinality(S \X {1}) = Cardinality(S) * 1 BY <1>3, <1>4, FS_Product
<1>6. Cardinality(S) \in Nat BY <1>3, FS_CardinalityType
<1> QED BY <1>2, <1>5, <1>6 DEF Size

-----------------------------------------------------------------------------
(* Pieces add up to their bucket, buckets to the join. *)

(* The pieces before p, with piece p, are those before p + 1. *)
LEMMA PiecesAddUp ==
  ASSUME query \in Queries, input \in Inputs, NEW b \in 0 .. Modulus - 1,
         NEW a \in 0 .. LastAttempt, NEW p \in 0 .. Pieces(a) - 1
  PROVE  /\ Covered(b, a, 0) = {}
         /\ Piece(b, a, p) \in SUBSET input
         /\ Covered(b, a, p) \cap Piece(b, a, p) = {}
         /\ Covered(b, a, p) \cup Piece(b, a, p) = Covered(b, a, p + 1)
         /\ Covered(b, a, Pieces(a)) = {x \in input : InBucket(x, b)}
<1>1. input \in SUBSET Tuples BY InputFinite
<1>2. Piece(b, a, p) = {x \in input : InBucket(x, b) /\ Index(x, a) = p} BY <1>1, PieceIs
<1>3. Pieces(a) \in Nat \ {0} BY PiecesType
<1>4. \A x \in input : Index(x, a) \in 0 .. Pieces(a) - 1 BY <1>1, IndexType
<1> QED BY <1>1, <1>2, <1>3, <1>4 DEF Covered

(* So are buckets. *)
LEMMA BucketsAddUp ==
  ASSUME query \in Queries, input \in Inputs, NEW b \in 0 .. Modulus - 1
  PROVE  /\ Before(0) = {} /\ Before(Modulus) = input
         /\ Before(b) \cap {x \in input : InBucket(x, b)} = {}
         /\ Before(b) \cup {x \in input : InBucket(x, b)} = Before(b + 1)
<1>1. input \in SUBSET Tuples BY InputFinite
<1>2. Modulus \in Nat \ {0} BY ModulusType
<1>3. \A x \in input : KeyHash[x] % Modulus \in 0 .. Modulus - 1
  <2> SUFFICES ASSUME NEW x \in input PROVE KeyHash[x] % Modulus \in 0 .. Modulus - 1
    OBVIOUS
  <2> DEFINE n == KeyHash[x]
             m == Modulus
  <2>1. n \in Int /\ m \in Nat \ {0} BY <1>1, <1>2, TuplesAssumption
  <2> HIDE DEF n, m
  <2>2. n % m \in 0 .. m - 1 BY <2>1, DivMod
  <2> QED BY <2>2 DEF n, m
<1> QED BY <1>2, <1>3 DEF Before, InBucket

(* What a piece supplies is new, and only a list that is full leaves some  *)
(* of it behind.                                                           *)
LEMMA SupplyIs ==
  ASSUME Types, NEW c \in Calls, Local(c), Counting(c), NEW found \in Supplies(c)
  PROVE  /\ found \in SUBSET Piece(bucket[c], attempt[c], part[c])
         /\ CoveredBy(c) \cup found \in SUBSET input
         /\ Plus(got[c], Once(found)) = Once(CoveredBy(c) \cup found)
         /\ Size(Plus(got[c], Once(found))) = Cardinality(CoveredBy(c) \cup found)
         /\ Cardinality(CoveredBy(c) \cup found) \in Nat
         /\ found # Piece(bucket[c], attempt[c], part[c])
              => /\ query.kind = "list" /\ query.limit > 0
                 /\ Cardinality(CoveredBy(c) \cup found) = query.limit
         /\ query.kind = "list" /\ query.limit > 0
              => Cardinality(CoveredBy(c) \cup found) <= query.limit
<1> DEFINE piece == Piece(bucket[c], attempt[c], part[c])
           held  == CoveredBy(c)
<1>1. /\ query \in Queries /\ input \in Inputs /\ c \in AllCalls
      /\ bucket[c] \in 0 .. Modulus - 1 /\ attempt[c] \in 0 .. LastAttempt /\ part[c] \in Nat
  BY CallsType DEF Types
<1>2. /\ verdict[c] = "running" /\ part[c] < Pieces(attempt[c])
      /\ got[c] = Once(held)
      /\ query.kind = "list" /\ query.limit > 0 => Cardinality(held) < query.limit
  BY DEF Local, Underway, Counting
<1>3. part[c] \in 0 .. Pieces(attempt[c]) - 1 BY <1>1, <1>2, PiecesType
<1>4. piece \in SUBSET input /\ held \cap piece = {} BY <1>1, <1>3, PiecesAddUp DEF CoveredBy
<1>5. held \in SUBSET input BY DEF CoveredBy, Covered
<1>6. query.limit \in Nat BY <1>1, PartsAssumption DEF Queries
<1>7. Size(got[c]) = Cardinality(held) /\ Cardinality(held) \in Nat /\ IsFiniteSet(held)
  BY <1>1, <1>2, <1>5, SizeOnce, InputFinite
<1> HIDE DEF piece, held
<1>8. Supplies(c) = IF query.kind = "list" /\ query.limit > 0 /\ Cardinality(piece) > Remaining(c)
                    THEN {f \in SUBSET piece : Cardinality(f) = Remaining(c)}
                    ELSE {piece}
  BY DEF Supplies, piece
<1>9. found \in SUBSET piece BY <1>8
<1>10. held \cup found \in SUBSET input /\ held \cap found = {} BY <1>4, <1>5, <1>9
<1>11. Plus(got[c], Once(found)) = Once(held \cup found) BY <1>2, <1>10, OncePlus
<1>12. held \cup found \in SUBSET Tuples BY <1>1, <1>10, InputFinite
<1>13. Size(Once(held \cup found)) = Cardinality(held \cup found) BY <1>12, SizeOnce
<1>14. Cardinality(held \cup found) = Cardinality(held) + Cardinality(found)
  <2>1. IsFiniteSet(found) /\ Cardinality(found) \in Nat BY <1>1, <1>10, InputFinite
  <2>2. Cardinality(held \cap found) = 0 BY <1>10, FS_EmptySet
  <2>3. Cardinality(held \cup found)
          = Cardinality(held) + Cardinality(found) - Cardinality(held \cap found)
    BY <2>1, <1>7, FS_Union
  <2> QED BY <2>1, <2>2, <2>3, <1>7
<1>15. Cardinality(found) \in Nat /\ Cardinality(piece) \in Nat
  BY <1>1, <1>4, <1>10, InputFinite
<1>16. Remaining(c) = query.limit - Cardinality(held) BY <1>7 DEF Remaining
<1>17. found # piece => /\ query.kind = "list" /\ query.limit > 0
                        /\ Cardinality(held \cup found) = query.limit
  BY <1>8, <1>14, <1>15, <1>16, <1>7, <1>6
<1>18. query.kind = "list" /\ query.limit > 0 => Cardinality(held \cup found) <= query.limit
  BY <1>8, <1>14, <1>15, <1>16, <1>7, <1>6
<1> QED BY <1>7, <1>9, <1>10, <1>11, <1>13, <1>14, <1>15, <1>17, <1>18 DEF piece, held

-----------------------------------------------------------------------------
(* The question stays the same. *)

SameQuestion == UNCHANGED <<query, input>>

(* What only depends on the question is as it was. *)
LEMMA PrimedQuestion ==
  ASSUME SameQuestion
  PROVE  /\ Modulus' = Modulus /\ LastAttempt' = LastAttempt /\ Calls' = Calls
         /\ \A c : CoveredBy(c)' = Covered(bucket'[c], attempt'[c], part'[c])
         /\ \A c : CountedBefore(c)' = IF query.kind = "slice" THEN {} ELSE Before(bucket'[c])
         /\ \A c : Pieces(attempt[c])' = Pieces(attempt'[c])
         /\ \A c, T : Complete(c, T)' <=> Complete(c, T)
<1>1. query' = query /\ input' = input BY DEF SameQuestion
<1>2. Modulus' = Modulus BY <1>1 DEF Modulus
<1>3. LastAttempt' = LastAttempt BY <1>1 DEF LastAttempt, LastFactor
<1>4. Calls' = Calls BY <1>1 DEF Calls
<1>5. \A c : CoveredBy(c)' = Covered(bucket'[c], attempt'[c], part'[c])
  BY <1>1, <1>2 DEF CoveredBy, Covered, InBucket, Index
<1>6. \A c : CountedBefore(c)' = IF query.kind = "slice" THEN {} ELSE Before(bucket'[c])
  BY <1>1, <1>2 DEF CountedBefore, Before
<1>7. \A c : Pieces(attempt[c])' = Pieces(attempt'[c]) BY DEF Pieces
<1>8. \A c, T : Complete(c, T)' <=> Complete(c, T)
  BY <1>1, <1>2 DEF Complete, InBucket, Wanted
<1> QED BY <1>2, <1>3, <1>4, <1>5, <1>6, <1>7, <1>8

(* A call that a step does not touch. *)
LEMMA OtherCall ==
  ASSUME SameQuestion, NEW d, Local(d),
         bucket'[d] = bucket[d], attempt'[d] = attempt[d], part'[d] = part[d],
         got'[d] = got[d], total'[d] = total[d], verdict'[d] = verdict[d]
  PROVE  Local(d)'
<1>1. query' = query /\ input' = input BY DEF SameQuestion
<1>2. CoveredBy(d)' = CoveredBy(d) BY PrimedQuestion DEF CoveredBy
<1>3. CountedBefore(d)' = CountedBefore(d) BY PrimedQuestion DEF CountedBefore
<1>4. OwnBucket(d)' BY <1>1 DEF Local, OwnBucket
<1>5. Underway(d)'
  <2>1. Pieces(attempt[d])' = Pieces(attempt[d]) BY PrimedQuestion
  <2>2. \A T : Once(T)' = Once(T) BY DEF Once
  <2> QED BY <1>1, <1>2, <1>3, <2>1, <2>2 DEF Local, Underway
<1>6. Answered(d)'
  <2>1. \A T : Complete(d, T)' <=> Complete(d, T) BY PrimedQuestion
  <2> QED BY <1>1, <2>1 DEF Local, Answered, Once
<1> QED BY <1>4, <1>5, <1>6 DEF Local

(* A call that has ended without an answer. *)
LEMMA EndedCall ==
  ASSUME SameQuestion, NEW c, Local(c), bucket'[c] = bucket[c],
         verdict'[c] \in {"failed", "stopped"}
  PROVE  Local(c)'
<1>1. query' = query BY DEF SameQuestion
<1> QED BY <1>1 DEF Local, OwnBucket, Underway, Answered

(* A call that has answered with the tuples of T. *)
LEMMA AnsweredCall ==
  ASSUME SameQuestion, NEW c, Local(c), bucket'[c] = bucket[c], verdict'[c] = "ok",
         NEW T \in SUBSET input, total'[c] = Once(T), Complete(c, T)
  PROVE  Local(c)'
<1>1. query' = query /\ input' = input BY DEF SameQuestion
<1>2. Complete(c, T)' BY PrimedQuestion
<1>3. Once(T)' = Once(T) BY DEF Once
<1> QED BY <1>1, <1>2, <1>3 DEF Local, OwnBucket, Underway, Answered

(* A call that goes on counting. *)
LEMMA RunningCall ==
  ASSUME SameQuestion, NEW c, verdict'[c] = "running",
         query.kind = "slice" => bucket'[c] = c,
         part'[c] < Pieces(attempt'[c]),
         got'[c] = Once(Covered(bucket'[c], attempt'[c], part'[c])),
         total'[c] = Once(IF query.kind = "slice" THEN {} ELSE Before(bucket'[c])),
         query.kind = "list" /\ query.limit > 0
           => Cardinality(Covered(bucket'[c], attempt'[c], part'[c])) < query.limit
  PROVE  Local(c)'
<1>1. query' = query /\ input' = input BY DEF SameQuestion
<1>2. \A T : Once(T)' = Once(T) BY DEF Once
<1>3. CoveredBy(c)' = Covered(bucket'[c], attempt'[c], part'[c]) BY PrimedQuestion
<1>4. CountedBefore(c)' = IF query.kind = "slice" THEN {} ELSE Before(bucket'[c])
  BY PrimedQuestion
<1>5. Pieces(attempt[c])' = Pieces(attempt'[c]) BY PrimedQuestion
<1>6. Underway(c)' BY <1>1, <1>2, <1>3, <1>4, <1>5 DEF Underway
<1> QED BY <1>1, <1>6 DEF Local, OwnBucket, Answered

-----------------------------------------------------------------------------
(* What each step does to the call that takes it. *)

(* A bucket that is complete, with what was counted of it. *)
LEMMA FinishBucketKeeps ==
  ASSUME Types, NEW c \in Calls, Local(c), Counting(c), SameQuestion,
         NEW found \in Supplies(c),
         part[c] + 1 = Pieces(attempt[c])
           \/ ListedEnough(Plus(got[c], Once(found))),
         FinishBucket(c, Plus(got[c], Once(found)))
  PROVE  Local(c)'
<1> DEFINE bag   == Plus(got[c], Once(found))
           piece == Piece(bucket[c], attempt[c], part[c])
           new   == CoveredBy(c) \cup found
           whole == {x \in input : InBucket(x, bucket[c])}
<1>1. /\ query \in Queries /\ input \in Inputs /\ c \in AllCalls
      /\ bucket[c] \in 0 .. Modulus - 1 /\ attempt[c] \in 0 .. LastAttempt /\ part[c] \in Nat
      /\ bucket \in [AllCalls -> 0 .. Modulus - 1] /\ attempt \in [AllCalls -> 0 .. LastAttempt]
      /\ part \in [AllCalls -> Nat] /\ got \in [AllCalls -> [Tuples -> Nat]]
      /\ total \in [AllCalls -> [Tuples -> Nat]]
      /\ verdict \in [AllCalls -> {"running", "ok", "failed", "stopped"}]
  BY CallsType DEF Types
<1>2. /\ verdict[c] = "running" /\ part[c] < Pieces(attempt[c])
      /\ total[c] = Once(CountedBefore(c))
      /\ query.kind = "slice" => bucket[c] = c
  BY DEF Local, Underway, Counting, OwnBucket
<1>3. part[c] \in 0 .. Pieces(attempt[c]) - 1 BY <1>1, <1>2, PiecesType
<1>4. /\ found \in SUBSET piece /\ new \in SUBSET input
      /\ bag = Once(new) /\ Size(bag) = Cardinality(new) /\ Cardinality(new) \in Nat
      /\ found # piece => /\ query.kind = "list" /\ query.limit > 0
                          /\ Cardinality(new) = query.limit
      /\ query.kind = "list" /\ query.limit > 0 => Cardinality(new) <= query.limit
  BY SupplyIs
<1>5. query.limit \in Nat /\ query.kind \in Kinds BY <1>1, PartsAssumption DEF Queries
<1>6. ListedEnough(bag) => query.kind = "list" /\ query.limit > 0 /\ Cardinality(new) >= query.limit
  BY <1>4 DEF ListedEnough
<1>7. query.kind # "list" => new = whole
  <2> SUFFICES ASSUME query.kind # "list" PROVE new = whole OBVIOUS
  <2>1. found = piece /\ part[c] + 1 = Pieces(attempt[c]) BY <1>4, <1>6
  <2>2. CoveredBy(c) \cup piece = Covered(bucket[c], attempt[c], part[c] + 1)
    BY <1>1, <1>3, PiecesAddUp DEF CoveredBy
  <2>3. Covered(bucket[c], attempt[c], Pieces(attempt[c])) = whole BY <1>1, <1>3, PiecesAddUp
  <2> QED BY <2>1, <2>2, <2>3
<1>8. /\ Before(0) = {} /\ Before(Modulus) = input
      /\ Before(bucket[c]) \cap whole = {}
      /\ Before(bucket[c]) \cup whole = Before(bucket[c] + 1)
  BY <1>1, BucketsAddUp
<1>9. Modulus \in Nat \ {0} /\ (query.kind \in {"whole", "list"} => Modulus = 1)
  BY <1>1, ModulusType
<1>10. Plus(total[c], bag) = Once(CountedBefore(c) \cup new)
  <2>1. CountedBefore(c) \cap new = {}
    <3>1. CASE query.kind = "slice" BY <3>1 DEF CountedBefore
    <3>2. CASE query.kind = "list"
      <4>1. bucket[c] = 0 BY <1>1, <1>9, <3>2
      <4> QED BY <4>1, <1>8, <3>2 DEF CountedBefore
    <3>3. CASE query.kind \notin {"slice", "list"} BY <3>3, <1>7, <1>8 DEF CountedBefore
    <3> QED BY <3>1, <3>2, <3>3
  <2> QED BY <2>1, <1>2, <1>4, OncePlus
<1> DEFINE counted == Plus(total[c], bag)
           more    == query.kind = "atMost" /\ bucket[c] + 1 < Modulus /\ ~CountedEnough(counted)
<1>11. /\ total' = [total EXCEPT ![c] = counted]
       /\ got' = [got EXCEPT ![c] = NoTuples]
       /\ part' = [part EXCEPT ![c] = 0]
       /\ more => /\ bucket' = [bucket EXCEPT ![c] = @ + 1]
                  /\ attempt' = [attempt EXCEPT ![c] = 0]
                  /\ UNCHANGED verdict
       /\ ~more => /\ verdict' = [verdict EXCEPT ![c] = "ok"]
                   /\ UNCHANGED <<bucket, attempt>>
  BY DEF FinishBucket
<1>12. total'[c] = counted /\ got'[c] = NoTuples /\ part'[c] = 0 BY <1>11, <1>1
<1>13. CASE more
  <2>1. bucket'[c] = bucket[c] + 1 /\ attempt'[c] = 0 /\ verdict'[c] = "running"
    BY <1>13, <1>11, <1>1, <1>2
  <2>2. query.kind = "atMost" /\ bucket[c] + 1 < Modulus BY <1>13
  <2>3. Covered(bucket[c] + 1, 0, 0) = {} BY DEF Covered, Index
  <2>4. got'[c] = Once(Covered(bucket'[c], attempt'[c], part'[c]))
    BY <1>12, <2>1, <2>3, OnceNothing
  <2>5. total'[c] = Once(Before(bucket'[c]))
    BY <1>12, <1>10, <1>7, <1>8, <2>1, <2>2 DEF CountedBefore
  <2>6. part'[c] < Pieces(attempt'[c]) BY <1>12, <2>1 DEF Pieces
  <2> QED BY <2>1, <2>2, <2>4, <2>5, <2>6, RunningCall
<1>14. CASE ~more
  <2>1. bucket'[c] = bucket[c] /\ verdict'[c] = "ok" BY <1>14, <1>11, <1>1
  <2> DEFINE T == CountedBefore(c) \cup new
  <2>2. total'[c] = Once(T) BY <1>12, <1>10
  <2>3. T \in SUBSET input BY <1>4 DEF CountedBefore, Before
  <2>4. query.kind = "slice" => T = {x \in input : InBucket(x, c)}
    BY <1>7, <1>2 DEF CountedBefore
  <2>5. query.kind = "whole" => T = input
    <3> SUFFICES ASSUME query.kind = "whole" PROVE T = input OBVIOUS
    <3>1. bucket[c] = 0 /\ bucket[c] + 1 = Modulus BY <1>1, <1>9
    <3> QED BY <3>1, <1>7, <1>8 DEF CountedBefore
  <2>6. query.kind = "atMost" => T = input \/ Cardinality(T) >= query.limit
    <3> SUFFICES ASSUME query.kind = "atMost" PROVE T = input \/ Cardinality(T) >= query.limit
      OBVIOUS
    <3>1. T = Before(bucket[c] + 1) BY <1>7, <1>8 DEF CountedBefore
    <3>2. CASE ~(bucket[c] + 1 < Modulus)
      <4>1. bucket[c] + 1 = Modulus BY <3>2, <1>1, <1>9
      <4> QED BY <4>1, <3>1, <1>8
    <3>3. CASE CountedEnough(counted)
      <4>1. Size(counted) = Cardinality(T)
        <5>1. T \in SUBSET Tuples BY <2>3, <1>1, InputFinite
        <5> QED BY <5>1, <1>10, SizeOnce
      <4> QED BY <4>1, <3>3 DEF CountedEnough
    <3> QED BY <1>14, <3>2, <3>3
  <2>7. query.kind = "list" => Cardinality(T) = Wanted
    <3> SUFFICES ASSUME query.kind = "list" PROVE Cardinality(T) = Wanted OBVIOUS
    <3>1. bucket[c] = 0 /\ bucket[c] + 1 = Modulus BY <1>1, <1>9
    <3>2. T = new BY <3>1, <1>8 DEF CountedBefore
    <3>3. whole = input BY <3>1, <1>8
    <3>4. IsFiniteSet(input) /\ Cardinality(input) \in Nat BY <1>1, InputFinite
    <3>5. Cardinality(new) <= Cardinality(input) BY <3>4, <1>4, FS_Subset
    <3>6. CASE ListedEnough(bag)
      <4>1. query.limit > 0 /\ Cardinality(new) = query.limit BY <3>6, <1>6, <1>4, <1>5
      <4> HIDE DEF new, T
      <4>2. Wanted = query.limit BY <4>1, <3>4, <3>5, <1>5 DEF Wanted
      <4> QED BY <4>1, <4>2, <3>2
    <3>7. CASE found # piece
      <4>1. query.limit > 0 /\ Cardinality(new) = query.limit BY <3>7, <1>4
      <4> HIDE DEF new, T
      <4>2. Wanted = query.limit BY <4>1, <3>4, <3>5, <1>5 DEF Wanted
      <4> QED BY <4>1, <4>2, <3>2
    <3>8. CASE found = piece /\ part[c] + 1 = Pieces(attempt[c])
      <4>1. CoveredBy(c) \cup piece = Covered(bucket[c], attempt[c], part[c] + 1)
        BY <1>1, <1>3, PiecesAddUp DEF CoveredBy
      <4>2. Covered(bucket[c], attempt[c], Pieces(attempt[c])) = whole
        BY <1>1, <1>3, PiecesAddUp
      <4>3. new = input BY <4>1, <4>2, <3>3, <3>8
      <4>4. query.limit > 0 => Cardinality(new) <= query.limit BY <1>4
      <4> HIDE DEF new, T
      <4>5. Wanted = Cardinality(input) BY <4>3, <4>4, <3>4, <1>5 DEF Wanted
      <4> QED BY <4>3, <4>5, <3>2
    <3> QED BY <3>6, <3>7, <3>8
  <2>8. Complete(c, T) BY <2>4, <2>5, <2>6, <2>7 DEF Complete
  <2> HIDE DEF T
  <2> QED BY <2>1, <2>2, <2>3, <2>8, AnsweredCall
<1> QED BY <1>13, <1>14

(* A piece that fits is added, and may complete its bucket. *)
LEMMA PieceFitsKeeps ==
  ASSUME Types, NEW c \in Calls, Local(c), PieceFits(c)
  PROVE  Local(c)'
<1>1. Counting(c) /\ SameQuestion BY DEF PieceFits, SameQuestion
<1>2. PICK found \in Supplies(c) :
        LET bag == Plus(got[c], Once(found))
        IN  IF part[c] + 1 < Pieces(attempt[c]) /\ ~ListedEnough(bag)
            THEN /\ got' = [got EXCEPT ![c] = bag]
                 /\ part' = [part EXCEPT ![c] = @ + 1]
                 /\ UNCHANGED <<bucket, attempt, total, verdict>>
            ELSE FinishBucket(c, bag)
  BY DEF PieceFits
<1> DEFINE bag   == Plus(got[c], Once(found))
           piece == Piece(bucket[c], attempt[c], part[c])
           new   == CoveredBy(c) \cup found
<1>3. /\ query \in Queries /\ input \in Inputs /\ c \in AllCalls
      /\ bucket[c] \in 0 .. Modulus - 1 /\ attempt[c] \in 0 .. LastAttempt /\ part[c] \in Nat
      /\ part \in [AllCalls -> Nat] /\ got \in [AllCalls -> [Tuples -> Nat]]
  BY CallsType DEF Types
<1>4. /\ verdict[c] = "running" /\ part[c] < Pieces(attempt[c])
      /\ total[c] = Once(CountedBefore(c))
      /\ query.kind = "slice" => bucket[c] = c
  BY <1>1 DEF Local, Underway, Counting, OwnBucket
<1>5. part[c] \in 0 .. Pieces(attempt[c]) - 1 BY <1>3, <1>4, PiecesType
<1>6. Pieces(attempt[c]) \in Nat BY <1>3, PiecesType
<1>7. CASE part[c] + 1 < Pieces(attempt[c]) /\ ~ListedEnough(bag)
  <2>1. /\ got' = [got EXCEPT ![c] = bag]
        /\ part' = [part EXCEPT ![c] = @ + 1]
        /\ UNCHANGED <<bucket, attempt, total, verdict>>
    BY <1>2, <1>7
  <2>2. got'[c] = bag /\ part'[c] = part[c] + 1 BY <2>1, <1>3
  <2>3. /\ bag = Once(new) /\ Size(bag) = Cardinality(new) /\ Cardinality(new) \in Nat
        /\ found # piece => /\ query.kind = "list" /\ query.limit > 0
                            /\ Cardinality(new) = query.limit
    BY <1>1, SupplyIs
  <2>4. query.limit \in Nat BY <1>3, PartsAssumption DEF Queries
  <2>5. query.kind = "list" /\ query.limit > 0 => Cardinality(new) < query.limit
    BY <1>7, <2>3, <2>4 DEF ListedEnough
  <2>6. found = piece BY <2>3, <2>5, <2>4
  <2>7. new = Covered(bucket[c], attempt[c], part[c] + 1)
    BY <2>6, <1>3, <1>5, PiecesAddUp DEF CoveredBy
  <2> QED BY <2>1, <2>2, <2>3, <2>5, <2>7, <1>1, <1>4, <1>7, RunningCall DEF CountedBefore
<1>8. CASE ~(part[c] + 1 < Pieces(attempt[c]) /\ ~ListedEnough(bag))
  <2>1. FinishBucket(c, bag) BY <1>2, <1>8
  <2>2. part[c] + 1 = Pieces(attempt[c]) \/ ListedEnough(bag) BY <1>8, <1>5, <1>6
  <2> QED BY <2>1, <2>2, <1>1, FinishBucketKeeps
<1> QED BY <1>7, <1>8

(* A piece that does not fit starts the bucket over, in smaller ones. *)
LEMMA PieceTooBigKeeps ==
  ASSUME Types, NEW c \in Calls, Local(c), PieceTooBig(c)
  PROVE  Local(c)'
<1>1. SameQuestion /\ UNCHANGED <<bucket, total>> BY DEF PieceTooBig, SameQuestion
<1>2. /\ query \in Queries /\ c \in AllCalls /\ attempt[c] \in 0 .. LastAttempt
      /\ attempt \in [AllCalls -> 0 .. LastAttempt]
      /\ part \in [AllCalls -> Nat] /\ got \in [AllCalls -> [Tuples -> Nat]]
      /\ verdict \in [AllCalls -> {"running", "ok", "failed", "stopped"}]
  BY CallsType DEF Types
<1>3. CASE query.sliceable /\ attempt[c] < LastAttempt
  <2>1. /\ attempt' = [attempt EXCEPT ![c] = attempt[c] + 1]
        /\ part' = [part EXCEPT ![c] = 0]
        /\ got' = [got EXCEPT ![c] = NoTuples]
        /\ verdict' = verdict
    BY <1>3 DEF PieceTooBig, NextAttempt, StartedOver
  <2>2. attempt'[c] = attempt[c] + 1 /\ part'[c] = 0 /\ got'[c] = NoTuples
    BY <2>1, <1>2
  <2>3. LastAttempt \in Nat BY <1>2, AttemptsType
  <2>4. attempt'[c] \in 0 .. LastAttempt BY <2>2, <2>3, <1>2, <1>3
  <2>5. Pieces(attempt'[c]) \in Nat \ {0} BY <2>4, <1>2, PiecesType
  <2>6. Covered(bucket'[c], attempt'[c], part'[c]) = {}
    <3>1. query \in Queries /\ input \in Inputs /\ bucket[c] \in 0 .. Modulus - 1
      BY <1>2 DEF Types
    <3>2. 0 \in 0 .. Pieces(attempt'[c]) - 1 BY <2>5
    <3>3. Covered(bucket[c], attempt'[c], 0) = {} BY <3>1, <3>2, <2>4, PiecesAddUp
    <3> QED BY <3>3, <2>2, <1>1
  <2>7. got'[c] = Once(Covered(bucket'[c], attempt'[c], part'[c]))
    BY <2>6, <2>2, OnceNothing
  <2>8. Cardinality({}) = 0 BY FS_EmptySet
  <2>9. /\ verdict[c] = "running" /\ total[c] = Once(CountedBefore(c))
        /\ query.kind = "slice" => bucket[c] = c
    BY DEF Local, Underway, OwnBucket, PieceTooBig, Counting
  <2>10. verdict'[c] = "running" /\ bucket'[c] = bucket[c] /\ total'[c] = total[c]
    BY <2>1, <2>9, <1>1
  <2>11. query.limit \in Nat BY <1>2, PartsAssumption DEF Queries
  <2>12. query.kind = "slice" => bucket'[c] = c BY <2>9, <2>10
  <2>13. total'[c] = Once(IF query.kind = "slice" THEN {} ELSE Before(bucket'[c]))
    BY <2>9, <2>10 DEF CountedBefore
  <2>14. part'[c] < Pieces(attempt'[c]) BY <2>2, <2>5
  <2>15. query.kind = "list" /\ query.limit > 0
           => Cardinality(Covered(bucket'[c], attempt'[c], part'[c])) < query.limit
    BY <2>6, <2>8, <2>11
  <2> QED BY <1>1, <2>7, <2>10, <2>9, <2>12, <2>13, <2>14, <2>15, RunningCall
<1>4. CASE ~(query.sliceable /\ attempt[c] < LastAttempt)
  <2>1. verdict'[c] = "failed" BY <1>4, <1>2 DEF PieceTooBig
  <2> QED BY <2>1, <1>1, EndedCall
<1> QED BY <1>3, <1>4

(* A limit of zero is met by nothing. *)
LEMMA AnswerNothingKeeps ==
  ASSUME Types, NEW c \in Calls, Local(c), AnswerNothing(c)
  PROVE  Local(c)'
<1>1. SameQuestion /\ UNCHANGED <<bucket, total, got>>
  BY DEF AnswerNothing, SameQuestion, progress
<1>2. /\ c \in AllCalls /\ query \in Queries /\ input \in Inputs /\ bucket[c] \in 0 .. Modulus - 1
      /\ verdict \in [AllCalls -> {"running", "ok", "failed", "stopped"}]
  BY CallsType DEF Types
<1>3. verdict'[c] = "ok" /\ query.kind = "atMost" /\ query.limit = 0
  BY <1>2 DEF AnswerNothing, WantsNothing
<1> DEFINE T == CountedBefore(c)
<1>4. total[c] = Once(T) BY DEF Local, Underway, AnswerNothing
<1>5. T \in SUBSET input BY DEF CountedBefore, Before
<1>6. Cardinality(T) \in Nat BY <1>5, <1>2, InputFinite
<1>7. Complete(c, T) BY <1>3, <1>6 DEF Complete
<1> HIDE DEF T
<1> QED BY <1>1, <1>3, <1>4, <1>5, <1>7, AnsweredCall

(* A call that ends without an answer claims nothing. *)
LEMMA EndingKeeps ==
  ASSUME Types, NEW c \in Calls, Local(c), PieceFails(c) \/ SiblingStops(c) \/ AddOverflows(c)
  PROVE  Local(c)'
<1>1. SameQuestion /\ UNCHANGED bucket
  BY DEF PieceFails, SiblingStops, AddOverflows, SameQuestion, progress
<1>2. c \in AllCalls /\ verdict \in [AllCalls -> {"running", "ok", "failed", "stopped"}]
  BY CallsType DEF Types
<1>3. verdict'[c] \in {"failed", "stopped"} BY <1>2 DEF PieceFails, SiblingStops, AddOverflows
<1> QED BY <1>1, <1>3, EndedCall

(* What every step leaves alone. *)
LEMMA StepFrame ==
  ASSUME Types, NEW c \in Calls, Step(c)
  PROVE  /\ SameQuestion /\ verdict[c] = "running"
         /\ \A d \in Calls \ {c} :
              /\ bucket'[d] = bucket[d] /\ attempt'[d] = attempt[d] /\ part'[d] = part[d]
              /\ got'[d] = got[d] /\ total'[d] = total[d] /\ verdict'[d] = verdict[d]
<1>1. Calls \subseteq AllCalls BY CallsType DEF Types
<1>2. CASE PieceFits(c)
  BY <1>1, <1>2 DEF Types, PieceFits, FinishBucket, SameQuestion, Counting
<1>3. CASE PieceTooBig(c)
  BY <1>1, <1>3 DEF Types, PieceTooBig, StartedOver, SameQuestion, Counting
<1>4. CASE AnswerNothing(c) \/ PieceFails(c) \/ SiblingStops(c) \/ AddOverflows(c)
  BY <1>1, <1>4 DEF Types, AnswerNothing, PieceFails, SiblingStops, AddOverflows, SameQuestion,
                    Counting, progress
<1> QED BY <1>2, <1>3, <1>4 DEF Step

(* Every step keeps the types. *)
LEMMA StepTypes ==
  ASSUME Types, NEW c \in Calls, Local(c), Step(c)
  PROVE  Types'
<1>1. c \in AllCalls /\ query \in Queries /\ input \in Inputs BY CallsType DEF Types
<1>2. SameQuestion BY StepFrame
<1>3. query' \in Queries /\ input' \in Inputs BY <1>1, <1>2 DEF SameQuestion
<1>4. Modulus' = Modulus /\ LastAttempt' = LastAttempt BY <1>2, PrimedQuestion
<1>5. CASE PieceFits(c)
  <2>1. PICK found \in Supplies(c) :
          LET bag == Plus(got[c], Once(found))
          IN  IF part[c] + 1 < Pieces(attempt[c]) /\ ~ListedEnough(bag)
              THEN /\ got' = [got EXCEPT ![c] = bag]
                   /\ part' = [part EXCEPT ![c] = @ + 1]
                   /\ UNCHANGED <<bucket, attempt, total, verdict>>
              ELSE FinishBucket(c, bag)
    BY <1>5 DEF PieceFits
  <2> DEFINE bag == Plus(got[c], Once(found))
  <2>2. got[c] \in [Tuples -> Nat] /\ total[c] \in [Tuples -> Nat] BY <1>1 DEF Types
  <2>3. bag \in [Tuples -> Nat] BY <2>2, OnceType DEF Plus
  <2>4. Plus(total[c], bag) \in [Tuples -> Nat] BY <2>2, <2>3 DEF Plus
  <2>5. NoTuples \in [Tuples -> Nat] BY DEF NoTuples
  <2>6. LastAttempt \in Nat /\ Modulus \in Nat \ {0} BY <1>1, AttemptsType, ModulusType
  <2>7. UNCHANGED abandoned BY <1>5 DEF PieceFits
  <2> HIDE DEF bag
  <2>10. /\ bucket \in [AllCalls -> 0 .. Modulus - 1] /\ attempt \in [AllCalls -> 0 .. LastAttempt]
         /\ part \in [AllCalls -> Nat] /\ got \in [AllCalls -> [Tuples -> Nat]]
         /\ total \in [AllCalls -> [Tuples -> Nat]]
         /\ verdict \in [AllCalls -> {"running", "ok", "failed", "stopped"}]
         /\ abandoned' \in BOOLEAN
    BY <2>7 DEF Types
  <2>8. CASE part[c] + 1 < Pieces(attempt[c]) /\ ~ListedEnough(bag)
    <3>1. /\ got' = [got EXCEPT ![c] = bag]
          /\ part' = [part EXCEPT ![c] = @ + 1]
          /\ UNCHANGED <<bucket, attempt, total, verdict>>
      BY <2>1, <2>8 DEF bag
    <3>2. got' \in [AllCalls -> [Tuples -> Nat]] BY <3>1, <2>3, <2>10
    <3>3. part' \in [AllCalls -> Nat]
      <4>1. part[c] + 1 \in Nat BY <2>10, <1>1
      <4> QED BY <4>1, <3>1, <2>10
    <3> QED BY <3>1, <3>2, <3>3, <2>10, <1>3, <1>4 DEF Types, AllCalls
  <2>9. CASE FinishBucket(c, bag)
    <3>1. total' \in [AllCalls -> [Tuples -> Nat]] BY <2>4, <2>9, <2>10 DEF FinishBucket
    <3>2. got' \in [AllCalls -> [Tuples -> Nat]] BY <2>5, <2>9, <2>10 DEF FinishBucket
    <3>3. part' \in [AllCalls -> Nat] BY <2>9, <2>10 DEF FinishBucket
    <3>4. /\ bucket' \in [AllCalls -> 0 .. Modulus - 1]
          /\ attempt' \in [AllCalls -> 0 .. LastAttempt]
          /\ verdict' \in [AllCalls -> {"running", "ok", "failed", "stopped"}]
      <4> DEFINE more == query.kind = "atMost" /\ bucket[c] + 1 < Modulus
                           /\ ~CountedEnough(Plus(total[c], bag))
      <4>1. CASE more
        <5>1. /\ bucket' = [bucket EXCEPT ![c] = @ + 1]
              /\ attempt' = [attempt EXCEPT ![c] = 0]
              /\ UNCHANGED verdict
          BY <2>9, <4>1 DEF FinishBucket
        <5>2. bucket[c] + 1 \in 0 .. Modulus - 1 BY <4>1, <2>6, <2>10, <1>1
        <5>3. bucket' \in [AllCalls -> 0 .. Modulus - 1] BY <5>1, <5>2, <2>10
        <5>4. 0 \in 0 .. LastAttempt BY <2>6
        <5>5. attempt' \in [AllCalls -> 0 .. LastAttempt] BY <5>1, <5>4, <2>10
        <5> QED BY <5>1, <5>3, <5>5, <2>10
      <4>2. CASE ~more
        <5>1. verdict' = [verdict EXCEPT ![c] = "ok"] /\ UNCHANGED <<bucket, attempt>>
          BY <2>9, <4>2 DEF FinishBucket
        <5> QED BY <5>1, <2>10
      <4> QED BY <4>1, <4>2
    <3> QED BY <3>1, <3>2, <3>3, <3>4, <2>10, <1>3, <1>4 DEF Types, AllCalls
  <2> QED BY <2>1, <2>8, <2>9 DEF bag
<1>6. CASE PieceTooBig(c)
  <2>1. NoTuples \in [Tuples -> Nat] BY DEF NoTuples
  <2>2. LastAttempt \in Nat BY <1>1, AttemptsType
  <2>3. abandoned' \in BOOLEAN BY <1>6 DEF PieceTooBig, Raises, MayRaise, Types
  <2>4. bucket' = bucket /\ total' = total BY <1>6 DEF PieceTooBig
  <2>5. CASE query.sliceable /\ attempt[c] < LastAttempt
    <3>1. /\ attempt' = [attempt EXCEPT ![c] = attempt[c] + 1]
          /\ part' = [part EXCEPT ![c] = 0]
          /\ got' = [got EXCEPT ![c] = NoTuples]
          /\ verdict' = verdict
      BY <1>6, <2>5 DEF PieceTooBig, NextAttempt, StartedOver
    <3> QED BY <3>1, <2>1, <2>2, <2>3, <2>4, <2>5, <1>1, <1>3, <1>4 DEF Types
  <2>6. CASE ~(query.sliceable /\ attempt[c] < LastAttempt)
    <3>1. /\ verdict' = [verdict EXCEPT ![c] = "failed"]
          /\ UNCHANGED <<attempt, part, got>>
      BY <1>6, <2>6 DEF PieceTooBig
    <3> QED BY <3>1, <2>3, <2>4, <1>1, <1>3, <1>4 DEF Types
  <2> QED BY <2>5, <2>6
<1>7. CASE AnswerNothing(c) \/ PieceFails(c) \/ SiblingStops(c) \/ AddOverflows(c)
  <2>1. abandoned' \in BOOLEAN
    BY <1>7 DEF AnswerNothing, PieceFails, SiblingStops, AddOverflows, MayRaise, BySecondKey, Types
  <2>2. UNCHANGED progress
    BY <1>7 DEF AnswerNothing, PieceFails, SiblingStops, AddOverflows
  <2>3. verdict' \in [AllCalls -> {"running", "ok", "failed", "stopped"}]
    BY <1>7 DEF AnswerNothing, PieceFails, SiblingStops, AddOverflows, Types
  <2> QED BY <2>1, <2>2, <2>3, <1>3, <1>4 DEF Types, progress
<1> QED BY <1>5, <1>6, <1>7 DEF Step

(* The flag: whoever raises it has failed, and who has failed stays so. *)
LEMMA StepFlag ==
  ASSUME Types, NEW c \in Calls, Step(c), RaisedForCause, StoppedByFlag
  PROVE  RaisedForCause' /\ StoppedByFlag'
<1>1. /\ SameQuestion /\ verdict[c] = "running"
      /\ \A d \in Calls \ {c} : attempt'[d] = attempt[d] /\ verdict'[d] = verdict[d]
  BY StepFrame
<1>2. Calls' = Calls BY <1>1, PrimedQuestion
<1>3. /\ c \in AllCalls /\ query \in Queries /\ attempt[c] \in 0 .. LastAttempt
      /\ attempt \in [AllCalls -> 0 .. LastAttempt]
      /\ verdict \in [AllCalls -> {"running", "ok", "failed", "stopped"}]
      /\ abandoned \in BOOLEAN
  BY CallsType DEF Types
<1>4. /\ LastFactor \in Nat /\ LastAttempt \in Nat /\ LastFactor <= LastAttempt
  BY <1>3, AttemptsType
<1>5. abandoned => abandoned'
  BY <1>3 DEF Step, AnswerNothing, PieceFits, PieceTooBig, PieceFails, SiblingStops, AddOverflows
<1>6. abandoned' /\ ~abandoned => verdict'[c] = "failed" /\ attempt'[c] >= LastFactor
  <2> SUFFICES ASSUME abandoned', ~abandoned
               PROVE  verdict'[c] = "failed" /\ attempt'[c] >= LastFactor
    OBVIOUS
  <2>1. PieceTooBig(c) \/ PieceFails(c)
    BY DEF Step, AnswerNothing, PieceFits, SiblingStops, AddOverflows
  <2>2. CASE PieceTooBig(c)
    <3>1. attempt[c] = LastAttempt BY <2>2 DEF PieceTooBig, Raises
    <3>2. verdict' = [verdict EXCEPT ![c] = "failed"] /\ attempt' = attempt
      BY <2>2, <3>1, <1>4 DEF PieceTooBig
    <3> QED BY <3>1, <3>2, <1>3, <1>4
  <2>3. CASE PieceFails(c)
    <3>1. attempt[c] > LastFactor BY <2>3 DEF PieceFails, BySecondKey
    <3>2. verdict' = [verdict EXCEPT ![c] = "failed"] /\ attempt' = attempt
      BY <2>3 DEF PieceFails, progress
    <3> QED BY <3>1, <3>2, <1>3, <1>4
  <2> QED BY <2>1, <2>2, <2>3
<1>7. RaisedForCause'
  <2> SUFFICES ASSUME abandoned'
               PROVE  \E d \in Calls : verdict'[d] = "failed" /\ attempt'[d] >= LastFactor
    BY <1>2 DEF RaisedForCause, LastFactor
  <2>1. CASE abandoned
    <3>1. PICK d \in Calls : verdict[d] = "failed" /\ attempt[d] >= LastFactor
      BY <2>1 DEF RaisedForCause
    <3>2. d # c BY <3>1, <1>1
    <3> QED BY <3>1, <3>2, <1>1
  <2>2. CASE ~abandoned BY <2>2, <1>6
  <2> QED BY <2>1, <2>2
<1>8. StoppedByFlag'
  <2> SUFFICES ASSUME NEW d \in Calls, verdict'[d] = "stopped" PROVE abandoned'
    BY <1>2 DEF StoppedByFlag
  <2>1. CASE d # c BY <2>1, <1>1, <1>5 DEF StoppedByFlag
  <2>2. CASE d = c
    <3>1. SiblingStops(c)
      <4>1. ~AnswerNothing(c) /\ ~PieceFails(c) /\ ~AddOverflows(c)
        BY <2>2, <1>3 DEF AnswerNothing, PieceFails, AddOverflows
      <4>2. ~PieceTooBig(c) BY <2>2, <1>1, <1>3 DEF PieceTooBig
      <4>3. ~PieceFits(c) BY <2>2, <1>1, <1>3 DEF PieceFits, FinishBucket
      <4> QED BY <4>1, <4>2, <4>3 DEF Step
    <3> QED BY <3>1 DEF SiblingStops
  <2> QED BY <2>1, <2>2
<1> QED BY <1>7, <1>8

-----------------------------------------------------------------------------
(* Every call starts with nothing counted. *)
LEMMA InitIInv == Init => IInv
<1> SUFFICES ASSUME Init PROVE IInv OBVIOUS
<1>1. query \in Queries /\ input \in Inputs BY DEF Init
<1>2. Modulus \in Nat \ {0} /\ (query.kind = "slice" => Modulus = Slices)
  BY <1>1, ModulusType
<1>3. LastAttempt \in Nat BY <1>1, AttemptsType
<1>4. NoTuples \in [Tuples -> Nat] BY DEF NoTuples
<1>5. bucket \in [AllCalls -> 0 .. Modulus - 1] BY <1>2, PartsAssumption DEF Init, AllCalls
<1>6. Types
  <2>1. attempt \in [AllCalls -> 0 .. LastAttempt] /\ part \in [AllCalls -> Nat]
    BY <1>3 DEF Init
  <2>2. got \in [AllCalls -> [Tuples -> Nat]] /\ total \in [AllCalls -> [Tuples -> Nat]]
    BY <1>4 DEF Init
  <2>3. verdict \in [AllCalls -> {"running", "ok", "failed", "stopped"}] /\ abandoned \in BOOLEAN
    BY DEF Init
  <2> QED BY <2>1, <2>2, <2>3, <1>1, <1>5 DEF Types
<1>7. ASSUME NEW c \in Calls PROVE Local(c)
  <2>1. c \in AllCalls BY <1>1, CallsType
  <2>2. /\ bucket[c] = IF query.kind = "slice" THEN c ELSE 0
        /\ attempt[c] = 0 /\ part[c] = 0 /\ got[c] = NoTuples /\ total[c] = NoTuples
        /\ verdict[c] = "running"
    BY <2>1 DEF Init
  <2>3. CoveredBy(c) = {} BY <2>2 DEF CoveredBy, Covered, Index
  <2>4. 0 \in 0 .. Modulus - 1 BY <1>2
  <2>5. CountedBefore(c) = {} BY <2>2, <2>4, <1>1, BucketsAddUp DEF CountedBefore
  <2>6. Cardinality({}) = 0 BY FS_EmptySet
  <2>7. query.limit \in Nat BY <1>1, PartsAssumption DEF Queries
  <2>8. Underway(c) BY <2>2, <2>3, <2>5, <2>6, <2>7, OnceNothing DEF Underway, Pieces
  <2>9. OwnBucket(c) /\ Answered(c) BY <2>2 DEF OwnBucket, Answered
  <2> QED BY <2>8, <2>9 DEF Local
<1>8. RaisedForCause BY DEF Init, RaisedForCause
<1>9. StoppedByFlag
  <2>1. \A c \in Calls : verdict[c] = "running" BY <1>1, CallsType DEF Init
  <2> QED BY <2>1 DEF StoppedByFlag
<1> QED BY <1>6, <1>7, <1>8, <1>9 DEF IInv

(* Every step preserves the inductive invariant. *)
LEMMA StepIInv == IInv /\ [Next]_vars => IInv'
<1> SUFFICES ASSUME IInv, [Next]_vars PROVE IInv' OBVIOUS
<1>1. Types /\ (\A c \in Calls : Local(c)) /\ RaisedForCause /\ StoppedByFlag BY DEF IInv
<1>2. ASSUME NEW c \in Calls, Step(c) PROVE IInv'
  <2>1. /\ SameQuestion
        /\ \A d \in Calls \ {c} :
              /\ bucket'[d] = bucket[d] /\ attempt'[d] = attempt[d] /\ part'[d] = part[d]
              /\ got'[d] = got[d] /\ total'[d] = total[d] /\ verdict'[d] = verdict[d]
    BY <1>1, <1>2, StepFrame
  <2>2. Local(c) BY <1>1
  <2>3. Types' BY <1>1, <1>2, <2>2, StepTypes
  <2>4. Local(c)'
    BY <1>1, <1>2, <2>2, PieceFitsKeeps, PieceTooBigKeeps, AnswerNothingKeeps, EndingKeeps DEF Step
  <2>5. ASSUME NEW d \in Calls, d # c PROVE Local(d)'
    <3>1. Local(d) BY <1>1
    <3>2. /\ bucket'[d] = bucket[d] /\ attempt'[d] = attempt[d] /\ part'[d] = part[d]
          /\ got'[d] = got[d] /\ total'[d] = total[d] /\ verdict'[d] = verdict[d]
      BY <2>1, <2>5
    <3> QED BY <3>1, <3>2, <2>1, OtherCall
  <2>6. Calls' = Calls BY <2>1, PrimedQuestion
  <2>7. RaisedForCause' /\ StoppedByFlag' BY <1>1, <1>2, StepFlag
  <2> QED BY <2>3, <2>4, <2>5, <2>6, <2>7 DEF IInv
<1>3. ASSUME UNCHANGED vars PROVE IInv'
  <2>1. SameQuestion /\ UNCHANGED <<bucket, attempt, part, got, total, verdict, abandoned>>
    BY <1>3 DEF vars, progress, SameQuestion
  <2>2. Calls' = Calls /\ Modulus' = Modulus /\ LastAttempt' = LastAttempt
    BY <2>1, PrimedQuestion
  <2>3. Types' BY <1>1, <2>1, <2>2 DEF Types, SameQuestion
  <2>4. ASSUME NEW d \in Calls PROVE Local(d)' BY <1>1, <2>1, OtherCall
  <2>5. RaisedForCause' /\ StoppedByFlag'
    BY <1>1, <2>1, <2>2 DEF RaisedForCause, StoppedByFlag, LastFactor
  <2> QED BY <2>2, <2>3, <2>4, <2>5 DEF IInv
<1> QED BY <1>2, <1>3 DEF Next

-----------------------------------------------------------------------------
(* However a bucket is cut on the way, what a call holds are the tuples of *)
(* its pieces so far, each counted once.                                   *)
THEOREM Invariant == Spec => []IInv
<1> QED BY InitIInv, StepIInv, PTL DEF Spec

(* The calls of a sliced count add up to the join, no tuple in two of them *)
(* and, when all have been counted, none in none; and so does a count of   *)
(* the whole.                                                              *)
THEOREM CountAlwaysExact == Spec => []CountIsExact
<1>1. IInv => CountIsExact
  <2> SUFFICES ASSUME IInv, query.kind \in {"slice", "whole"} PROVE CountIsExact
    BY DEF CountIsExact
  <2> DEFINE ok == {c \in Calls : verdict[c] = "ok"}
             Of(c) == IF query.kind = "slice" THEN {x \in input : InBucket(x, c)} ELSE input
  <2>1. query \in Queries /\ input \in SUBSET Tuples BY InputFinite DEF IInv, Types
  <2>2. \A c \in ok : total[c] = Once(Of(c))
    BY DEF IInv, Local, Answered, Complete
  <2>3. \A c \in ok : \A x \in Tuples : total[c][x] = IF x \in Of(c) THEN 1 ELSE 0
    BY <2>2 DEF Once
  <2>4. \A c, d \in ok : c # d => Of(c) \cap Of(d) = {}
    BY <2>1, CallsType DEF InBucket
  <2>5. ok = Calls => \A x \in input : \E c \in ok : x \in Of(c)
    <3> SUFFICES ASSUME ok = Calls, NEW x \in input PROVE \E c \in ok : x \in Of(c) OBVIOUS
    <3>1. CASE query.kind = "slice"
      <4> DEFINE n == KeyHash[x]
                 m == Modulus
      <4>1. n \in Int /\ m \in Nat \ {0} BY <2>1, ModulusType, TuplesAssumption
      <4> HIDE DEF n, m
      <4>2. n % m \in 0 .. m - 1 BY <4>1, DivMod
      <4>3. n % m \in Calls BY <4>2, <3>1, <2>1, CallsType DEF m
      <4> QED BY <4>3, <3>1 DEF n, m, InBucket
    <3>2. CASE query.kind = "whole" BY <3>2, <2>1, CallsType
    <3> QED BY <3>1, <3>2
  <2> HIDE DEF ok, Of
  <2>6. \A c \in ok : \A x \in Tuples :
          total[c][x] > 0 => /\ x \in input /\ total[c][x] = 1
                             /\ \A d \in ok \ {c} : total[d][x] = 0
    <3>1. \A c : Of(c) \subseteq input BY DEF Of
    <3> QED BY <2>3, <2>4, <3>1
  <2>7. ok = Calls => \A x \in input : \E c \in ok : total[c][x] = 1 BY <2>1, <2>3, <2>5
  <2> QED BY <2>6, <2>7 DEF CountIsExact, ok
<1> QED BY <1>1, Invariant, PTL

(* A count under LIMIT answers the limit or the size of the join, whichever*)
(* is less, and a list holds as many of the join's tuples, each once.      *)
THEOREM LimitAlwaysExact == Spec => []LimitIsExact
<1>1. IInv => LimitIsExact
  <2> SUFFICES ASSUME IInv, query.kind \in {"atMost", "list"}, verdict[0] = "ok"
               PROVE  LimitIsExact
    BY DEF LimitIsExact
  <2>1. query \in Queries /\ input \in Inputs BY DEF IInv, Types
  <2>2. 0 \in Calls BY <2>1, CallsType
  <2>3. PICK T \in SUBSET input : total[0] = Once(T) /\ Complete(0, T)
    BY <2>2 DEF IInv, Local, Answered
  <2>4. T \in SUBSET Tuples BY <2>1, InputFinite
  <2>5. Size(total[0]) = Cardinality(T) BY <2>3, <2>4, SizeOnce
  <2>6. IsFiniteSet(input) /\ Cardinality(input) \in Nat /\ Cardinality(T) \in Nat
    BY <2>1, InputFinite
  <2>7. Cardinality(T) <= Cardinality(input) BY <2>6, FS_Subset
  <2>8. query.limit \in Nat BY <2>1, PartsAssumption DEF Queries
  <2>9. CASE query.kind = "atMost"
    <3>1. T = input \/ Cardinality(T) >= query.limit BY <2>3, <2>9 DEF Complete
    <3>2. (IF Cardinality(T) >= query.limit THEN query.limit ELSE Cardinality(T))
            = IF query.limit > Cardinality(input) THEN Cardinality(input) ELSE query.limit
      BY <3>1, <2>6, <2>7, <2>8
    <3> QED BY <3>2, <2>5, <2>9 DEF LimitIsExact
  <2>10. CASE query.kind = "list"
    <3>1. Cardinality(T) = Wanted BY <2>3, <2>10 DEF Complete
    <3>2. \A x \in Tuples : Once(T)[x] <= Once(input)[x] BY <2>3 DEF Once
    <3> QED BY <3>1, <3>2, <2>3, <2>5, <2>10 DEF LimitIsExact, Wanted
  <2> QED BY <2>9, <2>10
<1> QED BY <1>1, Invariant, PTL

(* A slice is stopped only for a sibling that has failed with every        *)
(* modulus of its own key behind it.                                       *)
THEOREM AlwaysStoppedForCause == Spec => []StoppedForCause
<1>1. IInv => StoppedForCause
  BY DEF IInv, RaisedForCause, StoppedByFlag, StoppedForCause
<1> QED BY <1>1, Invariant, PTL
=============================================================================
