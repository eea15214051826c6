------------------------ MODULE EngineOperatorProofs ------------------------
(***************************************************************************)
(* Two things the engine takes for granted wherever it counts, about       *)
(* operators that have no state of their own: that its integers compute    *)
(* what they say, or Overflow, for halves of any even size (one half of 32 *)
(* bits is one such, TLC tries another); and that a query taken slice by   *)
(* slice is the query, for every graph, tables, hash and number of slices. *)
(*                                                                         *)
(* The integers. What wraps comes back by whole words (UnsignedTurns,      *)
(* SignedIs), so that a sum of wide numbers has one high word, and the     *)
(* test on signs finds exactly those that are no word. A partial product   *)
(* of halves, with what has been carried to it, is less than Half * Half   *)
(* (AddRowIs), so a row of the schoolbook multiplication loses nothing; it *)
(* adds digit * by at the digit's place (RowAdds), and the rows add up to  *)
(* the product (MultiplyHalvesIs).                                         *)
(*                                                                         *)
(* The slices. No two columns are one attribute (AttributesApart), and a   *)
(* union of classes joins columns that a predicate makes equal, so by the  *)
(* last predicate every flat tuple holds one value per class               *)
(* (ClassesAgree). Whatever relations carry the class that is sliced on,   *)
(* the rows of a flat tuple are then in one and the same slice. A slice    *)
(* holds each row that falls into it once (SlicedIs), and a relation that  *)
(* does not carry the class is in it whole: so to each flat tuple of the   *)
(* query belongs one flat tuple of one slice, and the reverse              *)
(* (SlicesHoldEveryTupleOnce), and the sizes add up (SlicesAddUp).         *)
(*                                                                         *)
(* The folds of the model are choices of a function that satisfies an      *)
(* equation; that there is one is Recursion, and that a sum over a set     *)
(* does not depend on the order of its elements is SameMeasure.            *)
(***************************************************************************)
EXTENDS WideArithmetic, QueryGraph, FiniteSetTheorems, WellFoundedInduction,
        NaturalsInduction, TLAPS

(* What a quotient and a remainder are. *)
LEMMA DivMod ==
  ASSUME NEW n \in Int, NEW m \in Nat \ {0}
  PROVE  /\ n \div m \in Int /\ n % m \in 0 .. m - 1
         /\ n = m * (n \div m) + (n % m)
OBVIOUS

(* A product grows with its factor. *)
LEMMA ProductMonotonic ==
  ASSUME NEW a \in Int, NEW b \in Int, NEW m \in Nat, a <= b
  PROVE  m * a <= m * b
OBVIOUS

(* A number has one quotient and one remainder. *)
LEMMA DivisionUnique ==
  ASSUME NEW m \in Nat \ {0}, NEW q \in Int, NEW p \in Int,
         NEW r \in 0 .. m - 1, NEW s \in 0 .. m - 1,
         m * q + r = m * p + s
  PROVE  q = p /\ r = s
<1>1. m * q \in Int /\ m * p \in Int /\ m * (p - q) \in Int
  OBVIOUS
<1>2. m * (p - q) = r - s
  <2>1. m * (p - q) = m * p - m * q OBVIOUS
  <2> QED BY <1>1, <2>1
<1>3. ~(p - q >= 1)
  <2> SUFFICES ASSUME p - q >= 1 PROVE FALSE OBVIOUS
  <2>1. m * 1 <= m * (p - q) BY ProductMonotonic
  <2> QED BY <2>1, <1>2, <1>1
<1>4. ~(p - q <= -1)
  <2> SUFFICES ASSUME p - q <= -1 PROVE FALSE OBVIOUS
  <2>1. m * (p - q) <= m * (-1) BY ProductMonotonic
  <2> QED BY <2>1, <1>2, <1>1
<1> QED BY <1>3, <1>4, <1>1

(* Any such pair is the quotient and the remainder. *)
LEMMA DivisionIs ==
  ASSUME NEW n \in Int, NEW m \in Nat \ {0}, NEW q \in Int, NEW r \in 0 .. m - 1,
         n = m * q + r
  PROVE  n \div m = q /\ n % m = r
BY DivMod, DivisionUnique

-----------------------------------------------------------------------------
(* The numbers a word stands for, and the first that it does not. *)
Words == MinWord .. MaxWord
Top == Word \div 2

(* All sizes follow from that of a half, which is even. *)
LEMMA WordSize ==
  /\ Half \in Nat /\ Half >= 2 /\ Half \div 2 \in Nat /\ Half = 2 * (Half \div 2)
  /\ Word \in Nat /\ Word = Half * Half
  /\ Top \in Nat /\ Top >= 2 /\ Word = 2 * Top /\ Top = Half * (Half \div 2)
  /\ MaxWord = Top - 1 /\ MinWord = -Top
<1> DEFINE h == Half \div 2
<1>1. Half \in Nat /\ Half >= 2 /\ h \in Nat /\ Half = 2 * h BY HalfAssumption
<1>2. Word = Half * Half /\ Word \in Nat BY <1>1 DEF Word
<1> HIDE DEF h
<1>3. Half * h \in Nat /\ Word = 2 * (Half * h) BY <1>1, <1>2
<1>4. Top = Half * h
  <2> DEFINE x == Half * h
  <2>1. x \in Nat /\ Word = 2 * x BY <1>3
  <2> HIDE DEF x
  <2>2. Word \div 2 = x BY <2>1
  <2> QED BY <2>2 DEF Top, x
<1>5. h >= 1 BY <1>1
<1>6. Half * 1 <= Half * h BY <1>1, <1>5, ProductMonotonic
<1>7. Top >= 2 BY <1>1, <1>3, <1>4, <1>6
<1>8. MaxWord = Top - 1 /\ MinWord = -Top BY DEF MaxWord, MinWord, Top
<1> QED BY <1>1, <1>2, <1>3, <1>4, <1>7, <1>8 DEF h

(* The unsigned reading of a number is its remainder. *)
LEMMA UnsignedIs ==
  ASSUME NEW n \in Int
  PROVE  Unsigned(n) \in 0 .. Word - 1
<1>1. Word \in Nat \ {0} BY WordSize
<1>2. n % Word \in 0 .. Word - 1 BY <1>1, DivMod
<1> QED BY <1>2 DEF Unsigned

(* A number has one remainder. *)
LEMMA UnsignedUnique ==
  ASSUME NEW n \in Int, NEW q \in Int, NEW r \in 0 .. Word - 1, n = Word * q + r
  PROVE  Unsigned(n) = r
<1>1. n % Word = r BY WordSize, DivisionIs
<1> QED BY <1>1 DEF Unsigned

(* A number that is not a word's, but not far from one. *)
LEMMA UnsignedTurns ==
  ASSUME NEW n \in Int
  PROVE  /\ n \in 0 .. Word - 1 => Unsigned(n) = n
         /\ n + Word \in 0 .. Word - 1 => Unsigned(n) = n + Word
         /\ n - Word \in 0 .. Word - 1 => Unsigned(n) = n - Word
         /\ n + 2 * Word \in 0 .. Word - 1 => Unsigned(n) = n + 2 * Word
<1> USE WordSize
<1>1. ASSUME NEW q \in Int, n - Word * q \in 0 .. Word - 1 PROVE Unsigned(n) = n - Word * q
  <2> DEFINE r == n - Word * q
  <2>1. n = Word * q + r /\ r \in 0 .. Word - 1 BY <1>1
  <2> HIDE DEF r
  <2>2. Unsigned(n) = r BY <2>1, UnsignedUnique
  <2> QED BY <2>2 DEF r
<1>2. /\ n - Word * 0 = n /\ n - Word * (-1) = n + Word
      /\ n - Word * 1 = n - Word /\ n - Word * (-2) = n + 2 * Word
  OBVIOUS
<1>3. n \in 0 .. Word - 1 => Unsigned(n) = n
  <2>1. n - Word * 0 \in 0 .. Word - 1 => Unsigned(n) = n - Word * 0 BY <1>1
  <2> QED BY <2>1, <1>2
<1>4. n + Word \in 0 .. Word - 1 => Unsigned(n) = n + Word
  <2>1. n - Word * (-1) \in 0 .. Word - 1 => Unsigned(n) = n - Word * (-1) BY <1>1
  <2> QED BY <2>1, <1>2
<1>5. n - Word \in 0 .. Word - 1 => Unsigned(n) = n - Word
  <2>1. n - Word * 1 \in 0 .. Word - 1 => Unsigned(n) = n - Word * 1 BY <1>1
  <2> QED BY <2>1, <1>2
<1>6. n + 2 * Word \in 0 .. Word - 1 => Unsigned(n) = n + 2 * Word
  <2>1. n - Word * (-2) \in 0 .. Word - 1 => Unsigned(n) = n - Word * (-2) BY <1>1
  <2> QED BY <2>1, <1>2
<1> QED BY <1>3, <1>4, <1>5, <1>6

(* The signed reading of a word is the word, a word too far it turns over. *)
LEMMA SignedIs ==
  ASSUME NEW n \in Int
  PROVE  /\ n \in Words => Signed(n) = n
         /\ n > MaxWord /\ n <= MaxWord + Word => Signed(n) = n - Word
         /\ n < MinWord /\ n >= MinWord - Word => Signed(n) = n + Word
         /\ Signed(n) \in Words
<1> USE WordSize
<1>1. Unsigned(n) \in 0 .. Word - 1 BY UnsignedIs
<1>2. n \in Words => Signed(n) = n
  BY UnsignedTurns DEF Signed, Words
<1>3. n > MaxWord /\ n <= MaxWord + Word => Signed(n) = n - Word
  BY UnsignedTurns DEF Signed
<1>4. n < MinWord /\ n >= MinWord - Word => Signed(n) = n + Word
  BY UnsignedTurns DEF Signed
<1>5. Signed(n) \in Words BY <1>1 DEF Signed, Words
<1> QED BY <1>2, <1>3, <1>4, <1>5

-----------------------------------------------------------------------------
(* The checked sum of two words is their sum, or Overflow when that is no  *)
(* word.                                                                   *)
THEOREM CheckedAddIsExact ==
  ASSUME NEW a \in Words, NEW b \in Words
  PROVE  CheckedAdd(a, b) = IF InWord(a + b) THEN a + b ELSE Overflow
  BY WordSize DEF CheckedAdd, InWord, Words, Overflow

(* A product is too large exactly when a factor exceeds the quotient.      *)
LEMMA QuotientTest ==
  ASSUME NEW x \in Nat, NEW y \in Nat \ {0}, NEW z \in Int
  PROVE  /\ x \div y \in Nat
         /\ z > x \div y <=> z * y > x
<1> DEFINE q == x \div y
           r == x % y
<1>1. q \in Int /\ r \in 0 .. y - 1 /\ x = y * q + r BY DivMod
<1> HIDE DEF q, r
<1>2. q \in Nat
  <2> SUFFICES ASSUME q <= -1 PROVE FALSE BY <1>1
  <2>1. y * q <= y * (-1) BY <1>1, ProductMonotonic
  <2>2. y * q \in Int BY <1>1
  <2> QED BY <1>1, <2>1, <2>2
<1>3. ASSUME z > q PROVE z * y > x
  <2>1. y * (q + 1) <= y * z BY <1>1, <1>3, ProductMonotonic
  <2>2. y * (q + 1) = y * q + y /\ y * q \in Int /\ y * z \in Int /\ z * y = y * z BY <1>1
  <2> QED BY <1>1, <2>1, <2>2
<1>4. ASSUME z <= q PROVE z * y <= x
  <2>1. y * z <= y * q BY <1>1, <1>4, ProductMonotonic
  <2>2. y * q \in Int /\ y * z \in Int /\ z * y = y * z BY <1>1
  <2> QED BY <1>1, <2>1, <2>2
<1>5. z > q <=> z * y > x
  <2>1. z * y \in Int BY <1>1
  <2> QED BY <1>1, <1>3, <1>4, <2>1
<1> QED BY <1>2, <1>5 DEF q

(* So is the checked product: the quotients the code compares with, which  *)
(* truncate towards zero, tell for every pair of signs.                    *)
THEOREM CheckedMulIsExact ==
  ASSUME NEW a \in Words, NEW b \in Words
  PROVE  CheckedMul(a, b) = IF InWord(a * b) THEN a * b ELSE Overflow
<1> USE WordSize
<1>1. a \in Int /\ b \in Int /\ a * b \in Int /\ Overflow \notin {a, b} BY DEF Words, Overflow
<1>2. CASE a = 0 \/ b = 0
  <2>1. a * b = 0 BY <1>1, <1>2
  <2> QED BY <1>1, <1>2, <2>1 DEF CheckedMul, InWord
<1>3. CASE a # 0 /\ b # 0 /\ -1 \in {a, b}
  <2> DEFINE other == IF a = -1 THEN b ELSE a
  <2>1. a * b = -other /\ other \in Words BY <1>1, <1>3
  <2>2. CheckedMul(a, b) = IF other = MinWord THEN Overflow ELSE -other
    BY <1>1, <1>3 DEF CheckedMul
  <2> HIDE DEF other
  <2> QED BY <2>1, <2>2 DEF InWord, Words
<1>4. CASE a > 0 /\ b > 0
  <2>1. Quotient(MaxWord, b) = MaxWord \div b BY <1>1, <1>4 DEF Quotient
  <2>2. MaxWord \in Nat OBVIOUS
  <2>3. a > Quotient(MaxWord, b) <=> a * b > MaxWord BY <1>1, <1>4, <2>1, <2>2, QuotientTest
  <2>4. a * b > 0 BY <1>1, <1>4
  <2>5. CheckedMul(a, b) = IF a > Quotient(MaxWord, b) THEN Overflow ELSE a * b
    BY <1>1, <1>4 DEF CheckedMul
  <2> QED BY <1>1, <2>3, <2>4, <2>5 DEF InWord
<1>5. CASE a > 0 /\ b < 0 /\ b # -1
  <2>1. Quotient(MinWord, a) = -(Top \div a) BY <1>1, <1>5 DEF Quotient
  <2>2. Top \div a \in Nat /\ (-b > Top \div a <=> (-b) * a > Top)
    BY <1>1, <1>5, QuotientTest
  <2>3. (-b) * a = -(a * b) BY <1>1
  <2>4. a * b < 0 BY <1>1, <1>5
  <2>5. CheckedMul(a, b) = IF b < Quotient(MinWord, a) THEN Overflow ELSE a * b
    BY <1>1, <1>5 DEF CheckedMul
  <2> QED BY <1>1, <2>1, <2>2, <2>3, <2>4, <2>5 DEF InWord
<1>6. CASE a < 0 /\ b > 0 /\ a # -1
  <2>1. Quotient(MinWord, b) = -(Top \div b) BY <1>1, <1>6 DEF Quotient
  <2>2. Top \div b \in Nat /\ (-a > Top \div b <=> (-a) * b > Top)
    BY <1>1, <1>6, QuotientTest
  <2>3. (-a) * b = -(a * b) BY <1>1
  <2>4. a * b < 0 BY <1>1, <1>6
  <2>5. CheckedMul(a, b) = IF a < Quotient(MinWord, b) THEN Overflow ELSE a * b
    BY <1>1, <1>6 DEF CheckedMul
  <2> QED BY <1>1, <2>1, <2>2, <2>3, <2>4, <2>5 DEF InWord
<1>7. CASE a < 0 /\ b < 0 /\ a # -1 /\ b # -1
  <2>1. Quotient(MaxWord, b) = -(MaxWord \div (-b)) BY <1>1, <1>7 DEF Quotient
  <2>2. MaxWord \in Nat OBVIOUS
  <2>3. MaxWord \div (-b) \in Nat /\ (-a > MaxWord \div (-b) <=> (-a) * (-b) > MaxWord)
    BY <1>1, <1>7, <2>2, QuotientTest
  <2>4. (-a) * (-b) = a * b /\ a * b > 0 BY <1>1, <1>7
  <2>5. CheckedMul(a, b) = IF a < Quotient(MaxWord, b) THEN Overflow ELSE a * b
    BY <1>1, <1>7 DEF CheckedMul
  <2> QED BY <1>1, <2>1, <2>3, <2>4, <2>5 DEF InWord
<1> QED BY <1>1, <1>2, <1>3, <1>4, <1>5, <1>6, <1>7

-----------------------------------------------------------------------------
(* Two words stand for every number of twice the width.                    *)
Wides == [high : Words, low : 0 .. Word - 1]
InWide(n) == MinWord * Word <= n /\ n <= MaxWord * Word + Word - 1

(* Two words stand for a wide number when the high one is a word. *)
LEMMA WideIs ==
  ASSUME NEW high \in Int, NEW low \in 0 .. Word - 1
  PROVE  /\ ValueOf(Int128(high, low)) = high * Word + low
         /\ InWide(high * Word + low) <=> high \in Words
<1> USE WordSize
<1>1. ValueOf(Int128(high, low)) = high * Word + low BY DEF ValueOf, Int128
<1> DEFINE number == high * Word
           least  == MinWord * Word
           most   == MaxWord * Word
<1>2. number \in Int /\ least \in Int /\ most \in Int OBVIOUS
<1>3. CASE high > MaxWord
  <2>1. Word * (MaxWord + 1) <= Word * high BY <1>3, ProductMonotonic
  <2>2. Word * (MaxWord + 1) = most + Word /\ Word * high = number OBVIOUS
  <2>3. most + Word <= number BY <2>1, <2>2
  <2> HIDE DEF number, least, most
  <2>4. ~(number + low <= most + Word - 1) BY <1>2, <2>3
  <2> QED BY <1>1, <1>3, <2>4 DEF InWide, Words, number, most
<1>4. CASE high < MinWord
  <2>1. Word * high <= Word * (MinWord - 1) BY <1>4, ProductMonotonic
  <2>2. Word * (MinWord - 1) = least - Word /\ Word * high = number OBVIOUS
  <2>3. number <= least - Word BY <2>1, <2>2
  <2> HIDE DEF number, least, most
  <2>4. ~(least <= number + low) BY <1>2, <2>3
  <2> QED BY <1>1, <1>4, <2>4 DEF InWide, Words, number, least
<1>5. CASE high \in Words
  <2>1. Word * MinWord <= Word * high /\ Word * high <= Word * MaxWord
    BY <1>5, ProductMonotonic DEF Words
  <2>2. least <= number /\ number <= most BY <2>1
  <2> HIDE DEF number, least, most
  <2>3. least <= number + low /\ number + low <= most + Word - 1 BY <1>2, <2>2
  <2> QED BY <1>1, <1>5, <2>3 DEF InWide, number, least, most
<1> QED BY <1>1, <1>3, <1>4, <1>5 DEF Words

(* A sum of two wide numbers is exact, or Overflow128 when it is not wide: *)
(* the one test on the signs finds every sum that wrapped and no other.    *)
THEOREM CheckedAdd128IsExact ==
  ASSUME NEW a \in Wides, NEW b \in Wides
  PROVE  IF InWide(ValueOf(a) + ValueOf(b))
         THEN /\ CheckedAdd128(a, b) \in Wides
              /\ ValueOf(CheckedAdd128(a, b)) = ValueOf(a) + ValueOf(b)
         ELSE CheckedAdd128(a, b) = Overflow128
<1> USE WordSize
<1> DEFINE low == Unsigned(a.low + b.low)
           carry == IF low < a.low THEN 1 ELSE 0
           sum == a.high + b.high + carry
           high == Signed(sum)
<1>1. /\ a.high \in Words /\ b.high \in Words /\ a.low \in 0 .. Word - 1 /\ b.low \in 0 .. Word - 1
      /\ a.high \in Int /\ b.high \in Int
  BY DEF Wides, Words
<1>2. low \in 0 .. Word - 1 /\ carry \in {0, 1} /\ a.low + b.low = carry * Word + low
  <2>1. CASE a.low + b.low < Word
    <3>1. low = a.low + b.low BY <1>1, <2>1, UnsignedTurns
    <3> QED BY <1>1, <2>1, <3>1
  <2>2. CASE a.low + b.low >= Word
    <3>1. low = a.low + b.low - Word BY <1>1, <2>2, UnsignedTurns
    <3> QED BY <1>1, <2>2, <3>1
  <2> QED BY <1>1, <2>1, <2>2
<1>3. sum \in Int BY <1>1, <1>2
<1>4. ValueOf(a) + ValueOf(b) = sum * Word + low
  <2> DEFINE x == a.high * Word
             y == b.high * Word
             z == carry * Word
  <2>1. x \in Int /\ y \in Int /\ z \in Int BY <1>1, <1>2
  <2>2. sum * Word = x + y + z
    <3>1. ASSUME NEW k \in {0, 1} PROVE (a.high + b.high + k) * Word = x + y + k * Word
      BY <1>1
    <3> HIDE DEF low
    <3> QED BY <1>2, <3>1
  <2>3. ValueOf(a) = x + a.low /\ ValueOf(b) = y + b.low /\ a.low + b.low = z + low
    BY <1>2 DEF ValueOf
  <2> HIDE DEF x, y, z, sum, low
  <2> QED BY <1>1, <1>2, <1>3, <2>1, <2>2, <2>3
<1>5. CheckedAdd128(a, b) = IF (a.high < 0) = (b.high < 0) /\ (high < 0) # (a.high < 0)
                            THEN Overflow128 ELSE Int128(high, low)
  <2>1. ~Overflowed128(a) /\ ~Overflowed128(b) BY <1>1 DEF Overflowed128, Overflow, Words
  <2> QED BY <2>1 DEF CheckedAdd128
<1>6. sum = a.high + b.high + carry OBVIOUS
<1> HIDE DEF low, carry, sum
<1>7. InWide(ValueOf(a) + ValueOf(b)) <=> sum \in Words
  BY <1>2, <1>3, <1>4, WideIs
<1>8. CASE sum \in Words
  <2>1. high = sum BY <1>3, <1>8, SignedIs
  <2>2. ~((a.high < 0) = (b.high < 0) /\ (high < 0) # (a.high < 0))
    BY <1>1, <1>2, <1>3, <1>6, <2>1 DEF Words
  <2>3. CheckedAdd128(a, b) = Int128(sum, low) BY <1>5, <2>1, <2>2
  <2>4. ValueOf(Int128(sum, low)) = sum * Word + low BY <1>2, <1>3, WideIs
  <2>5. Int128(sum, low) \in Wides BY <1>2, <1>8 DEF Int128, Wides
  <2> QED BY <1>4, <1>7, <1>8, <2>3, <2>4, <2>5
<1>9. CASE sum \notin Words
  <2>1. CASE sum > MaxWord
    <3>1. high = sum - Word /\ high < 0 BY <1>1, <1>2, <1>3, <1>6, <2>1, SignedIs DEF Words
    <3>2. ~(a.high < 0) /\ ~(b.high < 0) BY <1>1, <1>2, <1>3, <1>6, <2>1 DEF Words
    <3>3. (a.high < 0) = (b.high < 0) /\ (high < 0) # (a.high < 0) BY <3>1, <3>2
    <3>4. CheckedAdd128(a, b) = Overflow128 BY <1>5, <3>3
    <3> QED BY <1>7, <1>9, <3>4
  <2>2. CASE sum < MinWord
    <3>1. high = sum + Word /\ high >= 0 /\ high \in Int BY <1>1, <1>2, <1>3, <1>6, <2>2, SignedIs DEF Words
    <3>2. a.high < 0 /\ b.high < 0 BY <1>1, <1>2, <1>3, <1>6, <2>2 DEF Words
    <3>3. ~(high < 0) BY <1>3, <3>1, SignedIs DEF Words
    <3>4. (a.high < 0) = (b.high < 0) /\ (high < 0) # (a.high < 0) BY <3>2, <3>3
    <3>5. CheckedAdd128(a, b) = Overflow128 BY <1>5, <3>4
    <3> QED BY <1>7, <1>9, <3>5
  <2> QED BY <1>3, <1>9, <2>1, <2>2 DEF Words
<1> QED BY <1>8, <1>9

(* Negation is exact, but for the least number, which has no opposite and  *)
(* is its own.                                                             *)
LEMMA NegateIs ==
  ASSUME NEW x \in Wides
  PROVE  IF x.high = MinWord /\ x.low = 0
         THEN Negate(x) = x
         ELSE Negate(x) \in Wides /\ ValueOf(Negate(x)) = -ValueOf(x)
<1> USE WordSize
<1> DEFINE low == Unsigned((Word - 1 - x.low) + 1)
           high == -1 - x.high + (IF low = 0 THEN 1 ELSE 0)
<1>1. x.high \in Words /\ x.high \in Int /\ x.low \in 0 .. Word - 1 BY DEF Wides, Words
<1>2. x = Int128(x.high, x.low) BY DEF Wides, Int128
<1>3. Negate(x) = Int128(Signed(high), low) BY DEF Negate
<1>4. IF x.low = 0 THEN low = 0 ELSE low = Word - x.low
  BY <1>1, UnsignedTurns
<1>5. high = IF x.low = 0 THEN -x.high ELSE -1 - x.high
  BY <1>1, <1>4
<1> HIDE DEF low, high
<1>6. CASE x.high = MinWord /\ x.low = 0
  <2>1. high = MaxWord + 1 BY <1>1, <1>5, <1>6
  <2>2. Signed(high) = x.high BY <1>1, <1>6, <2>1, SignedIs
  <2> QED BY <1>2, <1>3, <1>4, <1>6, <2>2
<1>7. CASE ~(x.high = MinWord /\ x.low = 0)
  <2>1. high \in Words BY <1>1, <1>5, <1>7 DEF Words
  <2>2. Negate(x) = Int128(high, low) /\ low \in 0 .. Word - 1 /\ high \in Int
    BY <1>1, <1>3, <1>4, <2>1, SignedIs DEF Words
  <2>3. Negate(x) \in Wides BY <2>1, <2>2 DEF Int128, Wides
  <2>4. ValueOf(Negate(x)) = high * Word + low /\ ValueOf(x) = x.high * Word + x.low
    BY <1>1, <1>2, <2>2, WideIs
  <2>5. high * Word + low = -(x.high * Word + x.low)
    <3>1. (-x.high) * Word = -(x.high * Word) /\ (-1 - x.high) * Word = -(x.high * Word) - Word
          /\ x.high * Word \in Int
      BY <1>1
    <3> QED BY <1>1, <1>4, <1>5, <3>1
  <2> QED BY <1>7, <2>3, <2>4, <2>5
<1> QED BY <1>6, <1>7

-----------------------------------------------------------------------------
(* The magnitude of a word, read without a sign, is its absolute value.    *)
Abs(n) == IF n < 0 THEN -n ELSE n

LEMMA MagnitudeIs ==
  ASSUME NEW n \in Words
  PROVE  Magnitude(n) = Abs(n) /\ Abs(n) \in 0 .. Top
<1> USE WordSize
<1>1. n \in Int /\ Abs(n) \in 0 .. Top BY DEF Words, Abs
<1>2. CASE n >= 0
  <2>1. Unsigned(n) = n BY <1>1, <1>2, UnsignedTurns DEF Abs
  <2> QED BY <1>1, <1>2, <2>1 DEF Magnitude, Abs
<1>3. CASE n < 0
  <2>1. Unsigned(n) = n + Word BY <1>1, <1>3, UnsignedTurns DEF Abs
  <2>2. (Word - 1 - Unsigned(n)) + 1 = -n BY <1>1, <2>1
  <2>3. Unsigned(-n) = -n BY <1>1, <1>3, UnsignedTurns DEF Abs
  <2> QED BY <1>1, <1>3, <2>2, <2>3 DEF Magnitude, Abs
<1> QED BY <1>1, <1>2, <1>3

(* The two halves of a number.                                             *)
LEMMA HalvesAre ==
  ASSUME NEW n \in Int
  PROVE  /\ Low(n) \in 0 .. Half - 1 /\ High(n) \in Int
         /\ n = Half * High(n) + Low(n)
<1>1. Half \in Nat \ {0} BY WordSize
<1> DEFINE q == n \div Half
           r == n % Half
<1>2. q \in Int /\ r \in 0 .. Half - 1 /\ n = Half * q + r BY <1>1, DivMod
<1> HIDE DEF q, r
<1>3. Low(n) = r /\ High(n) = q BY DEF Low, High, q, r
<1> QED BY <1>2, <1>3

(* A non-negative number below a multiple of Half has a half below it.     *)
LEMMA HighBelow ==
  ASSUME NEW n \in Nat, NEW bound \in Int, n < Half * bound
  PROVE  High(n) \in 0 .. bound - 1
<1>1. Half \in Nat /\ Half >= 2 BY WordSize
<1>2. Low(n) \in 0 .. Half - 1 /\ High(n) \in Int /\ n = Half * High(n) + Low(n)
  BY HalvesAre
<1>3. High(n) >= 0
  <2> SUFFICES ASSUME High(n) <= -1 PROVE FALSE BY <1>2
  <2>1. Half * High(n) <= Half * (-1) BY <1>1, <1>2, ProductMonotonic
  <2>2. Half * High(n) \in Int BY <1>1, <1>2
  <2> QED BY <1>1, <1>2, <2>1, <2>2
<1>4. High(n) <= bound - 1
  <2> SUFFICES ASSUME bound <= High(n) PROVE FALSE BY <1>2
  <2>1. Half * bound <= Half * High(n) BY <1>1, <1>2, ProductMonotonic
  <2>2. Half * High(n) \in Int /\ Half * bound \in Int BY <1>1, <1>2
  <2> QED BY <1>1, <1>2, <2>1, <2>2
<1> QED BY <1>2, <1>3, <1>4

(* Four partial products make the product.                                 *)
LEMMA PartialsAddUp ==
  ASSUME NEW a \in 0 .. Top, NEW b \in 0 .. Top
  PROVE  /\ MultiplyMagnitudes(a, b) \in Wides
         /\ ValueOf(MultiplyMagnitudes(a, b)) = a * b
<1> USE WordSize
<1> DEFINE al == Low(a)  ah == High(a)  bl == Low(b)  bh == High(b)
<1>1. /\ al \in 0 .. Half - 1 /\ ah \in 0 .. Half - 1 /\ a = Half * ah + al
      /\ bl \in 0 .. Half - 1 /\ bh \in 0 .. Half - 1 /\ b = Half * bh + bl
  <2>1. a \in Nat /\ b \in Nat /\ a < Half * Half /\ b < Half * Half /\ Half \in Int
    OBVIOUS
  <2>2. High(a) \in 0 .. Half - 1 /\ High(b) \in 0 .. Half - 1 BY <2>1, HighBelow
  <2> QED BY <2>1, <2>2, HalvesAre
<1> HIDE DEF al, ah, bl, bh
<1> DEFINE ll == al * bl  lh == al * bh  hl == ah * bl  hh == ah * bh
<1>2. ll \in Nat /\ lh \in Nat /\ hl \in Nat /\ hh \in Nat
  BY <1>1
<1>3. a * b = hh * Word + (lh + hl) * Half + ll
  <2>1. a * b = (Half * ah + al) * (Half * bh + bl) BY <1>1
  <2>2. (Half * ah + al) * (Half * bh + bl)
          = (ah * bh) * (Half * Half) + (al * bh + ah * bl) * Half + al * bl
    BY <1>1
  <2> QED BY <2>1, <2>2
<1> HIDE DEF ll, lh, hl, hh
<1> DEFINE middle == High(ll) + Low(lh) + Low(hl)
           high == hh + High(lh) + High(hl) + High(middle)
           low == Low(ll) + Low(middle) * Half
<1>4. /\ Low(ll) \in 0 .. Half - 1 /\ High(ll) \in Int /\ ll = Half * High(ll) + Low(ll)
      /\ Low(lh) \in 0 .. Half - 1 /\ High(lh) \in Int /\ lh = Half * High(lh) + Low(lh)
      /\ Low(hl) \in 0 .. Half - 1 /\ High(hl) \in Int /\ hl = Half * High(hl) + Low(hl)
  BY <1>2, HalvesAre
<1>5. middle \in Int BY <1>4
<1>6. middle = High(ll) + Low(lh) + Low(hl) OBVIOUS
<1> HIDE DEF middle
<1>7. Low(middle) \in 0 .. Half - 1 /\ High(middle) \in Int /\ middle = Half * High(middle) + Low(middle)
  BY <1>5, HalvesAre
<1>8. MultiplyMagnitudes(a, b) = Int128(Signed(high), low)
  BY DEF MultiplyMagnitudes, SumPartials, middle, ll, lh, hl, hh, al, ah, bl, bh
<1>9. low \in 0 .. Word - 1
  <2>1. Half * Low(middle) <= Half * (Half - 1) BY <1>7, ProductMonotonic
  <2>2. Half * (Half - 1) = Word - Half /\ Low(middle) * Half = Half * Low(middle)
        /\ Half * Low(middle) \in Nat
    BY <1>7
  <2> QED BY <1>4, <2>1, <2>2
<1>10. high \in Int BY <1>2, <1>4, <1>7
<1>11. a * b = high * Word + low
  <2> DEFINE u == High(ll)  u0 == Low(ll)  v == High(lh)  v0 == Low(lh)
             w == High(hl)  w0 == Low(hl)  m == High(middle)  m0 == Low(middle)
  <2>1. /\ u \in Int /\ v \in Int /\ w \in Int /\ m \in Int
        /\ u0 \in Int /\ v0 \in Int /\ w0 \in Int /\ m0 \in Int
    BY <1>4, <1>7
  <2>2. lh = Half * v + v0 /\ hl = Half * w + w0 /\ ll = Half * u + u0
        /\ Half * m + m0 = u + v0 + w0
    BY <1>4, <1>6, <1>7
  <2>3. high = hh + v + w + m /\ low = u0 + m0 * Half OBVIOUS
  <2> HIDE DEF u, u0, v, v0, w, w0, m, m0, high, low
  <2>4. (lh + hl) * Half + ll = (v + w) * Word + (u + v0 + w0) * Half + u0
    <3>1. (Half * v + v0 + (Half * w + w0)) * Half + (Half * u + u0)
            = (v + w) * (Half * Half) + (u + v0 + w0) * Half + u0
      BY <2>1
    <3> QED BY <2>2, <3>1
  <2>5. (Half * m + m0) * Half = m * Word + m0 * Half BY <2>1
  <2>6. (u + v0 + w0) * Half = m * Word + m0 * Half BY <2>2, <2>5
  <2>7. high * Word = hh * Word + (v + w) * Word + m * Word BY <2>1, <2>3, <1>2
  <2> DEFINE x == hh * Word  y == (v + w) * Word  z == m * Word
             t == m0 * Half  s == (lh + hl) * Half
  <2>8. /\ x \in Int /\ y \in Int /\ z \in Int /\ t \in Int /\ s \in Int
    BY <2>1, <1>2
  <2>9. a * b = x + s + ll BY <1>3
  <2>10. s + ll = y + (u + v0 + w0) * Half + u0 BY <2>4
  <2>11. (u + v0 + w0) * Half = z + t BY <2>6
  <2>12. high * Word = x + y + z BY <2>7
  <2>13. low = u0 + t BY <2>3
  <2> HIDE DEF x, y, z, t, s
  <2> QED BY <1>2, <2>1, <2>8, <2>9, <2>10, <2>11, <2>12, <2>13
<1> HIDE DEF high, low
<1>12. high \in Words
  <2>1. high >= 0
    <3> SUFFICES ASSUME high <= -1 PROVE FALSE BY <1>10
    <3>1. Word * high <= Word * (-1) BY <1>10, ProductMonotonic
    <3>2. high * Word = Word * high /\ Word * high \in Int /\ a * b \in Nat BY <1>10
    <3> QED BY <1>9, <1>11, <3>1, <3>2
  <2>2. high <= MaxWord
    <3> SUFFICES ASSUME Top <= high PROVE FALSE BY <1>10
    <3>1. Word * Top <= Word * high BY <1>10, ProductMonotonic
    <3>2. a * b <= Top * Top
      <4>1. a * b <= a * Top BY ProductMonotonic
      <4>2. Top * a <= Top * Top BY ProductMonotonic
      <4> QED BY <4>1, <4>2
    <3>3. Word * Top = 2 * (Top * Top) /\ Top * Top \in Nat /\ Top * Top > 0 OBVIOUS
    <3>4. high * Word = Word * high /\ Word * high \in Int /\ a * b \in Nat BY <1>10
    <3> QED BY <1>9, <1>11, <3>1, <3>2, <3>3, <3>4
  <2> QED BY <1>10, <2>1, <2>2 DEF Words
<1>13. MultiplyMagnitudes(a, b) = Int128(high, low) BY <1>8, <1>10, <1>12, SignedIs
<1>14. Int128(high, low) \in Wides BY <1>9, <1>12 DEF Int128, Wides
<1>15. ValueOf(Int128(high, low)) = high * Word + low BY <1>9, <1>10, WideIs
<1> QED BY <1>11, <1>13, <1>14, <1>15

(* A product of two words is exact: neither a partial product nor the sum  *)
(* of their parts is ever more than a word holds, and the product itself   *)
(* always fits.                                                            *)
THEOREM MultiplyWideIsExact ==
  ASSUME NEW a \in Words, NEW b \in Words
  PROVE  MultiplyWide(a, b) \in Wides /\ ValueOf(MultiplyWide(a, b)) = a * b
<1> USE WordSize
<1> DEFINE magnitude == MultiplyMagnitudes(Magnitude(a), Magnitude(b))
           negative == (a < 0) # (b < 0)
<1>1. a \in Int /\ b \in Int /\ Overflow \notin {a, b} BY DEF Words, Overflow
<1>2. /\ Magnitude(a) = Abs(a) /\ Abs(a) \in 0 .. Top
      /\ Magnitude(b) = Abs(b) /\ Abs(b) \in 0 .. Top
  BY MagnitudeIs
<1>3. magnitude \in Wides /\ ValueOf(magnitude) = Abs(a) * Abs(b)
  BY <1>2, PartialsAddUp
<1>4. MultiplyWide(a, b) = IF negative THEN Negate(magnitude) ELSE magnitude
  BY <1>1 DEF MultiplyWide, WithSign
<1> HIDE DEF magnitude
<1>5. CASE negative
  <2>1. Abs(a) * Abs(b) = -(a * b) BY <1>1, <1>5 DEF Abs
  <2>2. ~(magnitude.high = MinWord /\ magnitude.low = 0)
    <3> SUFFICES ASSUME magnitude.high = MinWord, magnitude.low = 0 PROVE FALSE OBVIOUS
    <3>1. ValueOf(magnitude) = MinWord * Word BY <1>3 DEF ValueOf, Wides
    <3>2. MinWord * Word < 0 OBVIOUS
    <3>3. Abs(a) * Abs(b) >= 0 BY <1>2
    <3> QED BY <1>3, <3>1, <3>2, <3>3
  <2>3. Negate(magnitude) \in Wides /\ ValueOf(Negate(magnitude)) = -ValueOf(magnitude)
    BY <1>3, <2>2, NegateIs
  <2>4. a * b \in Int BY <1>1
  <2> QED BY <1>3, <1>4, <1>5, <2>1, <2>3, <2>4
<1>6. CASE ~negative
  <2>1. Abs(a) * Abs(b) = a * b BY <1>1, <1>6 DEF Abs
  <2> QED BY <1>3, <1>4, <1>6, <2>1
<1> QED BY <1>5, <1>6

-----------------------------------------------------------------------------
(* Six halves, the least first, and what they stand for.                   *)
SixHalves == [1 .. 6 -> 0 .. Half - 1]

Power(k) == CASE k = 1 -> 1
              [] k = 2 -> Half
              [] k = 3 -> Word
              [] k = 4 -> Word * Half
              [] k = 5 -> Word * Word
              [] k = 6 -> Word * Word * Half

SixValue(p) ==
  p[1] + p[2] * Power(2) + p[3] * Power(3) + p[4] * Power(4) + p[5] * Power(5) + p[6] * Power(6)

(* A digit's row of the schoolbook multiplication. *)
LEMMA AddRowIs ==
  ASSUME NEW p \in SixHalves, NEW i \in 1 .. 4, p[i + 2] = 0,
         NEW digit \in 0 .. Half - 1, NEW by \in 0 .. Top
  PROVE  LET q == AddRow(p, i, digit, by)
         IN  /\ q \in SixHalves
             /\ \A k \in 1 .. 6 : k \notin {i, i + 1, i + 2} => q[k] = p[k]
             /\ q[i] + q[i + 1] * Half + q[i + 2] * Word
                  = p[i] + p[i + 1] * Half + p[i + 2] * Word + digit * by
<1> USE WordSize
<1> DEFINE bl == Low(by)  bh == High(by)
           first == p[i] + digit * bl
           second == p[i + 1] + digit * bh + High(first)
           q == AddRow(p, i, digit, by)
<1>1. p[i] \in 0 .. Half - 1 /\ p[i + 1] \in 0 .. Half - 1 BY DEF SixHalves
<1>2. bl \in 0 .. Half - 1 /\ bh \in 0 .. Half - 1 /\ by = Half * bh + bl
  <2>1. by \in Nat /\ by < Half * Half /\ Half \in Int OBVIOUS
  <2>2. High(by) \in 0 .. Half - 1 BY <2>1, HighBelow
  <2> QED BY <2>1, <2>2, HalvesAre
<1> HIDE DEF bl, bh
<1>3. digit * bl \in Nat /\ digit * bh \in Nat
      /\ digit * bl <= (Half - 1) * (Half - 1) /\ digit * bh <= (Half - 1) * (Half - 1)
  <2>1. digit * bl <= digit * (Half - 1) /\ digit * bh <= digit * (Half - 1)
    BY <1>2, ProductMonotonic
  <2>2. (Half - 1) * digit <= (Half - 1) * (Half - 1) /\ digit * (Half - 1) = (Half - 1) * digit
    BY ProductMonotonic
  <2>3. digit * bl \in Nat /\ digit * bh \in Nat /\ digit * (Half - 1) \in Int BY <1>2
  <2> QED BY <1>2, <2>1, <2>2, <2>3
<1>4. (Half - 1) * (Half - 1) = Half * Half - 2 * Half + 1 OBVIOUS
<1>5. first \in Nat /\ first < Half * Half BY <1>1, <1>3, <1>4
<1>6. first = p[i] + digit * bl OBVIOUS
<1> HIDE DEF first
<1>7. /\ Low(first) \in 0 .. Half - 1 /\ High(first) \in 0 .. Half - 1
      /\ first = Half * High(first) + Low(first)
  <2>1. High(first) \in 0 .. Half - 1 BY <1>5, HighBelow
  <2> QED BY <1>5, <2>1, HalvesAre
<1>8. second \in Nat /\ second < Half * Half BY <1>1, <1>3, <1>4, <1>7
<1>9. second = p[i + 1] + digit * bh + High(first) OBVIOUS
<1> HIDE DEF second
<1>10. /\ Low(second) \in 0 .. Half - 1 /\ High(second) \in 0 .. Half - 1
       /\ second = Half * High(second) + Low(second)
  <2>1. High(second) \in 0 .. Half - 1 BY <1>8, HighBelow
  <2> QED BY <1>8, <2>1, HalvesAre
<1>11. q = [p EXCEPT ![i] = Low(first), ![i + 1] = Low(second), ![i + 2] = @ + High(second)]
  BY DEF AddRow, first, second, bl, bh
<1> HIDE DEF q
<1>12. /\ q \in SixHalves
       /\ q[i] = Low(first) /\ q[i + 1] = Low(second) /\ q[i + 2] = High(second)
       /\ \A k \in 1 .. 6 : k \notin {i, i + 1, i + 2} => q[k] = p[k]
  BY <1>7, <1>10, <1>11 DEF SixHalves
<1>13. Low(first) + Low(second) * Half + High(second) * Word
         = p[i] + p[i + 1] * Half + digit * by
  <2> DEFINE f0 == Low(first)  f1 == High(first)  s0 == Low(second)  s1 == High(second)
             x == digit * bl  y == digit * bh  m == p[i]  n == p[i + 1]
  <2>1. /\ f0 \in Int /\ f1 \in Int /\ s0 \in Int /\ s1 \in Int /\ x \in Int /\ y \in Int
        /\ m \in Int /\ n \in Int
        /\ Half * f1 + f0 = m + x /\ Half * s1 + s0 = n + y + f1
    BY <1>1, <1>3, <1>6, <1>7, <1>9, <1>10
  <2>2. digit * by = y * Half + x BY <1>2
  <2> HIDE DEF f0, f1, s0, s1, x, y, m, n
  <2>3. (Half * s1 + s0) * Half = s1 * Word + s0 * Half BY <2>1
  <2>4. (n + y + f1) * Half = n * Half + y * Half + Half * f1 BY <2>1
  <2> DEFINE a == s1 * Word  b == s0 * Half  c == n * Half  d == y * Half  e == Half * f1
             z == digit * by
  <2>5. a \in Int /\ b \in Int /\ c \in Int /\ d \in Int /\ e \in Int BY <2>1
  <2>6. a + b = c + d + e /\ e + f0 = m + x /\ z = d + x BY <2>1, <2>2, <2>3, <2>4
  <2>7. f0 + b + a = m + c + z
    <3> HIDE DEF a, b, c, d, e, z
    <3> QED BY <2>1, <2>5, <2>6
  <2> QED BY <2>7 DEF f0, s0, s1, m, n
<1>14. p[i + 2] * Word = 0 OBVIOUS
<1>15. p[i] + p[i + 1] * Half + p[i + 2] * Word + digit * by = p[i] + p[i + 1] * Half + digit * by
  <2>1. p[i] \in Int /\ p[i + 1] * Half \in Int /\ digit * by \in Int BY <1>1
  <2> QED BY <1>14, <2>1
<1>16. q[i] + q[i + 1] * Half + q[i + 2] * Word
         = p[i] + p[i + 1] * Half + p[i + 2] * Word + digit * by
  BY <1>12, <1>13, <1>15
<1> QED BY <1>12, <1>16 DEF q

(* A row may be added at any place. *)
LEMMA Scaled ==
  ASSUME NEW x \in Int, NEW y \in Int, NEW z \in Int, NEW u \in Int, NEW v \in Int, NEW w \in Int,
         NEW n \in Int, NEW c \in Int,
         x + y * Half + z * Word = u + v * Half + w * Word + n
  PROVE  x * c + y * (Half * c) + z * (Word * c)
           = u * c + v * (Half * c) + w * (Word * c) + n * c
<1> USE WordSize
<1>1. (x + y * Half + z * Word) * c = x * c + y * (Half * c) + z * (Word * c) OBVIOUS
<1>2. (u + v * Half + w * Word + n) * c = u * c + v * (Half * c) + w * (Word * c) + n * c OBVIOUS
<1> QED BY <1>1, <1>2

(* The next place is worth Half times as much. *)
LEMMA Powers ==
  /\ \A k \in 1 .. 6 : Power(k) \in Int
  /\ \A k \in 1 .. 4 : Power(k + 1) = Half * Power(k) /\ Power(k + 2) = Word * Power(k)
<1> USE WordSize DEF Power
<1>1. ASSUME NEW k \in 1 .. 6 PROVE Power(k) \in Int OBVIOUS
<1>2. Power(2) = Half * Power(1) /\ Power(3) = Word * Power(1) OBVIOUS
<1>3. Power(3) = Half * Power(2) /\ Power(4) = Word * Power(2) OBVIOUS
<1>4. Power(4) = Half * Power(3) /\ Power(5) = Word * Power(3) OBVIOUS
<1>5. Power(5) = Half * Power(4) /\ Power(6) = Word * Power(4)
  <2>1. Half * (Word * Half) = Word * Word OBVIOUS
  <2>2. Word * (Word * Half) = Word * Word * Half OBVIOUS
  <2> QED BY <2>1, <2>2
<1>6. ASSUME NEW k \in 1 .. 4 PROVE Power(k + 1) = Half * Power(k) /\ Power(k + 2) = Word * Power(k)
  <2> HIDE DEF Power
  <2>1. k = 1 \/ k = 2 \/ k = 3 \/ k = 4 OBVIOUS
  <2> QED BY <1>2, <1>3, <1>4, <1>5, <2>1
<1> QED BY <1>1, <1>6

(* The row adds the digit's product, shifted to the digit's place. *)
LEMMA RowAdds ==
  ASSUME NEW p \in SixHalves, NEW i \in 1 .. 4, p[i + 2] = 0,
         NEW digit \in 0 .. Half - 1, NEW by \in 0 .. Top
  PROVE  LET q == AddRow(p, i, digit, by)
         IN  /\ q \in SixHalves
             /\ \A k \in 1 .. 6 : k \notin {i, i + 1, i + 2} => q[k] = p[k]
             /\ SixValue(q) = SixValue(p) + digit * by * Power(i)
<1> DEFINE q == AddRow(p, i, digit, by)
           n == digit * by
           Term(r, k) == r[k] * Power(k)
<1>1. /\ q \in SixHalves
      /\ \A k \in 1 .. 6 : k \notin {i, i + 1, i + 2} => q[k] = p[k]
      /\ q[i] + q[i + 1] * Half + q[i + 2] * Word = p[i] + p[i + 1] * Half + p[i + 2] * Word + n
  BY AddRowIs
<1>2. n \in Int BY WordSize
<1> HIDE DEF q, n
<1>3. ASSUME NEW r \in SixHalves PROVE \A k \in 1 .. 6 : r[k] \in Int /\ Term(r, k) \in Int
  BY <1>3, Powers, WordSize DEF SixHalves
<1>4. Term(q, i) + Term(q, i + 1) + Term(q, i + 2)
        = Term(p, i) + Term(p, i + 1) + Term(p, i + 2) + n * Power(i)
  <2>1. /\ q[i] \in Int /\ q[i + 1] \in Int /\ q[i + 2] \in Int
        /\ p[i] \in Int /\ p[i + 1] \in Int /\ p[i + 2] \in Int
    BY <1>1, <1>3
  <2>2. Power(i) \in Int /\ Power(i + 1) = Half * Power(i) /\ Power(i + 2) = Word * Power(i)
    BY Powers
  <2>3. q[i] * Power(i) + q[i + 1] * (Half * Power(i)) + q[i + 2] * (Word * Power(i))
          = p[i] * Power(i) + p[i + 1] * (Half * Power(i)) + p[i + 2] * (Word * Power(i))
              + n * Power(i)
    BY <1>1, <1>2, <2>1, <2>2, Scaled
  <2> QED BY <2>2, <2>3
<1>5. \A k \in 1 .. 6 : k \notin {i, i + 1, i + 2} => Term(q, k) = Term(p, k) BY <1>1
<1>6. ASSUME NEW r \in SixHalves
      PROVE SixValue(r) = Term(r, 1) + Term(r, 2) + Term(r, 3) + Term(r, 4) + Term(r, 5) + Term(r, 6)
  <2>1. Power(1) = 1 /\ r[1] \in Int BY <1>3, <1>6 DEF Power
  <2> QED BY <2>1 DEF SixValue
<1>7. n * Power(i) \in Int BY <1>2, Powers
<1>8. /\ \A k \in 1 .. 6 : Term(p, k) \in Int
      /\ \A k \in 1 .. 6 : Term(q, k) \in Int
  BY <1>1, <1>3
<1>9. SixValue(q) = SixValue(p) + n * Power(i)
  <2>1. /\ SixValue(q) = Term(q, 1) + Term(q, 2) + Term(q, 3) + Term(q, 4) + Term(q, 5) + Term(q, 6)
        /\ SixValue(p) = Term(p, 1) + Term(p, 2) + Term(p, 3) + Term(p, 4) + Term(p, 5) + Term(p, 6)
    BY <1>1, <1>6
  <2> HIDE DEF Term
  <2> DEFINE add == n * Power(i)
  <2>2. add \in Int /\ Term(q, i) + Term(q, i + 1) + Term(q, i + 2)
                         = Term(p, i) + Term(p, i + 1) + Term(p, i + 2) + add
    BY <1>4, <1>7
  <2> HIDE DEF add
  <2>3. i = 1 \/ i = 2 \/ i = 3 \/ i = 4 OBVIOUS
  <2>4. SixValue(q) = SixValue(p) + add
    BY <1>5, <1>8, <2>1, <2>2, <2>3
  <2> QED BY <2>4 DEF add
<1> QED BY <1>1, <1>9 DEF q, n

(* The four rows make the product of the number the digits stand for.      *)
LEMMA MultiplyHalvesIs ==
  ASSUME NEW d1 \in 0 .. Half - 1, NEW d2 \in 0 .. Half - 1,
         NEW d3 \in 0 .. Half - 1, NEW d4 \in 0 .. Half - 1, NEW by \in 0 .. Top
  PROVE  LET p == MultiplyHalves(<<d1, d2, d3, d4>>, by)
         IN  /\ p \in SixHalves
             /\ SixValue(p) = ((d4 * Half + d3) * Word + (d2 * Half + d1)) * by
<1> USE WordSize
<1> DEFINE none == <<0, 0, 0, 0, 0, 0>>
           first == AddRow(none, 1, d1, by)
           second == AddRow(first, 2, d2, by)
           third == AddRow(second, 3, d3, by)
           p == AddRow(third, 4, d4, by)
<1>1. none \in SixHalves /\ SixValue(none) = 0 /\ \A k \in 1 .. 6 : none[k] = 0
  <2>1. none \in SixHalves BY DEF SixHalves
  <2>2. \A k \in 1 .. 6 : none[k] = 0 OBVIOUS
  <2>3. SixValue(none) = 0
    <3> HIDE DEF none
    <3>1. \A k \in 1 .. 6 : Power(k) \in Int /\ 0 * Power(k) = 0 BY Powers
    <3> QED BY <2>2, <3>1 DEF SixValue
  <2> QED BY <2>1, <2>2, <2>3
<1> HIDE DEF none
<1>2. /\ first \in SixHalves /\ \A k \in 4 .. 6 : first[k] = 0
      /\ SixValue(first) = d1 * by * Power(1)
  <2>1. none[1 + 2] = 0 BY <1>1
  <2>2. d1 * by * Power(1) \in Int BY Powers
  <2> QED BY <1>1, <2>1, <2>2, RowAdds
<1> HIDE DEF first
<1>3. /\ second \in SixHalves /\ \A k \in 5 .. 6 : second[k] = 0
      /\ SixValue(second) = d1 * by * Power(1) + d2 * by * Power(2)
  <2>1. first[2 + 2] = 0 BY <1>2
  <2> QED BY <1>2, <2>1, RowAdds
<1> HIDE DEF second
<1>4. /\ third \in SixHalves /\ third[6] = 0
      /\ SixValue(third) = d1 * by * Power(1) + d2 * by * Power(2) + d3 * by * Power(3)
  <2>1. second[3 + 2] = 0 BY <1>3
  <2> QED BY <1>3, <2>1, RowAdds
<1> HIDE DEF third
<1>5. /\ p \in SixHalves
      /\ SixValue(p) = d1 * by * Power(1) + d2 * by * Power(2) + d3 * by * Power(3)
                         + d4 * by * Power(4)
  <2>1. third[4 + 2] = 0 BY <1>4
  <2> QED BY <1>4, <2>1, RowAdds
<1>6. MultiplyHalves(<<d1, d2, d3, d4>>, by) = p
  BY DEF MultiplyHalves, first, second, third, none
<1> HIDE DEF p
<1>7. d1 * by * Power(1) + d2 * by * Power(2) + d3 * by * Power(3) + d4 * by * Power(4)
        = ((d4 * Half + d3) * Word + (d2 * Half + d1)) * by
  BY DEF Power
<1> QED BY <1>5, <1>6, <1>7

(* x stands for n, or for an overflow if n takes the bit of the sign.      *)
Exactly(n, x) ==
  IF Abs(n) < Top * Word THEN x \in Wides /\ ValueOf(x) = n ELSE x = Overflow128

(* Two halves stand for less than the least place they do not reach.       *)
LEMMA PairBelow ==
  ASSUME NEW place \in Nat, NEW high \in Int, NEW bound \in Int, NEW low \in 0 .. place - 1
  PROVE  /\ high <= bound - 1 => high * place + low < bound * place
         /\ high >= bound => high * place + low >= bound * place
         /\ high * place \in Int /\ bound * place \in Int
<1> DEFINE h == high * place  b == bound * place
<1>1. h \in Int /\ b \in Int OBVIOUS
<1>2. high <= bound - 1 => h <= b - place
  <2> SUFFICES ASSUME high <= bound - 1 PROVE h <= b - place OBVIOUS
  <2>1. place * high <= place * (bound - 1) BY ProductMonotonic
  <2>2. place * (bound - 1) = b - place /\ place * high = h OBVIOUS
  <2> QED BY <2>1, <2>2
<1>3. high >= bound => h >= b
  <2> SUFFICES ASSUME bound <= high PROVE b <= h OBVIOUS
  <2>1. place * bound <= place * high BY ProductMonotonic
  <2> QED BY <2>1
<1> HIDE DEF h, b
<1>4. (high <= bound - 1 => h + low < b) /\ (high >= bound => h + low >= b)
  BY <1>1, <1>2, <1>3
<1> QED BY <1>1, <1>4 DEF h, b

(* A pair of halves in any place. *)
LEMMA Spread ==
  ASSUME NEW x \in Int, NEW y \in Int, NEW place \in Int
  PROVE  (x + y * Half) * place = x * place + y * (place * Half)
<1>1. Half \in Int BY WordSize
<1> QED BY <1>1

(* What is read back of the six halves. *)
LEMMA FromHalvesIs ==
  ASSUME NEW p \in SixHalves, NEW negative \in BOOLEAN, NEW n \in Int,
         Abs(n) = SixValue(p), negative => n <= 0, ~negative => n >= 0
  PROVE  Exactly(n, FromHalves(p, negative))
<1> USE WordSize
<1> DEFINE low == p[1] + p[2] * Half
           high == p[3] + p[4] * Half
           rest == p[5] + p[6] * Half
           h == Half \div 2
<1>1. \A k \in 1 .. 6 : p[k] \in 0 .. Half - 1 BY DEF SixHalves
<1>2. low \in 0 .. Word - 1
  <2>1. p[2] * Half + p[1] < Half * Half /\ p[2] * Half \in Nat BY <1>1, PairBelow
  <2> QED BY <1>1, <2>1
<1>3. high \in 0 .. Word - 1 /\ (p[4] >= h => high >= Top) /\ (p[4] < h => high < Top)
  <2>1. p[4] * Half + p[3] < Half * Half /\ p[4] * Half \in Nat BY <1>1, PairBelow
  <2>2. h * Half = Top OBVIOUS
  <2>3. h \in Int OBVIOUS
  <2> HIDE DEF h
  <2>4. p[4] >= h => p[4] * Half + p[3] >= h * Half BY <1>1, <2>3, PairBelow
  <2>5. p[4] <= h - 1 => p[4] * Half + p[3] < h * Half BY <1>1, <2>3, PairBelow
  <2> QED BY <1>1, <2>1, <2>2, <2>3, <2>4, <2>5
<1>4. rest \in Nat /\ (rest = 0 <=> p[5] = 0 /\ p[6] = 0)
  <2> DEFINE t == p[6] * Half
  <2>1. t \in Nat /\ (t = 0 <=> p[6] = 0) BY <1>1
  <2>2. rest = p[5] + t OBVIOUS
  <2> HIDE DEF t, rest
  <2> QED BY <1>1, <2>1, <2>2
<1>5. SixValue(p) = (rest * Word + high) * Word + low
  <2>1. p[1] \in Int /\ p[2] \in Int /\ p[3] \in Int /\ p[4] \in Int /\ p[5] \in Int /\ p[6] \in Int
    BY <1>1
  <2>2. SixValue(p) = p[1] + p[2] * Half + p[3] * Word + p[4] * (Word * Half)
                        + p[5] * (Word * Word) + p[6] * (Word * Word * Half)
    BY DEF SixValue, Power
  <2>3. (rest * Word + high) * Word = rest * (Word * Word) + high * Word
    <3>1. rest \in Int /\ high \in Int BY <2>1
    <3> HIDE DEF rest, high
    <3> QED BY <3>1
  <2>4. Word * Word \in Int OBVIOUS
  <2>5. /\ rest * (Word * Word) = p[5] * (Word * Word) + p[6] * (Word * Word * Half)
        /\ high * Word = p[3] * Word + p[4] * (Word * Half)
    <3>1. ASSUME NEW place \in Int
          PROVE  /\ rest * place = p[5] * place + p[6] * (place * Half)
                 /\ high * place = p[3] * place + p[4] * (place * Half)
      <4> DEFINE x3 == p[3]  x4 == p[4]  x5 == p[5]  x6 == p[6]
      <4>1. x3 \in Int /\ x4 \in Int /\ x5 \in Int /\ x6 \in Int BY <2>1
      <4>2. rest = x5 + x6 * Half /\ high = x3 + x4 * Half OBVIOUS
      <4> HIDE DEF x3, x4, x5, x6, rest, high
      <4>3. (x5 + x6 * Half) * place = x5 * place + x6 * (place * Half) BY <3>1, <4>1, Spread
      <4>4. (x3 + x4 * Half) * place = x3 * place + x4 * (place * Half) BY <3>1, <4>1, Spread
      <4> QED BY <4>2, <4>3, <4>4 DEF x3, x4, x5, x6
    <3> HIDE DEF rest, high
    <3>2. rest * (Word * Word) = p[5] * (Word * Word) + p[6] * (Word * Word * Half)
      BY <2>4, <3>1
    <3>3. high * Word = p[3] * Word + p[4] * (Word * Half) BY <3>1
    <3> QED BY <3>2, <3>3
  <2> DEFINE x == p[3] * Word  y == p[4] * (Word * Half)
             z == p[5] * (Word * Word)  t == p[6] * (Word * Word * Half)  s == p[2] * Half
  <2>6. x \in Int /\ y \in Int /\ z \in Int /\ t \in Int /\ s \in Int BY <2>1
  <2>7. /\ SixValue(p) = p[1] + s + x + y + z + t
        /\ (rest * Word + high) * Word + low = (z + t) + (x + y) + (p[1] + s)
    BY <2>2, <2>3, <2>5
  <2> HIDE DEF x, y, z, t, s, rest, high, low
  <2> QED BY <2>1, <2>6, <2>7
<1>6. FromHalves(p, negative) = IF p[5] # 0 \/ p[6] # 0 \/ p[4] >= h THEN Overflow128
                                ELSE WithSign(negative, Int128(Signed(high), low))
  BY DEF FromHalves
<1> HIDE DEF low, high, rest, h
<1> DEFINE upper == rest * Word + high
<1>7. upper \in Nat /\ (rest = 0 => upper = high) /\ (rest # 0 => upper >= Top)
  <2>1. rest * Word \in Nat /\ (rest = 0 => rest * Word = 0) BY <1>4
  <2>2. rest # 0 => rest * Word >= Word
    <3> SUFFICES ASSUME rest # 0 PROVE rest * Word >= Word OBVIOUS
    <3>1. Word * 1 <= Word * rest BY <1>4, ProductMonotonic
    <3> QED BY <1>4, <3>1
  <2> QED BY <1>3, <2>1, <2>2
<1>8. SixValue(p) = upper * Word + low BY <1>5
<1> HIDE DEF upper
<1>9. /\ upper <= Top - 1 => upper * Word + low < Top * Word
      /\ upper >= Top => upper * Word + low >= Top * Word
      /\ upper * Word \in Int /\ Top * Word \in Int
  BY <1>2, <1>7, PairBelow
<1>10. CASE p[5] # 0 \/ p[6] # 0 \/ p[4] >= h
  <2>1. upper >= Top BY <1>3, <1>4, <1>7, <1>10
  <2>2. ~(Abs(n) < Top * Word) BY <1>2, <1>8, <1>9, <2>1
  <2> QED BY <1>6, <1>10, <2>2 DEF Exactly
<1>11. CASE p[5] = 0 /\ p[6] = 0 /\ p[4] < h
  <2> DEFINE x == Int128(high, low)
  <2>1. upper = high /\ high < Top BY <1>3, <1>4, <1>7, <1>11
  <2>2. high \in Words /\ high \in Int BY <1>3, <2>1 DEF Words
  <2>3. Signed(high) = high BY <2>2, SignedIs
  <2>4. x \in Wides /\ ValueOf(x) = Abs(n) /\ x.high = high
    <3>1. x \in Wides /\ x.high = high BY <1>2, <2>2 DEF Wides, Int128
    <3>2. ValueOf(x) = high * Word + low BY <1>2, <2>2, WideIs
    <3> QED BY <1>8, <2>1, <3>1, <3>2
  <2>5. FromHalves(p, negative) = WithSign(negative, x)
    <3>1. h \in Int /\ p[4] \in Int /\ ~(p[4] >= h)
      <4>1. h \in Int BY DEF h
      <4> QED BY <1>1, <1>11, <4>1
    <3> QED BY <1>6, <1>11, <2>3, <3>1
  <2>6. Abs(n) < Top * Word BY <1>2, <1>7, <1>8, <1>9, <2>1
  <2>7. CASE negative
    <3>1. Abs(n) = -n BY <2>7 DEF Abs
    <3>2. x.high # MinWord BY <1>3, <2>4
    <3>3. Negate(x) \in Wides /\ ValueOf(Negate(x)) = -ValueOf(x) BY <2>4, <3>2, NegateIs
    <3>4. FromHalves(p, negative) = Negate(x) BY <2>5, <2>7 DEF WithSign
    <3>5. ValueOf(Negate(x)) = n
      <4> HIDE DEF x
      <4>1. ValueOf(Negate(x)) = -(-n) BY <2>4, <3>1, <3>3
      <4> QED BY <4>1
    <3> QED BY <2>6, <3>3, <3>4, <3>5 DEF Exactly
  <2>8. CASE ~negative
    <3>1. Abs(n) = n BY <2>8 DEF Abs
    <3>2. FromHalves(p, negative) = x BY <2>5, <2>8 DEF WithSign
    <3> QED BY <2>4, <2>6, <3>1, <3>2 DEF Exactly
  <2> QED BY <2>7, <2>8
<1>12. h \in Int /\ p[4] \in Int BY <1>1 DEF h
<1> QED BY <1>10, <1>11, <1>12

(* The magnitude of a wide number, read without a sign: that of the least  *)
(* number too, which Negate leaves as it is.                               *)
LEMMA WideMagnitude ==
  ASSUME NEW a \in Wides
  PROVE  LET m == WithSign(a.high < 0, a)
         IN  /\ Unsigned(m.high) \in 0 .. Word - 1 /\ m.low \in 0 .. Word - 1
             /\ Unsigned(m.high) * Word + m.low = Abs(ValueOf(a))
             /\ a.high < 0 <=> ValueOf(a) < 0
<1> USE WordSize
<1> DEFINE m == WithSign(a.high < 0, a)
<1>1. a.high \in Words /\ a.high \in Int /\ a.low \in 0 .. Word - 1 BY DEF Wides, Words
<1>2. ValueOf(a) = a.high * Word + a.low /\ a.high * Word \in Int BY <1>1 DEF ValueOf
<1>3. /\ a.high <= 0 - 1 => a.high * Word + a.low < 0 * Word
      /\ a.high >= 0 => a.high * Word + a.low >= 0 * Word
  BY <1>1, PairBelow
<1>4. a.high < 0 <=> ValueOf(a) < 0 BY <1>1, <1>2, <1>3
<1>5. ASSUME NEW x \in Wides, x.high >= 0, ValueOf(x) = Abs(ValueOf(a)), m = x
      PROVE  /\ Unsigned(m.high) \in 0 .. Word - 1 /\ m.low \in 0 .. Word - 1
             /\ Unsigned(m.high) * Word + m.low = Abs(ValueOf(a))
  <2>1. x.high \in Words /\ x.high \in Int /\ x.low \in 0 .. Word - 1 BY DEF Wides, Words
  <2>2. Unsigned(x.high) = x.high BY <1>5, <2>1, UnsignedTurns DEF Words
  <2> HIDE DEF m
  <2> QED BY <1>5, <2>1, <2>2 DEF ValueOf, Words
<1>6. CASE a.high >= 0
  <2>1. m = a BY <1>1, <1>6 DEF WithSign
  <2>2. ValueOf(a) = Abs(ValueOf(a)) BY <1>1, <1>2, <1>4, <1>6 DEF Abs
  <2> HIDE DEF m
  <2> QED BY <1>4, <1>5, <1>6, <2>1, <2>2 DEF m
<1>7. CASE a.high < 0 /\ ~(a.high = MinWord /\ a.low = 0)
  <2>1. m = Negate(a) BY <1>7 DEF WithSign
  <2>2. Negate(a) \in Wides /\ ValueOf(Negate(a)) = -ValueOf(a) BY <1>7, NegateIs
  <2>3. ValueOf(Negate(a)) = Abs(ValueOf(a)) /\ ValueOf(Negate(a)) > 0
    BY <1>1, <1>2, <1>4, <1>7, <2>2 DEF Abs
  <2>4. Negate(a).high >= 0
    <3> DEFINE x == Negate(a)
    <3>1. x.high \in Int /\ x.low \in 0 .. Word - 1 /\ ValueOf(x) = x.high * Word + x.low
      BY <2>2 DEF Wides, Words, ValueOf
    <3> HIDE DEF x
    <3>2. x.high <= 0 - 1 => x.high * Word + x.low < 0 * Word BY <3>1, PairBelow
    <3> QED BY <2>3, <3>1, <3>2 DEF x
  <2> HIDE DEF m
  <2> QED BY <1>4, <1>5, <2>1, <2>2, <2>3, <2>4 DEF m
<1>8. CASE a.high = MinWord /\ a.low = 0
  <2>1. m = a BY <1>8, NegateIs DEF WithSign
  <2>2. Unsigned(a.high) = Top BY <1>1, <1>8, UnsignedTurns
  <2>3. ValueOf(a) = MinWord * Word /\ MinWord * Word = -(Top * Word) /\ Top * Word \in Nat
    BY <1>2, <1>8
  <2>4. Abs(ValueOf(a)) = Top * Word BY <1>1, <1>4, <1>8, <2>3 DEF Abs
  <2> HIDE DEF m
  <2> QED BY <1>1, <1>4, <1>8, <2>1, <2>2, <2>3, <2>4 DEF m
<1> QED BY <1>1, <1>6, <1>7, <1>8

(* A wide number times a word is exact, or Overflow128 when the magnitude  *)
(* of the product takes more than the bits below the sign: 2^127 itself,   *)
(* which a negative number could hold, is refused with the rest.           *)
THEOREM CheckedMul128IsExact ==
  ASSUME NEW a \in Wides, NEW b \in Words
  PROVE  Exactly(ValueOf(a) * b, CheckedMul128By64(a, b))
<1> USE WordSize
<1> DEFINE v == ValueOf(a)
           m == WithSign(a.high < 0, a)
           u == Unsigned(m.high)
           p == MultiplyHalves(HalvesOf(m), Magnitude(b))
           negative == (a.high < 0) # (b < 0)
<1>1. v \in Int /\ b \in Int /\ a.high \in Words BY DEF Wides, Words, ValueOf
<1>2. ~Overflowed128(a) /\ b # Overflow BY <1>1 DEF Overflowed128, Overflow, Words
<1>3. Magnitude(b) = Abs(b) /\ Abs(b) \in 0 .. Top BY MagnitudeIs
<1>4. /\ u \in 0 .. Word - 1 /\ m.low \in 0 .. Word - 1
      /\ u * Word + m.low = Abs(v)
      /\ a.high < 0 <=> v < 0
  BY WideMagnitude
<1>5. CASE a = Zero128 \/ b = 0
  <2>1. v * b = 0
    <3>1. a = Zero128 => v = 0 BY DEF Zero128, Int128, ValueOf
    <3> QED BY <1>1, <1>5, <3>1
  <2>2. CheckedMul128By64(a, b) = Zero128 BY <1>2, <1>5 DEF CheckedMul128By64
  <2>3. Zero128 \in Wides /\ ValueOf(Zero128) = 0 BY DEF Zero128, Int128, Wides, Words, ValueOf
  <2>4. Abs(0) = 0 /\ 0 < Top * Word BY DEF Abs
  <2> QED BY <2>1, <2>2, <2>3, <2>4 DEF Exactly
<1>6. CASE ~(a = Zero128 \/ b = 0)
  <2> DEFINE d1 == Low(m.low)  d2 == High(m.low)  d3 == Low(u)  d4 == High(u)
  <2>1. CheckedMul128By64(a, b) = FromHalves(p, negative)
    BY <1>2, <1>6 DEF CheckedMul128By64
  <2>2. /\ d1 \in 0 .. Half - 1 /\ d2 \in 0 .. Half - 1 /\ m.low = Half * d2 + d1
        /\ d3 \in 0 .. Half - 1 /\ d4 \in 0 .. Half - 1 /\ u = Half * d4 + d3
    <3> HIDE DEF u, m
    <3>1. m.low \in Nat /\ m.low < Half * Half /\ u \in Nat /\ u < Half * Half /\ Half \in Int
      BY <1>4
    <3>2. High(m.low) \in 0 .. Half - 1 /\ High(u) \in 0 .. Half - 1 BY <3>1, HighBelow
    <3>3. Low(m.low) \in 0 .. Half - 1 /\ m.low = Half * High(m.low) + Low(m.low)
      <4> DEFINE l == m.low
      <4>1. l \in Int BY <3>1
      <4> HIDE DEF l
      <4>2. Low(l) \in 0 .. Half - 1 /\ l = Half * High(l) + Low(l) BY <4>1, HalvesAre
      <4> QED BY <4>2 DEF l
    <3>4. Low(u) \in 0 .. Half - 1 /\ u = Half * High(u) + Low(u)
      <4>1. u \in Int BY <3>1
      <4> QED BY <4>1, HalvesAre
    <3> QED BY <3>2, <3>3, <3>4
  <2>3. p = MultiplyHalves(<<d1, d2, d3, d4>>, Abs(b)) BY <1>3 DEF HalvesOf
  <2> HIDE DEF p, u, m, d1, d2, d3, d4, v
  <2>4. p \in SixHalves /\ SixValue(p) = ((d4 * Half + d3) * Word + (d2 * Half + d1)) * Abs(b)
    BY <1>3, <2>2, <2>3, MultiplyHalvesIs
  <2>5. SixValue(p) = Abs(v) * Abs(b)
    <3>1. d4 * Half + d3 = u /\ d2 * Half + d1 = m.low BY <2>2
    <3> QED BY <1>4, <2>4, <3>1
  <2>6. Abs(v * b) = Abs(v) * Abs(b) /\ v * b \in Int BY <1>1 DEF Abs
  <2>7. (negative => v * b <= 0) /\ (~negative => v * b >= 0) BY <1>1, <1>4
  <2>8. Exactly(v * b, FromHalves(p, negative))
    BY <2>4, <2>5, <2>6, <2>7, FromHalvesIs
  <2> QED BY <2>1, <2>8 DEF v
<1> QED BY <1>5, <1>6

-----------------------------------------------------------------------------
(* Functions defined by recursion, and iterations over sets.               *)

(* A set of numbers that is not empty has a least one.                     *)
LEMMA LeastOf ==
  ASSUME NEW T \in SUBSET Nat, T # {}
  PROVE  \E n \in T : \A m \in T : n <= m
<1>1. PICK n \in T : \A m \in T : ~(<<m, n>> \in OpToRel(<, Nat))
  BY WFMin, NatLessThanWellFounded
<1>2. \A m \in T : ~(m < n) BY <1>1 DEF OpToRel
<1> QED BY <1>2

(* What is zero's and passes from a number to the next is every number's.  *)
LEMMA Climb ==
  ASSUME NEW S \in SUBSET Nat, 0 \in S, \A n \in S : n + 1 \in S
  PROVE  S = Nat
<1> SUFFICES ASSUME NEW m \in Nat, m \notin S PROVE FALSE OBVIOUS
<1> DEFINE T == Nat \ S
<1>1. PICK n \in T : \A k \in T : n <= k BY LeastOf
<1>2. n # 0 /\ n - 1 \in Nat BY <1>1
<1>3. n - 1 \in S BY <1>1, <1>2
<1> QED BY <1>1, <1>2, <1>3

(* G computes the value at a place from the values of lower rank.          *)
Guarded(D, V, bound, rank, G) ==
  /\ bound \in Nat /\ rank \in [D -> 0 .. bound] /\ G \in [D -> [[D -> V] -> V]]
  /\ \A x \in D : \A f, g \in [D -> V] :
       (\A y \in D : rank[y] < rank[x] => f[y] = g[y]) => G[x][f] = G[x][g]

(* A definition by recursion on a rank defines a function.                 *)
LEMMA Recursion ==
  ASSUME NEW D, NEW V, NEW v \in V, NEW bound, NEW rank, NEW G, Guarded(D, V, bound, rank, G)
  PROVE  \E f \in [D -> V] : \A x \in D : f[x] = G[x][f]
<1> USE DEF Guarded
<1> DEFINE S == {n \in Nat : \E f \in [D -> V] : \A x \in D : rank[x] < n => f[x] = G[x][f]}
<1>1. 0 \in S
  <2>1. [x \in D |-> v] \in [D -> V] OBVIOUS
  <2>2. \A x \in D : ~(rank[x] < 0) OBVIOUS
  <2> QED BY <2>1, <2>2
<1>2. ASSUME NEW n \in S PROVE n + 1 \in S
  <2>1. PICK f \in [D -> V] : \A x \in D : rank[x] < n => f[x] = G[x][f] OBVIOUS
  <2> DEFINE g == [x \in D |-> IF rank[x] < n THEN f[x] ELSE G[x][f]]
  <2>2. g \in [D -> V] OBVIOUS
  <2>3. \A y \in D : rank[y] < n => g[y] = f[y] OBVIOUS
  <2>4. ASSUME NEW x \in D, rank[x] < n + 1 PROVE g[x] = G[x][g]
    <3>1. rank[x] \in Nat /\ rank[x] <= n BY <2>4
    <3>2. \A y \in D : rank[y] < rank[x] => f[y] = g[y]
      <4>1. \A y \in D : rank[y] \in Nat OBVIOUS
      <4> QED BY <3>1, <2>3, <4>1
    <3> HIDE DEF g
    <3>3. G[x][f] = G[x][g] BY <3>2, <2>2
    <3>4. g[x] = G[x][f] BY <2>1, <3>1 DEF g
    <3> QED BY <3>3, <3>4
  <2> HIDE DEF g
  <2>5. n + 1 \in Nat OBVIOUS
  <2> QED BY <2>2, <2>4, <2>5
<1>3. S \in SUBSET Nat OBVIOUS
<1> HIDE DEF S
<1>4. S = Nat BY <1>1, <1>2, <1>3, Climb
<1>5. bound + 1 \in S BY <1>4
<1>6. PICK f \in [D -> V] : \A x \in D : rank[x] < bound + 1 => f[x] = G[x][f] BY <1>5 DEF S
<1>7. \A x \in D : rank[x] < bound + 1 OBVIOUS
<1> QED BY <1>6, <1>7

(* A finite set has fewer elements without one of them.                    *)
LEMMA Without ==
  ASSUME NEW S, IsFiniteSet(S), NEW x \in S
  PROVE  /\ IsFiniteSet(S \ {x}) /\ Cardinality(S) \in Nat /\ Cardinality(S \ {x}) \in Nat
         /\ Cardinality(S) = Cardinality(S \ {x}) + 1
<1>1. Cardinality(S) \in Nat BY FS_CardinalityType
<1>2. IsFiniteSet(S \ {x}) /\ Cardinality(S \ {x}) = Cardinality(S) - 1 BY FS_RemoveElement
<1>3. Cardinality(S \ {x}) \in Nat BY <1>2, FS_CardinalityType
<1> QED BY <1>1, <1>2, <1>3

(* A measure of the subsets of S gains f for each element.                 *)
Gains(m, S, f) ==
  /\ m \in [SUBSET S -> Int] /\ m[{}] = 0
  /\ \A T \in SUBSET S : \A x \in S \ T : m[T \cup {x}] = m[T] + f[x]

(* Set measures that gain the same for each element are the same.          *)
LEMMA SameMeasure ==
  ASSUME NEW S, IsFiniteSet(S), NEW f \in [S -> Int], NEW m, NEW k, Gains(m, S, f), Gains(k, S, f)
  PROVE  m[S] = k[S]
<1> USE DEF Gains
<1> DEFINE Same(n) == \A T \in SUBSET S : IsFiniteSet(T) /\ Cardinality(T) = n => m[T] = k[T]
           N == {n \in Nat : Same(n)}
<1>1. 0 \in N
  <2>1. \A T \in SUBSET S : IsFiniteSet(T) /\ Cardinality(T) = 0 => T = {} BY FS_EmptySet
  <2> QED BY <2>1
<1>2. ASSUME NEW n \in N PROVE n + 1 \in N
  <2> SUFFICES ASSUME NEW T \in SUBSET S, IsFiniteSet(T), Cardinality(T) = n + 1
               PROVE  m[T] = k[T]
    OBVIOUS
  <2>1. T # {} BY FS_EmptySet
  <2>2. PICK x \in T : TRUE BY <2>1
  <2> DEFINE U == T \ {x}
  <2>3. /\ IsFiniteSet(U) /\ Cardinality(U) = n /\ U \in SUBSET S /\ x \in S \ U
        /\ U \cup {x} = T
    <3>1. IsFiniteSet(U) /\ Cardinality(U) \in Nat /\ Cardinality(T) = Cardinality(U) + 1
      BY Without
    <3>2. Cardinality(U) = n BY <3>1
    <3> QED BY <3>1, <3>2
  <2>4. m[U] = k[U] BY <2>3
  <2> HIDE DEF U
  <2>5. m[U \cup {x}] = m[U] + f[x] /\ k[U \cup {x}] = k[U] + f[x] BY <2>3
  <2> QED BY <2>3, <2>4, <2>5
<1>3. N = Nat
  <2> HIDE DEF Same
  <2> QED BY <1>1, <1>2, Climb
<1>4. Cardinality(S) \in N BY <1>3, FS_CardinalityType
<1> QED BY <1>4

(* From base, a step for each element that pick takes next.                *)
Stepwise(S, V, base, pick, step) ==
  /\ base \in V /\ step \in [S \X V -> V]
  /\ \A s \in SUBSET S : s # {} => pick[s] \in s

(* What they come to, for each subset.                                     *)
Comes(m, S, V, base, pick, step) ==
  /\ m \in [SUBSET S -> V]
  /\ \A s \in SUBSET S : m[s] = IF s = {} THEN base ELSE step[<<pick[s], m[s \ {pick[s]}]>>]

(* Taking the elements of a finite set out of it one by one, by any choice *)
(* of the next one, computes a function of the subsets.                    *)
LEMMA Iteration ==
  ASSUME NEW S, IsFiniteSet(S), NEW V, NEW base, NEW pick, NEW step,
         Stepwise(S, V, base, pick, step)
  PROVE  \E m : Comes(m, S, V, base, pick, step)
<1> USE DEF Stepwise
<1> DEFINE D == SUBSET S
           rank == [s \in D |-> Cardinality(s)]
           G == [s \in D |-> [g \in [D -> V] |->
                   IF s = {} THEN base ELSE step[<<pick[s], g[s \ {pick[s]}]>>]]]
           bound == Cardinality(S)
<1>1. \A s \in D : IsFiniteSet(s) /\ Cardinality(s) \in Nat /\ Cardinality(s) <= bound
  BY FS_Subset, FS_CardinalityType
<1>2. bound \in Nat /\ rank \in [D -> 0 .. bound]
  <2>1. bound \in Nat BY FS_CardinalityType
  <2> QED BY <1>1, <2>1
<1>3. \A s \in D : s # {} => /\ pick[s] \in s /\ s \ {pick[s]} \in D
                             /\ Cardinality(s) = Cardinality(s \ {pick[s]}) + 1
  BY <1>1, Without
<1>4. G \in [D -> [[D -> V] -> V]]
  <2>1. ASSUME NEW s \in D, NEW g \in [D -> V] PROVE G[s][g] \in V
    <3>1. CASE s = {} BY <3>1
    <3>2. CASE s # {}
      <4>1. pick[s] \in S /\ g[s \ {pick[s]}] \in V BY <3>2, <1>3
      <4> QED BY <3>2, <4>1
    <3> QED BY <3>1, <3>2
  <2> QED BY <2>1
<1>5. ASSUME NEW s \in D, NEW g \in [D -> V], NEW h \in [D -> V],
             \A y \in D : rank[y] < rank[s] => g[y] = h[y]
      PROVE  G[s][g] = G[s][h]
  <2>1. CASE s = {} BY <2>1
  <2>2. CASE s # {}
    <3> DEFINE t == s \ {pick[s]}
    <3>1. t \in D /\ rank[t] < rank[s] BY <2>2, <1>3, <1>1
    <3>2. g[t] = h[t] BY <3>1, <1>5
    <3> QED BY <2>2, <3>2
  <2> QED BY <2>1, <2>2
<1>6. \E g \in [D -> V] : \A s \in D : g[s] = G[s][g]
  <2>1. \A s \in D : \A g, h \in [D -> V] :
          (\A y \in D : rank[y] < rank[s] => g[y] = h[y]) => G[s][g] = G[s][h]
    BY <1>5
  <2> HIDE DEF D, rank, G, bound
  <2>2. Guarded(D, V, bound, rank, G) BY <1>2, <1>4, <2>1 DEF Guarded
  <2> QED BY <2>2, Recursion
<1>7. PICK g \in [D -> V] : \A s \in D : g[s] = G[s][g] BY <1>6
<1>8. Comes(g, S, V, base, pick, step) BY <1>7 DEF Comes
<1> QED BY <1>8

(* The numbers of a sequence have a greatest one wherever there are any.   *)
LEMMA MaxIs ==
  ASSUME NEW n \in Nat, NEW s \in SUBSET (1 .. n), s # {}
  PROVE  Max(s) \in s /\ \A x \in s : x <= Max(s)
<1> DEFINE T == {d \in Nat : \E x \in s : d = n - x}
<1>1. T \in SUBSET Nat /\ T # {}
  <2>1. PICK x \in s : TRUE OBVIOUS
  <2>2. n - x \in Nat BY <2>1
  <2> QED BY <2>2
<1>2. PICK d \in T : \A e \in T : d <= e
  <2> HIDE DEF T
  <2> QED BY <1>1, LeastOf
<1>3. PICK m \in s : d = n - m OBVIOUS
<1>4. ASSUME NEW x \in s PROVE m >= x
  <2>1. n - x \in T /\ x \in 1 .. n /\ m \in 1 .. n OBVIOUS
  <2>2. d <= n - x BY <1>2, <2>1
  <2> QED BY <1>3, <2>1, <2>2
<1>5. \E y \in s : \A x \in s : y >= x BY <1>4
<1>6. Max(s) \in s /\ \A x \in s : Max(s) >= x BY <1>5 DEF Max
<1> QED BY <1>6

(* From one prefix of a sequence to the next. *)
LEMMA MaxPrefix ==
  ASSUME NEW i \in Nat \ {0}
  PROVE  Max(1 .. i) = i /\ (1 .. i) \ {i} = 1 .. i - 1 /\ 1 .. i # {}
<1>1. i \in 1 .. i OBVIOUS
<1>2. Max(1 .. i) \in 1 .. i /\ \A x \in 1 .. i : x <= Max(1 .. i) BY <1>1, MaxIs
<1>3. (1 .. i) \ {i} = 1 .. i - 1 OBVIOUS
<1> QED BY <1>1, <1>2, <1>3

-----------------------------------------------------------------------------
(* What the steps of EnforceAll and of Sliced give.                        *)

(* A union of classes gives classes.                                       *)
LEMMA EnforceType ==
  ASSUME NEW N \in Nat, NEW graph, NEW cls \in [1 .. N -> 1 .. N],
         NEW p, LeftOf(graph, p) \in 1 .. N, RightOf(graph, p) \in 1 .. N
  PROVE  Enforce(graph, cls, p) \in [1 .. N -> 1 .. N]
BY DEF Enforce

(* The edges join attributes of the query. *)
JoinsAttributes(graph, edges, N) ==
  \A i \in DOMAIN edges : LeftOf(graph, edges[i]) \in 1 .. N /\ RightOf(graph, edges[i]) \in 1 .. N

(* h[i] is what i edges make of the classes. *)
Unites(h, N, graph, classes, edges) ==
  /\ h \in [0 .. Len(edges) -> [1 .. N -> 1 .. N]]
  /\ h[0] = classes
  /\ \A i \in 1 .. Len(edges) : h[i] = Enforce(graph, h[i - 1], edges[i])
  /\ EnforceAll(graph, classes, edges) = h[Len(edges)]

(* EnforceAll unites one edge after the other.                             *)
LEMMA EnforceSteps ==
  ASSUME NEW N \in Nat, NEW graph, NEW classes \in [1 .. N -> 1 .. N], NEW E, NEW edges \in Seq(E),
         JoinsAttributes(graph, edges, N)
  PROVE  \E h : Unites(h, N, graph, classes, edges)
<1> USE DEF JoinsAttributes
<1> DEFINE n == Len(edges)
           S == 1 .. n
           V == [1 .. N -> 1 .. N]
           pick == [s \in SUBSET S |-> Max(s)]
           step == [z \in S \X V |-> Enforce(graph, z[2], edges[z[1]])]
           Iter(g) == [s \in SUBSET S |->
                         IF s = {} THEN classes
                         ELSE Enforce(graph, g[s \ {Max(s)}], edges[Max(s)])]
<1>1. n \in Nat /\ DOMAIN edges = S /\ IsFiniteSet(S) BY FS_Interval
<1>2. \A s \in SUBSET S : s # {} => pick[s] \in s BY <1>1, MaxIs
<1>3. step \in [S \X V -> V]
  <2>1. \A z \in S \X V : Enforce(graph, z[2], edges[z[1]]) \in V
    <3> SUFFICES ASSUME NEW j \in S, NEW c \in V PROVE Enforce(graph, c, edges[j]) \in V
      OBVIOUS
    <3>1. LeftOf(graph, edges[j]) \in 1 .. N /\ RightOf(graph, edges[j]) \in 1 .. N BY <1>1
    <3> QED BY <3>1, EnforceType
  <2> QED BY <2>1
<1>4. \E m : Comes(m, S, V, classes, pick, step)
  <2>1. classes \in V OBVIOUS
  <2> HIDE DEF S, V, pick, step
  <2>2. Stepwise(S, V, classes, pick, step) BY <2>1, <1>2, <1>3 DEF Stepwise
  <2> QED BY <2>2, <1>1, Iteration
<1>5. PICK m : Comes(m, S, V, classes, pick, step) BY <1>4
<1>6. m = Iter(m)
  <2>1. ASSUME NEW s \in SUBSET S, s # {}
        PROVE  m[s] = Enforce(graph, m[s \ {Max(s)}], edges[Max(s)])
    <3>1. pick[s] = Max(s) /\ Max(s) \in S BY <2>1, <1>2
    <3>2. m[s \ {Max(s)}] \in V BY <1>5 DEF Comes
    <3>3. <<Max(s), m[s \ {Max(s)}]>> \in S \X V BY <3>1, <3>2
    <3>4. m[s] = step[<<Max(s), m[s \ {Max(s)}]>>] BY <1>5, <2>1, <3>1 DEF Comes
    <3> QED BY <3>3, <3>4
  <2>2. m \in [SUBSET S -> V] /\ m[{}] = classes BY <1>5 DEF Comes
  <2>3. \A s \in SUBSET S : m[s] = Iter(m)[s] BY <2>1, <2>2
  <2> QED BY <2>2, <2>3
<1> DEFINE k == CHOOSE g : g = Iter(g)
<1>7. EnforceAll(graph, classes, edges) = k[S]
  <2>1. DOMAIN edges = S BY <1>1
  <2> QED BY <2>1 DEF EnforceAll, FoldLeft, MapThenFoldSet
<1>8. k = Iter(k) BY <1>6
<1> HIDE DEF k
<1>9. \A s \in SUBSET S :
        k[s] = IF s = {} THEN classes ELSE Enforce(graph, k[s \ {Max(s)}], edges[Max(s)])
  BY <1>8
<1> HIDE DEF Iter
<1> DEFINE h == [i \in 0 .. n |-> k[1 .. i]]
<1>10. h[0] = classes
  <2>1. 1 .. 0 = {} /\ {} \in SUBSET S /\ 0 \in 0 .. n BY <1>1
  <2>2. k[{}] = classes BY <2>1, <1>9
  <2> QED BY <2>1, <2>2
<1>11. ASSUME NEW i \in 1 .. n PROVE h[i] = Enforce(graph, h[i - 1], edges[i])
  <2>1. i - 1 \in 0 .. n /\ i \in 0 .. n /\ 1 .. i \in SUBSET S /\ i \in Nat \ {0} BY <1>1
  <2>2. Max(1 .. i) = i /\ (1 .. i) \ {i} = 1 .. i - 1 /\ 1 .. i # {} BY <2>1, MaxPrefix
  <2>3. k[1 .. i] = Enforce(graph, k[1 .. i - 1], edges[i]) BY <2>1, <2>2, <1>9
  <2> QED BY <2>1, <2>3
<1>12. h \in [0 .. n -> V]
  <2> DEFINE P == {i \in Nat : i <= n => h[i] \in V}
  <2>1. 0 \in P BY <1>10
  <2>2. ASSUME NEW i \in P PROVE i + 1 \in P
    <3> HIDE DEF h
    <3>0. i + 1 \in Nat OBVIOUS
    <3> SUFFICES ASSUME i + 1 <= n PROVE h[i + 1] \in V BY <3>0
    <3>1. i + 1 \in 1 .. n /\ (i + 1) - 1 = i /\ i <= n BY <1>1
    <3>2. h[i] \in V BY <3>1
    <3>3. h[i + 1] = Enforce(graph, h[i], edges[i + 1])
      <4> HIDE DEF h
      <4> QED BY <3>1, <1>11
    <3>4. LeftOf(graph, edges[i + 1]) \in 1 .. N /\ RightOf(graph, edges[i + 1]) \in 1 .. N
      BY <3>1, <1>1
    <3> HIDE DEF h
    <3>5. Enforce(graph, h[i], edges[i + 1]) \in V BY <3>2, <3>4, EnforceType
    <3> QED BY <3>3, <3>5
  <2>3. P \in SUBSET Nat OBVIOUS
  <2> HIDE DEF P
  <2>4. P = Nat BY <2>1, <2>2, <2>3, Climb
  <2>5. \A i \in 0 .. n : h[i] \in V
    <3> SUFFICES ASSUME NEW i \in 0 .. n PROVE h[i] \in V OBVIOUS
    <3> HIDE DEF h
    <3>1. i \in P /\ i <= n BY <2>4, <1>1
    <3> QED BY <3>1 DEF P
  <2> QED BY <2>5
<1>13. EnforceAll(graph, classes, edges) = h[n] BY <1>1, <1>7
<1> HIDE DEF h
<1>14. Unites(h, N, graph, classes, edges) BY <1>10, <1>11, <1>12, <1>13 DEF Unites
<1> QED BY <1>14

(* A slice takes the rows that fall into it, one after the other.          *)
LEMMA SlicedSteps ==
  ASSUME NEW R, NEW rows \in Seq(R), NEW column, NEW hash, NEW slice, NEW slices
  PROVE  \E h \in [0 .. Len(rows) -> Seq(R)] :
           /\ h[0] = <<>>
           /\ \A i \in 1 .. Len(rows) :
                h[i] = IF hash[rows[i][column]] % slices = slice
                       THEN Append(h[i - 1], rows[i]) ELSE h[i - 1]
           /\ Sliced(rows, column, hash, slice, slices) = h[Len(rows)]
<1> DEFINE n == Len(rows)
           S == 1 .. n
           V == Seq(R)
           Take(held, row) == IF hash[row[column]] % slices = slice THEN Append(held, row) ELSE held
           pick == [s \in SUBSET S |-> Max(s)]
           step == [z \in S \X V |-> Take(z[2], rows[z[1]])]
           Iter(g) == [s \in SUBSET S |->
                         IF s = {} THEN <<>> ELSE Take(g[s \ {Max(s)}], rows[Max(s)])]
<1>1. n \in Nat /\ DOMAIN rows = S /\ IsFiniteSet(S) BY FS_Interval
<1>2. \A s \in SUBSET S : s # {} => pick[s] \in s BY <1>1, MaxIs
<1>3. step \in [S \X V -> V]
  <2>1. ASSUME NEW j \in S, NEW c \in V PROVE Take(c, rows[j]) \in V
    <3>1. rows[j] \in R BY <1>1
    <3>2. Append(c, rows[j]) \in V BY <3>1
    <3> QED BY <3>2
  <2> HIDE DEF Take, V, S
  <2> QED BY <2>1
<1>4. \E m : Comes(m, S, V, <<>>, pick, step)
  <2>1. <<>> \in V OBVIOUS
  <2> HIDE DEF S, V, pick, step
  <2>2. Stepwise(S, V, <<>>, pick, step) BY <2>1, <1>2, <1>3 DEF Stepwise
  <2> QED BY <2>2, <1>1, Iteration
<1>5. PICK m : Comes(m, S, V, <<>>, pick, step) BY <1>4
<1>6. m = Iter(m)
  <2> HIDE DEF Take
  <2>1. ASSUME NEW s \in SUBSET S, s # {}
        PROVE  m[s] = Take(m[s \ {Max(s)}], rows[Max(s)])
    <3>1. pick[s] = Max(s) /\ Max(s) \in S BY <2>1, <1>2
    <3>2. m[s \ {Max(s)}] \in V BY <1>5 DEF Comes
    <3>3. <<Max(s), m[s \ {Max(s)}]>> \in S \X V BY <3>1, <3>2
    <3>4. m[s] = step[<<Max(s), m[s \ {Max(s)}]>>] BY <1>5, <2>1, <3>1 DEF Comes
    <3> QED BY <3>3, <3>4
  <2>2. m \in [SUBSET S -> V] /\ m[{}] = <<>> BY <1>5 DEF Comes
  <2>3. \A s \in SUBSET S : m[s] = Iter(m)[s] BY <2>1, <2>2
  <2> QED BY <2>2, <2>3
<1> DEFINE k == CHOOSE g : g = Iter(g)
<1>7. Sliced(rows, column, hash, slice, slices) = k[S]
  <2>1. DOMAIN rows = S BY <1>1
  <2> QED BY <2>1 DEF Sliced, FoldLeft, MapThenFoldSet
<1>8. k = Iter(k) BY <1>6
<1> HIDE DEF k
<1>9. \A s \in SUBSET S : k[s] = IF s = {} THEN <<>> ELSE Take(k[s \ {Max(s)}], rows[Max(s)])
  <2> HIDE DEF Take
  <2> QED BY <1>8
<1> HIDE DEF Iter
<1> DEFINE h == [i \in 0 .. n |-> k[1 .. i]]
<1>10. h[0] = <<>>
  <2>1. 1 .. 0 = {} /\ {} \in SUBSET S /\ 0 \in 0 .. n BY <1>1
  <2>2. k[{}] = <<>> BY <2>1, <1>9
  <2> QED BY <2>1, <2>2
<1>11. ASSUME NEW i \in 1 .. n PROVE h[i] = Take(h[i - 1], rows[i])
  <2> HIDE DEF Take
  <2>1. i - 1 \in 0 .. n /\ i \in 0 .. n /\ 1 .. i \in SUBSET S /\ i \in Nat \ {0} BY <1>1
  <2>2. Max(1 .. i) = i /\ (1 .. i) \ {i} = 1 .. i - 1 /\ 1 .. i # {} BY <2>1, MaxPrefix
  <2>3. k[1 .. i] = Take(k[1 .. i - 1], rows[i]) BY <2>1, <2>2, <1>9
  <2> QED BY <2>1, <2>3
<1>12. h \in [0 .. n -> V]
  <2> DEFINE P == {i \in Nat : i <= n => h[i] \in V}
  <2>1. 0 \in P BY <1>10, SMTT(20)
  <2>2. ASSUME NEW i \in P PROVE i + 1 \in P
    <3> HIDE DEF h
    <3>0. i + 1 \in Nat OBVIOUS
    <3> SUFFICES ASSUME i + 1 <= n PROVE h[i + 1] \in V BY <3>0
    <3>1. i + 1 \in 1 .. n /\ (i + 1) - 1 = i /\ i <= n BY <1>1
    <3>2. h[i] \in V BY <3>1
    <3> HIDE DEF Take
    <3>3. h[i + 1] = Take(h[i], rows[i + 1]) BY <3>1, <1>11
    <3>4. rows[i + 1] \in R BY <3>1, <1>1
    <3>5. Append(h[i], rows[i + 1]) \in V BY <3>2, <3>4
    <3> QED BY <3>2, <3>3, <3>5 DEF Take
  <2>3. P \in SUBSET Nat OBVIOUS
  <2> HIDE DEF P
  <2>4. P = Nat BY <2>1, <2>2, <2>3, Climb
  <2>5. \A i \in 0 .. n : h[i] \in V
    <3> SUFFICES ASSUME NEW i \in 0 .. n PROVE h[i] \in V OBVIOUS
    <3> HIDE DEF h
    <3>1. i \in P /\ i <= n BY <2>4, <1>1
    <3> QED BY <3>1 DEF P
  <2> QED BY <2>5
<1>13. Sliced(rows, column, hash, slice, slices) = h[n] BY <1>1, <1>7
<1> HIDE DEF h
<1> QED BY <1>10, <1>11, <1>12, <1>13

(* The rows that fall into a slice. *)
Falls(rows, column, hash, slice, slices) ==
  {i \in DOMAIN rows : hash[rows[i][column]] % slices = slice}

(* g says where each row of held was among the rows in K. *)
Placed(g, held, rows, K) ==
  /\ g \in [1 .. Len(held) -> K]
  /\ \A i, j \in 1 .. Len(held) : g[i] = g[j] => i = j
  /\ \A x \in K : \E j \in 1 .. Len(held) : g[j] = x
  /\ \A j \in 1 .. Len(held) : held[j] = rows[g[j]]

(* A slice holds each row that falls into it once. *)
LEMMA SlicedIs ==
  ASSUME NEW R, NEW rows \in Seq(R), NEW column, NEW hash, NEW slice, NEW slices
  PROVE  /\ Sliced(rows, column, hash, slice, slices) \in Seq(R)
         /\ \E g : Placed(g, Sliced(rows, column, hash, slice, slices), rows,
                          Falls(rows, column, hash, slice, slices))
<1> DEFINE n == Len(rows)
           Fits(i) == hash[rows[i][column]] % slices = slice
<1>1. PICK h \in [0 .. n -> Seq(R)] :
        /\ h[0] = <<>>
        /\ \A i \in 1 .. n : h[i] = IF Fits(i) THEN Append(h[i - 1], rows[i]) ELSE h[i - 1]
        /\ Sliced(rows, column, hash, slice, slices) = h[n]
  BY SlicedSteps, SMTT(20)
<1> HIDE DEF Fits
<1> DEFINE K(i) == {j \in 1 .. i : Fits(j)}
           P == {i \in Nat : i <= n => \E g : Placed(g, h[i], rows, K(i))}
<1>2. n \in Nat /\ DOMAIN rows = 1 .. n OBVIOUS
<1>3. 0 \in P
  <2>1. Placed(<<>>, h[0], rows, K(0)) BY <1>1 DEF Placed
  <2> QED BY <2>1
<1>4. ASSUME NEW i \in P PROVE i + 1 \in P
  <2>0. i \in Nat /\ i + 1 \in Nat OBVIOUS
  <2> SUFFICES ASSUME i + 1 <= n PROVE \E g : Placed(g, h[i + 1], rows, K(i + 1)) BY <2>0
  <2>1. i + 1 \in 1 .. n /\ (i + 1) - 1 = i /\ i \in 0 .. n /\ i <= n BY <1>2, <2>0
  <2>2. PICK g : Placed(g, h[i], rows, K(i)) BY <2>1
  <2>3. h[i] \in Seq(R) /\ rows[i + 1] \in R /\ Len(h[i]) \in Nat BY <2>1, <1>2
  <2>4. h[i + 1] = IF Fits(i + 1) THEN Append(h[i], rows[i + 1]) ELSE h[i] BY <1>1, <2>1
  <2>5. CASE ~Fits(i + 1)
    <3>1. K(i + 1) = K(i) BY <2>0, <2>5
    <3> QED BY <2>2, <2>4, <2>5, <3>1
  <2>6. CASE Fits(i + 1)
    <3> DEFINE l == Len(h[i])
               f == [j \in 1 .. l + 1 |-> IF j = l + 1 THEN i + 1 ELSE g[j]]
    <3>1. K(i + 1) = K(i) \cup {i + 1} /\ i + 1 \notin K(i) BY <2>0, <2>6
    <3>2. /\ Len(h[i + 1]) = l + 1 /\ h[i + 1][l + 1] = rows[i + 1]
          /\ \A j \in 1 .. l : h[i + 1][j] = h[i][j]
      BY <2>3, <2>4, <2>6
    <3> HIDE DEF K
    <3>3. /\ g \in [1 .. l -> K(i)]
          /\ \A x, y \in 1 .. l : g[x] = g[y] => x = y
          /\ \A x \in K(i) : \E j \in 1 .. l : g[j] = x
          /\ \A j \in 1 .. l : h[i][j] = rows[g[j]]
      BY <2>2 DEF Placed
    <3>4. \A j \in 1 .. l + 1 : j = l + 1 \/ j \in 1 .. l BY <2>3, SMTT(20)
    <3>5. 1 .. l \subseteq 1 .. l + 1 /\ l + 1 \in 1 .. l + 1 /\ l + 1 \notin 1 .. l BY <2>3
    <3> DEFINE A == 1 .. l + 1
               B == 1 .. l
               e == l + 1
    <3>6. \A j \in B : f[j] = g[j] BY <3>5
    <3>7. f[l + 1] = i + 1 BY <3>5
    <3> HIDE DEF f, l
    <3>8. f \in [A -> K(i + 1)]
      <4>1. \A j \in A : f[j] \in K(i + 1) BY <3>1, <3>3, <3>4, <3>6, <3>7
      <4>2. DOMAIN f = A /\ f = [j \in A |-> f[j]] BY DEF f
      <4> QED BY <4>1, <4>2
    <3>9. \A x, y \in A : f[x] = f[y] => x = y
      <4> SUFFICES ASSUME NEW x \in A, NEW y \in A, f[x] = f[y] PROVE x = y OBVIOUS
      <4>1. CASE x \in B /\ y \in B BY <4>1, <3>3, <3>6
      <4>2. CASE x = e /\ y \in B
        <5>1. g[y] \in K(i) BY <4>2, <3>3
        <5> QED BY <5>1, <4>2, <3>1, <3>6, <3>7
      <4>3. CASE y = e /\ x \in B
        <5>1. g[x] \in K(i) BY <4>3, <3>3
        <5> QED BY <5>1, <4>3, <3>1, <3>6, <3>7
      <4> QED BY <4>1, <4>2, <4>3, <3>4
    <3>10. \A x \in K(i + 1) : \E j \in A : f[j] = x
      <4> SUFFICES ASSUME NEW x \in K(i + 1) PROVE \E j \in A : f[j] = x OBVIOUS
      <4>1. CASE x = i + 1 BY <4>1, <3>7, <3>5
      <4>2. CASE x \in K(i)
        <5>1. PICK j \in B : g[j] = x BY <4>2, <3>3
        <5> QED BY <5>1, <3>5, <3>6
      <4> QED BY <4>1, <4>2, <3>1
    <3>11. \A j \in A : h[i + 1][j] = rows[f[j]]
      <4> SUFFICES ASSUME NEW j \in A PROVE h[i + 1][j] = rows[f[j]] OBVIOUS
      <4>1. CASE j = e BY <4>1, <3>2, <3>7
      <4>2. CASE j \in B BY <4>2, <3>2, <3>3, <3>6
      <4> QED BY <4>1, <4>2, <3>4
    <3>12. 1 .. Len(h[i + 1]) = A BY <3>2
    <3> HIDE DEF A
    <3>13. Placed(f, h[i + 1], rows, K(i + 1)) BY <3>8, <3>9, <3>10, <3>11, <3>12 DEF Placed
    <3> QED BY <3>13
  <2> QED BY <2>5, <2>6
<1>5. P \in SUBSET Nat OBVIOUS
<1> HIDE DEF P
<1>6. P = Nat BY <1>3, <1>4, <1>5, Climb
<1>7. \E g : Placed(g, h[n], rows, K(n))
  <2>1. n \in P /\ n <= n BY <1>6, <1>2
  <2> QED BY <2>1 DEF P
<1>8. K(n) = Falls(rows, column, hash, slice, slices) BY <1>2 DEF Falls, Fits
<1>9. h[n] \in Seq(R) BY <1>2
<1> QED BY <1>1, <1>7, <1>8, <1>9

-----------------------------------------------------------------------------
(* Sums over sets.                                                         *)

(* k adds up f over each subset of S, an element chosen at a time. *)
Chosen(s) == CHOOSE x \in s : TRUE
AddsUp(k, S, f) ==
  /\ k \in [SUBSET S -> Int]
  /\ \A s \in SUBSET S : k[s] = IF s = {} THEN 0 ELSE f[Chosen(s)] + k[s \ {Chosen(s)}]

(* There is one for every f. *)
LEMMA AddsUpExists ==
  ASSUME NEW S, IsFiniteSet(S), NEW f \in [S -> Int]
  PROVE  \E k : AddsUp(k, S, f)
<1> DEFINE pick == [s \in SUBSET S |-> Chosen(s)]
           step == [z \in S \X Int |-> f[z[1]] + z[2]]
<1>1. \A s \in SUBSET S : s # {} => Chosen(s) \in s BY DEF Chosen
<1>2. Stepwise(S, Int, 0, pick, step)
  <2>1. \A z \in S \X Int : f[z[1]] + z[2] \in Int OBVIOUS
  <2>2. step \in [S \X Int -> Int] BY <2>1
  <2> HIDE DEF step
  <2> QED BY <2>2, <1>1 DEF Stepwise
<1>3. PICK k : Comes(k, S, Int, 0, pick, step)
  <2> HIDE DEF pick, step
  <2> QED BY <1>2, Iteration
<1>4. k \in [SUBSET S -> Int] /\ k[{}] = 0 BY <1>3 DEF Comes
<1>5. ASSUME NEW s \in SUBSET S, s # {} PROVE k[s] = f[Chosen(s)] + k[s \ {Chosen(s)}]
  <2>1. pick[s] = Chosen(s) /\ Chosen(s) \in S BY <1>1, <1>5
  <2>2. k[s \ {Chosen(s)}] \in Int BY <1>4
  <2>3. <<Chosen(s), k[s \ {Chosen(s)}]>> \in S \X Int BY <2>1, <2>2
  <2>4. k[s] = step[<<Chosen(s), k[s \ {Chosen(s)}]>>] BY <1>3, <1>5, <2>1 DEF Comes
  <2> QED BY <2>3, <2>4
<1>6. AddsUp(k, S, f) BY <1>4, <1>5 DEF AddsUp
<1> QED BY <1>6

(* The order in which elements are chosen does not matter. *)
LEMMA AddsUpGains ==
  ASSUME NEW S, IsFiniteSet(S), NEW f \in [S -> Int], NEW m, AddsUp(m, S, f)
  PROVE  Gains(m, S, f)
<1> DEFINE D == SUBSET S
           Whichever(n) == \A s \in D : Cardinality(s) = n => \A x \in s : m[s] = m[s \ {x}] + f[x]
           N == {n \in Nat : Whichever(n)}
<1>0. m \in [D -> Int] BY DEF AddsUp
<1>1. \A s \in D : IsFiniteSet(s) /\ Cardinality(s) \in Nat BY FS_Subset, FS_CardinalityType
<1>8. \A s \in D : m[s] = IF s = {} THEN 0 ELSE f[Chosen(s)] + m[s \ {Chosen(s)}] BY DEF AddsUp
<1>15. 0 \in N
  <2>1. \A s \in D : Cardinality(s) = 0 => s = {} BY <1>1, FS_EmptySet
  <2> QED BY <2>1
<1>16. ASSUME NEW n \in N PROVE n + 1 \in N
  <2> SUFFICES ASSUME NEW s \in D, Cardinality(s) = n + 1, NEW x \in s
               PROVE  m[s] = m[s \ {x}] + f[x]
    OBVIOUS
  <2> DEFINE c == Chosen(s)
  <2>1. s # {} OBVIOUS
  <2>2. c \in s BY <2>1 DEF Chosen
  <2> HIDE DEF c
  <2>3. m[s] = f[c] + m[s \ {c}] BY <1>8, <2>1 DEF c
  <2>4. CASE c = x
    <3>1. s \ {x} \in D OBVIOUS
    <3>2. m[s \ {x}] \in Int /\ f[x] \in Int BY <3>1, <1>0
    <3> QED BY <2>3, <2>4, <3>2
  <2>5. CASE c # x
    <3> DEFINE r == (s \ {c}) \ {x}
    <3>1. /\ s \ {c} \in D /\ s \ {x} \in D /\ r \in D /\ r = (s \ {x}) \ {c}
          /\ x \in s \ {c} /\ c \in s \ {x}
      BY <2>2, <2>5
    <3>2. Cardinality(s \ {c}) = n /\ Cardinality(s \ {x}) = n
      <4>1. IsFiniteSet(s) BY <1>1
      <4>2. /\ Cardinality(s \ {c}) \in Nat /\ Cardinality(s) = Cardinality(s \ {c}) + 1
        BY <2>2, <4>1, Without
      <4>3. /\ Cardinality(s \ {x}) \in Nat /\ Cardinality(s) = Cardinality(s \ {x}) + 1
        BY <4>1, Without
      <4> QED BY <4>2, <4>3
    <3>3. m[s \ {c}] = m[r] + f[x] BY <3>1, <3>2
    <3>4. m[s \ {x}] = m[r] + f[c]
      <4> DEFINE t == s \ {x}
      <4>1. t \in D /\ Cardinality(t) = n /\ c \in t /\ r = t \ {c} BY <3>1, <3>2
      <4> HIDE DEF t
      <4>2. m[t] = m[t \ {c}] + f[c] BY <4>1
      <4> QED BY <4>1, <4>2 DEF t
    <3>5. m[r] \in Int /\ f[c] \in Int /\ f[x] \in Int BY <3>1, <2>2, <1>0
    <3> HIDE DEF r
    <3> QED BY <2>3, <3>3, <3>4, <3>5
  <2> QED BY <2>4, <2>5
<1>17. N = Nat
  <2> HIDE DEF Whichever
  <2> QED BY <1>15, <1>16, Climb
<1>18. ASSUME NEW T \in SUBSET S, NEW x \in S \ T PROVE m[T \cup {x}] = m[T] + f[x]
  <2>1. T \cup {x} \in D /\ (T \cup {x}) \ {x} = T /\ x \in T \cup {x} OBVIOUS
  <2>2. Cardinality(T \cup {x}) \in N BY <2>1, <1>1, <1>17
  <2> QED BY <2>1, <2>2
<1>19. m[{}] = 0 BY <1>8
<1> QED BY <1>0, <1>18, <1>19 DEF Gains

(* What MapThenSumSet takes its sum from. *)
Iterates(k, S, f) ==
  k = [s \in SUBSET S |-> IF s = {} THEN 0 ELSE f[Chosen(s)] + k[s \ {Chosen(s)}]]

(* Whatever adds up f over S comes to what any measure of its gains does.  *)
LEMMA AddsUpTo ==
  ASSUME NEW S, IsFiniteSet(S), NEW f \in [S -> Int], NEW k, Iterates(k, S, f),
         NEW m, Gains(m, S, f)
  PROVE  k[S] = m[S]
<1> DEFINE D == SUBSET S
<1>1. \A s \in D : IsFiniteSet(s) /\ Cardinality(s) \in Nat BY FS_Subset, FS_CardinalityType
<1>2. PICK a : AddsUp(a, S, f) BY AddsUpExists
<1>3. Gains(a, S, f) BY <1>2, AddsUpGains
<1>4. a[S] = m[S] BY <1>3, SameMeasure
<1>5. \A s \in D : k[s] = IF s = {} THEN 0 ELSE f[Chosen(s)] + k[s \ {Chosen(s)}]
  BY DEF Iterates
<1>6. \A s \in D : a[s] = IF s = {} THEN 0 ELSE f[Chosen(s)] + a[s \ {Chosen(s)}]
  BY <1>2 DEF AddsUp
<1>7. \A s \in D : k[s] = a[s]
  <2> DEFINE N == {n \in Nat : \A s \in D : Cardinality(s) = n => k[s] = a[s]}
  <2>1. 0 \in N
    <3>1. \A s \in D : Cardinality(s) = 0 => s = {} BY <1>1, FS_EmptySet
    <3> QED BY <3>1, <1>5, <1>6
  <2>2. ASSUME NEW n \in N PROVE n + 1 \in N
    <3> SUFFICES ASSUME NEW s \in D, Cardinality(s) = n + 1 PROVE k[s] = a[s] OBVIOUS
    <3>1. s # {} BY FS_EmptySet
    <3>2. s \ {Chosen(s)} \in D /\ Cardinality(s \ {Chosen(s)}) = n
      <4>1. Chosen(s) \in s BY <3>1 DEF Chosen
      <4>2. s \ {Chosen(s)} \in D /\ Cardinality(s) = Cardinality(s \ {Chosen(s)}) + 1
        BY <4>1, <1>1, Without
      <4>3. Cardinality(s \ {Chosen(s)}) \in Nat BY <4>2, <1>1
      <4> QED BY <4>2, <4>3
    <3>3. k[s \ {Chosen(s)}] = a[s \ {Chosen(s)}] BY <3>2
    <3> QED BY <3>1, <3>3, <1>5, <1>6
  <2>3. N \in SUBSET Nat OBVIOUS
  <2> HIDE DEF N
  <2>4. N = Nat BY <2>1, <2>2, <2>3, Climb
  <2> QED BY <2>4, <1>1 DEF N
<1> QED BY <1>4, <1>7

-----------------------------------------------------------------------------
(* The attributes and classes of a query.                                  *)

(* A query the engine can be asked: predicates name columns there are. *)
IsGraph(graph, T) ==
  /\ graph.types \in Seq(Seq(T))
  /\ graph.predicates \in Seq([left : Relations(graph), lcol : Nat, right : Relations(graph), rcol : Nat])
  /\ \A i \in DOMAIN graph.predicates :
       LET p == graph.predicates[i]
       IN  p.lcol \in Columns(graph, p.left) /\ p.rcol \in Columns(graph, p.right)

(* Attributes are numbered from one relation to the next. *)
LEMMA BaseIs ==
  ASSUME NEW T, NEW graph, IsGraph(graph, T)
  PROVE  \E b \in [1 .. Len(graph.types) + 1 -> Nat] :
           /\ \A r \in 1 .. Len(graph.types) + 1 : AttributeBase(graph, r) = b[r]
           /\ b[1] = 0
           /\ \A r \in Relations(graph) : b[r + 1] = b[r] + Len(graph.types[r])
<1> DEFINE n == Len(graph.types)
           S == 1 .. n
           f == [r \in S |-> Len(graph.types[r])]
<1>1. n \in Nat /\ Relations(graph) = S /\ IsFiniteSet(S) BY FS_Interval DEF IsGraph, Relations
<1>2. \A r \in S : Len(graph.types[r]) \in Nat BY DEF IsGraph
<1>3. f \in [S -> Int] /\ \A r \in S : f[r] \in Nat /\ f[r] = Len(graph.types[r]) BY <1>2
<1> HIDE DEF f
<1>4. PICK m : AddsUp(m, S, f) BY <1>1, <1>3, AddsUpExists
<1>5. Gains(m, S, f) BY <1>1, <1>3, <1>4, AddsUpGains
<1> DEFINE b == [r \in 1 .. n + 1 |-> m[1 .. r - 1]]
<1>6. b[1] = 0
  <2>1. 1 \in 1 .. n + 1 /\ 1 .. 1 - 1 = {} BY <1>1
  <2>2. m[{}] = 0 BY <1>5 DEF Gains
  <2> QED BY <2>1, <2>2
<1>7. ASSUME NEW r \in S PROVE b[r + 1] = b[r] + Len(graph.types[r])
  <2>1. /\ r \in 1 .. n + 1 /\ r + 1 \in 1 .. n + 1 /\ (r + 1) - 1 = r
        /\ 1 .. r - 1 \in SUBSET S /\ r \in S \ (1 .. r - 1) /\ (1 .. r - 1) \cup {r} = 1 .. r
    BY <1>1
  <2>2. m[(1 .. r - 1) \cup {r}] = m[1 .. r - 1] + f[r] BY <2>1, <1>5 DEF Gains
  <2> QED BY <2>1, <2>2, <1>3
<1>8. b \in [1 .. n + 1 -> Nat]
  <2> DEFINE P == {i \in Nat : i + 1 <= n + 1 => b[i + 1] \in Nat}
  <2> HIDE DEF b
  <2>1. 0 \in P BY <1>6
  <2>2. ASSUME NEW i \in P PROVE i + 1 \in P
    <3>0. i + 1 \in Nat /\ (i + 1) + 1 \in Nat OBVIOUS
    <3> SUFFICES ASSUME (i + 1) + 1 <= n + 1 PROVE b[(i + 1) + 1] \in Nat BY <3>0
    <3>1. i + 1 \in S /\ i + 1 <= n + 1 BY <1>1
    <3>2. b[i + 1] \in Nat BY <3>1
    <3> QED BY <3>1, <3>2, <1>2, <1>7, SMTT(20)
  <2>3. P \in SUBSET Nat OBVIOUS
  <2> HIDE DEF P
  <2>4. P = Nat BY <2>1, <2>2, <2>3, Climb
  <2>5. \A r \in 1 .. n + 1 : b[r] \in Nat
    <3> SUFFICES ASSUME NEW r \in 1 .. n + 1 PROVE b[r] \in Nat OBVIOUS
    <3>1. r - 1 \in P /\ (r - 1) + 1 = r /\ r <= n + 1 BY <2>4, <1>1
    <3> QED BY <3>1 DEF P
  <2> QED BY <2>5 DEF b
<1>9. ASSUME NEW r \in 1 .. n + 1 PROVE AttributeBase(graph, r) = b[r]
  <2> DEFINE R == 1 .. r - 1
             g == [x \in R |-> f[x]]
             Iter(h) == [s \in SUBSET R |->
                           IF s = {} THEN 0 ELSE Len(graph.types[Chosen(s)]) + h[s \ {Chosen(s)}]]
             mr == [s \in SUBSET R |-> m[s]]
  <2>1. R \in SUBSET S /\ IsFiniteSet(R)
    <3>1. R \in SUBSET S /\ r - 1 \in Int /\ 1 \in Int BY <1>1
    <3>2. IsFiniteSet(1 .. r - 1) BY <3>1, FS_Interval
    <3> QED BY <3>1, <3>2
  <2>2. g \in [R -> Int] BY <2>1, <1>3
  <2>3. ASSUME NEW s \in SUBSET R, s # {} PROVE g[Chosen(s)] = Len(graph.types[Chosen(s)])
    <3>1. Chosen(s) \in R BY <2>3 DEF Chosen
    <3> HIDE DEF R
    <3> QED BY <3>1, <2>1, <1>3
  <2> HIDE DEF R
  <2>4. PICK a : AddsUp(a, R, g)
    <3> HIDE DEF g
    <3> QED BY <2>1, <2>2, AddsUpExists
  <2>5. a = Iter(a)
    <3>1. a \in [SUBSET R -> Int] BY <2>4 DEF AddsUp
    <3>2. \A s \in SUBSET R : a[s] = IF s = {} THEN 0 ELSE g[Chosen(s)] + a[s \ {Chosen(s)}]
      BY <2>4 DEF AddsUp
    <3>3. \A s \in SUBSET R : a[s] = Iter(a)[s]
      <4> HIDE DEF g
      <4> QED BY <3>2, <2>3
    <3> QED BY <3>1, <3>3
  <2> DEFINE k == CHOOSE h : h = Iter(h)
  <2>6. AttributeBase(graph, r) = k[R]
    BY DEF AttributeBase, MapThenSumSet, MapThenFoldSet, Chosen, R
  <2>7. k = Iter(k) BY <2>5
  <2> HIDE DEF k
  <2>8. Iterates(k, R, g)
    <3> HIDE DEF g
    <3>1. \A s \in SUBSET R : k[s] = IF s = {} THEN 0 ELSE g[Chosen(s)] + k[s \ {Chosen(s)}]
      BY <2>7, <2>3
    <3>2. k = [s \in SUBSET R |-> k[s]] BY <2>7
    <3> HIDE DEF Iter
    <3> QED BY <3>1, <3>2 DEF Iterates
  <2>9. Gains(mr, R, g)
    <3>1. m \in [SUBSET S -> Int] /\ m[{}] = 0 BY <1>5 DEF Gains
    <3>2. \A Q \in SUBSET S : \A x \in S \ Q : m[Q \cup {x}] = m[Q] + f[x] BY <1>5 DEF Gains
    <3>3. SUBSET R \subseteq SUBSET S BY <2>1
    <3>4. mr \in [SUBSET R -> Int] /\ mr[{}] = 0 BY <3>1, <3>3
    <3>5. ASSUME NEW Q \in SUBSET R, NEW x \in R \ Q PROVE mr[Q \cup {x}] = mr[Q] + g[x]
      <4>1. Q \cup {x} \in SUBSET R /\ Q \in SUBSET S /\ x \in S \ Q BY <2>1
      <4>2. m[Q \cup {x}] = m[Q] + f[x] BY <4>1, <3>2
      <4> QED BY <4>1, <4>2
    <3> HIDE DEF mr, g
    <3> QED BY <3>4, <3>5 DEF Gains
  <2>10. k[R] = mr[R]
    <3> HIDE DEF g, mr, Iter
    <3> QED BY <2>1, <2>2, <2>8, <2>9, AddsUpTo
  <2>11. mr[R] = m[R] OBVIOUS
  <2> QED BY <2>6, <2>10, <2>11 DEF R
<1> HIDE DEF b
<1> QED BY <1>1, <1>6, <1>7, <1>8, <1>9

(* No two columns are known by one attribute. *)
LEMMA AttributesApart ==
  ASSUME NEW T, NEW graph, IsGraph(graph, T)
  PROVE  /\ TotalAttributes(graph) \in Nat
         /\ \A r \in Relations(graph) : \A c \in Columns(graph, r) :
              AttributeOf(graph, r, c) \in 1 .. TotalAttributes(graph)
         /\ \A r, s \in Relations(graph) : \A c \in Columns(graph, r), d \in Columns(graph, s) :
              AttributeOf(graph, r, c) = AttributeOf(graph, s, d) => r = s /\ c = d
<1> DEFINE n == Len(graph.types)
           S == 1 .. n
<1>1. n \in Nat /\ Relations(graph) = S BY DEF IsGraph, Relations
<1>2. \A r \in S : Len(graph.types[r]) \in Nat /\ Columns(graph, r) = 1 .. Len(graph.types[r])
  BY DEF IsGraph, Columns
<1>3. PICK b \in [1 .. n + 1 -> Nat] :
        /\ \A r \in 1 .. n + 1 : AttributeBase(graph, r) = b[r]
        /\ b[1] = 0
        /\ \A r \in Relations(graph) : b[r + 1] = b[r] + Len(graph.types[r])
  BY BaseIs
<1> DEFINE w(r) == Len(graph.types[r])
           P == {i \in Nat : \A r \in S : r + 1 + i <= n + 1 => b[r] + w(r) <= b[r + 1 + i]}
<1>4. 0 \in P
  <2>1. \A r \in S : b[r] + w(r) <= b[r + 1 + 0]
    <3> SUFFICES ASSUME NEW r \in S PROVE b[r] + w(r) <= b[r + 1 + 0] OBVIOUS
    <3>1. r + 1 + 0 = r + 1 /\ r + 1 \in 1 .. n + 1 /\ r \in 1 .. n + 1 BY <1>1
    <3>2. b[r + 1] = b[r] + w(r) /\ b[r + 1] \in Nat BY <3>1, <1>1, <1>3
    <3> QED BY <3>1, <3>2
  <2> QED BY <2>1
<1>5. ASSUME NEW i \in P PROVE i + 1 \in P
  <2>0. i \in Nat /\ i + 1 \in Nat OBVIOUS
  <2> SUFFICES ASSUME NEW r \in S, r + 1 + (i + 1) <= n + 1
               PROVE  b[r] + w(r) <= b[r + 1 + (i + 1)]
    BY <2>0
  <2> DEFINE s == r + 1 + i
  <2>1. s \in S /\ s <= n + 1 /\ r + 1 + (i + 1) = s + 1 /\ s \in 1 .. n + 1 /\ s + 1 \in 1 .. n + 1
        /\ r \in 1 .. n + 1
    BY <1>1, <2>0
  <2>2. b[r] + w(r) <= b[s] BY <2>1
  <2> HIDE DEF s
  <2>3. b[s + 1] = b[s] + w(s) BY <2>1, <1>1, <1>3
  <2>4. w(s) \in Nat /\ w(r) \in Nat /\ b[s] \in Nat /\ b[r] \in Nat /\ b[s + 1] \in Nat
    BY <2>1, <1>2
  <2>5. b[r + 1 + (i + 1)] = b[s + 1] BY <2>1
  <2> QED BY <2>2, <2>3, <2>4, <2>5, SMTT(20)
<1>6. P \in SUBSET Nat OBVIOUS
<1> HIDE DEF P
<1>7. P = Nat BY <1>4, <1>5, <1>6, Climb
<1>8. ASSUME NEW r \in S, NEW s \in 1 .. n + 1, r < s PROVE b[r] + w(r) <= b[s]
  <2>1. s - r - 1 \in P /\ r + 1 + (s - r - 1) = s BY <1>7, <1>1, <1>8
  <2>2. \A x \in S : x + 1 + (s - r - 1) <= n + 1 => b[x] + w(x) <= b[x + 1 + (s - r - 1)]
    BY <2>1 DEF P
  <2>3. r + 1 + (s - r - 1) <= n + 1 BY <2>1, <1>1
  <2> QED BY <2>1, <2>2, <2>3
<1>9. TotalAttributes(graph) = b[n + 1] /\ b[n + 1] \in Nat
  <2>1. n + 1 \in 1 .. n + 1 BY <1>1
  <2> QED BY <2>1, <1>3 DEF TotalAttributes
<1>10. ASSUME NEW r \in S, NEW c \in Columns(graph, r)
       PROVE  AttributeOf(graph, r, c) = b[r] + c /\ b[r] \in Nat /\ c \in 1 .. w(r) /\ w(r) \in Nat
  <2>1. r \in 1 .. n + 1 BY <1>1
  <2> QED BY <2>1, <1>2, <1>3 DEF AttributeOf
<1>11. ASSUME NEW r \in S, NEW c \in Columns(graph, r)
       PROVE  AttributeOf(graph, r, c) \in 1 .. TotalAttributes(graph)
  <2>1. n + 1 \in 1 .. n + 1 /\ r < n + 1 BY <1>1
  <2>2. b[r] + w(r) <= b[n + 1] BY <2>1, <1>8
  <2> QED BY <2>2, <1>9, <1>10
<1>12. ASSUME NEW r \in S, NEW s \in S, NEW c \in Columns(graph, r), NEW d \in Columns(graph, s),
              AttributeOf(graph, r, c) = AttributeOf(graph, s, d)
       PROVE  r = s /\ c = d
  <2>1. /\ b[r] + c = b[s] + d /\ b[r] \in Nat /\ b[s] \in Nat
        /\ c \in 1 .. w(r) /\ d \in 1 .. w(s) /\ w(r) \in Nat /\ w(s) \in Nat
    BY <1>10, <1>12
  <2>2. r \in 1 .. n + 1 /\ s \in 1 .. n + 1 /\ r \in Int /\ s \in Int BY <1>1
  <2>3. ~(r < s)
    <3>1. r < s => b[r] + w(r) <= b[s] BY <2>2, <1>8
    <3> QED BY <3>1, <2>1, SMTT(20)
  <2>4. ~(s < r)
    <3>1. s < r => b[s] + w(s) <= b[r] BY <2>2, <1>8
    <3> QED BY <3>1, <2>1, SMTT(20)
  <2>5. r = s BY <2>2, <2>3, <2>4
  <2> QED BY <2>1, <2>5
<1> QED BY <1>1, <1>9, <1>11, <1>12

(* The predicates name attributes. *)
LEMMA PredicateAttributes ==
  ASSUME NEW T, NEW graph, IsGraph(graph, T), NEW i \in DOMAIN graph.predicates
  PROVE  LET p == graph.predicates[i]
         IN  /\ p.left \in Relations(graph) /\ p.lcol \in Columns(graph, p.left)
             /\ p.right \in Relations(graph) /\ p.rcol \in Columns(graph, p.right)
             /\ LeftOf(graph, p) \in 1 .. TotalAttributes(graph)
             /\ RightOf(graph, p) \in 1 .. TotalAttributes(graph)
<1> DEFINE p == graph.predicates[i]
<1>1. p \in [left : Relations(graph), lcol : Nat, right : Relations(graph), rcol : Nat]
  <2> DEFINE Q == [left : Relations(graph), lcol : Nat, right : Relations(graph), rcol : Nat]
  <2>1. graph.predicates \in Seq(Q) BY DEF IsGraph
  <2> HIDE DEF Q
  <2>2. p \in Q BY <2>1
  <2> QED BY <2>2 DEF Q
<1>2. p.lcol \in Columns(graph, p.left) /\ p.rcol \in Columns(graph, p.right) BY DEF IsGraph
<1>3. p.left \in Relations(graph) /\ p.right \in Relations(graph) BY <1>1
<1> HIDE DEF p
<1>4. LeftOf(graph, p) \in 1 .. TotalAttributes(graph) /\ RightOf(graph, p) \in 1 .. TotalAttributes(graph)
  BY <1>2, <1>3, AttributesApart DEF LeftOf, RightOf
<1> QED BY <1>2, <1>3, <1>4 DEF p

(* Columns of one class hold one value in t. *)
Agree(graph, tables, t, cls) ==
  \A r, s \in Relations(graph) : \A c \in Columns(graph, r), d \in Columns(graph, s) :
     cls[AttributeOf(graph, r, c)] = cls[AttributeOf(graph, s, d)]
        => tables[r][t[r]][c] = tables[s][t[s]][d]

(* Every flat tuple has one value per class of the whole query. *)
LEMMA ClassesAgree ==
  ASSUME NEW T, NEW graph, IsGraph(graph, T), NEW tables, NEW t \in FlatJoin(graph, tables)
  PROVE  Agree(graph, tables, t, FullClasses(graph))
<1> DEFINE N == TotalAttributes(graph)
           E == graph.predicates
           n == Len(E)
           Value(r, c) == tables[r][t[r]][c]
<1>1. N \in Nat BY AttributesApart
<1>2. E \in Seq([left : Relations(graph), lcol : Nat, right : Relations(graph), rcol : Nat])
      /\ n \in Nat /\ DOMAIN E = 1 .. n
  BY DEF IsGraph
<1>3. NothingEnforced(graph) \in [1 .. N -> 1 .. N] BY DEF NothingEnforced
<1>4. JoinsAttributes(graph, E, N) BY PredicateAttributes DEF JoinsAttributes
<1>5. PICK h : Unites(h, N, graph, NothingEnforced(graph), E)
  <2> HIDE DEF N, E
  <2> QED BY <1>1, <1>2, <1>3, <1>4, EnforceSteps
<1>6. ASSUME NEW i \in 1 .. n PROVE Value(E[i].left, E[i].lcol) = Value(E[i].right, E[i].rcol)
  <2>1. E[i] \in ToSet(graph.predicates) BY <1>2 DEF ToSet
  <2> QED BY <2>1 DEF FlatJoin, FlatJoinOver
<1> DEFINE P == {i \in Nat : i <= n => Agree(graph, tables, t, h[i])}
<1>7. 0 \in P
  <2>1. Agree(graph, tables, t, NothingEnforced(graph))
    <3> SUFFICES ASSUME NEW r \in Relations(graph), NEW s \in Relations(graph),
                        NEW c \in Columns(graph, r), NEW d \in Columns(graph, s),
                        NothingEnforced(graph)[AttributeOf(graph, r, c)]
                          = NothingEnforced(graph)[AttributeOf(graph, s, d)]
                 PROVE  Value(r, c) = Value(s, d)
      BY DEF Agree
    <3>1. AttributeOf(graph, r, c) \in 1 .. N /\ AttributeOf(graph, s, d) \in 1 .. N
      BY AttributesApart
    <3>2. AttributeOf(graph, r, c) = AttributeOf(graph, s, d) BY <3>1 DEF NothingEnforced
    <3>3. r = s /\ c = d BY <3>2, AttributesApart
    <3> QED BY <3>3
  <2> QED BY <2>1, <1>5 DEF Unites
<1>8. ASSUME NEW i \in P PROVE i + 1 \in P
  <2>0. i \in Nat /\ i + 1 \in Nat OBVIOUS
  <2> SUFFICES ASSUME i + 1 <= n PROVE Agree(graph, tables, t, h[i + 1]) BY <2>0
  <2> DEFINE old == h[i]
             p == E[i + 1]
             new == h[i + 1]
             lt == LeftOf(graph, p)
             rt == RightOf(graph, p)
  <2>1. i + 1 \in 1 .. n /\ (i + 1) - 1 = i /\ i <= n /\ i \in 0 .. n BY <1>2, <2>0
  <2>2. Agree(graph, tables, t, old) BY <2>1
  <2>3. new = Enforce(graph, old, p) BY <2>1, <1>5 DEF Unites
  <2>4. old \in [1 .. N -> 1 .. N] BY <2>1, <1>5 DEF Unites
  <2>5. \A a \in 1 .. N : new[a] = IF old[a] = old[lt] THEN old[rt] ELSE old[a]
    <3> HIDE DEF old, new, N
    <3> QED BY <2>3, <2>4 DEF Enforce
  <2>6. /\ p.left \in Relations(graph) /\ p.lcol \in Columns(graph, p.left)
        /\ p.right \in Relations(graph) /\ p.rcol \in Columns(graph, p.right)
    BY <2>1, <1>2, PredicateAttributes
  <2>7. lt = AttributeOf(graph, p.left, p.lcol) /\ rt = AttributeOf(graph, p.right, p.rcol)
    BY DEF LeftOf, RightOf
  <2>8. Value(p.left, p.lcol) = Value(p.right, p.rcol) BY <2>1, <1>6
  <2> HIDE DEF old, new, p, lt, rt
  <2>9. ASSUME NEW r \in Relations(graph), NEW c \in Columns(graph, r),
               old[AttributeOf(graph, r, c)] = old[lt]
        PROVE  Value(r, c) = Value(p.left, p.lcol)
    BY <2>9, <2>2, <2>6, <2>7 DEF Agree
  <2>10. ASSUME NEW r \in Relations(graph), NEW c \in Columns(graph, r),
                old[AttributeOf(graph, r, c)] = old[rt]
         PROVE  Value(r, c) = Value(p.right, p.rcol)
    BY <2>10, <2>2, <2>6, <2>7 DEF Agree
  <2>11. ASSUME NEW r \in Relations(graph), NEW s \in Relations(graph),
                NEW c \in Columns(graph, r), NEW d \in Columns(graph, s),
                new[AttributeOf(graph, r, c)] = new[AttributeOf(graph, s, d)]
         PROVE  Value(r, c) = Value(s, d)
    <3> DEFINE a == AttributeOf(graph, r, c)
               e == AttributeOf(graph, s, d)
    <3>1. a \in 1 .. N /\ e \in 1 .. N BY AttributesApart
    <3>2. /\ new[a] = IF old[a] = old[lt] THEN old[rt] ELSE old[a]
          /\ new[e] = IF old[e] = old[lt] THEN old[rt] ELSE old[e]
      BY <3>1, <2>5
    <3>3. new[a] = new[e] BY <2>11
    <3>4. CASE old[a] = old[lt] /\ old[e] = old[lt] BY <3>4, <2>9
    <3>5. CASE old[a] = old[lt] /\ old[e] # old[lt]
      <4>1. old[e] = old[rt] BY <3>2, <3>3, <3>5
      <4> QED BY <4>1, <3>5, <2>8, <2>9, <2>10
    <3>6. CASE old[a] # old[lt] /\ old[e] = old[lt]
      <4>1. old[a] = old[rt] BY <3>2, <3>3, <3>6
      <4> QED BY <4>1, <3>6, <2>8, <2>9, <2>10
    <3>7. CASE old[a] # old[lt] /\ old[e] # old[lt]
      <4>1. old[a] = old[e] BY <3>2, <3>3, <3>7
      <4> QED BY <4>1, <2>2 DEF Agree
    <3> QED BY <3>4, <3>5, <3>6, <3>7
  <2>12. Agree(graph, tables, t, new) BY <2>11 DEF Agree
  <2> QED BY <2>12 DEF new
<1>9. P \in SUBSET Nat OBVIOUS
<1> HIDE DEF P
<1>10. P = Nat BY <1>7, <1>8, <1>9, Climb
<1>11. n \in P /\ n <= n BY <1>10, <1>2
<1>12. Agree(graph, tables, t, h[n]) BY <1>11 DEF P
<1> QED BY <1>5, <1>12 DEF FullClasses, Unites

-----------------------------------------------------------------------------
(* Slices.                                                                 *)

(* A set of numbers has its least one. *)
LEMMA MinIs ==
  ASSUME NEW s \in SUBSET Nat, s # {}
  PROVE  Min(s) \in s
<1>1. \E m \in s : \A n \in s : m <= n BY LeastOf
<1> QED BY <1>1 DEF Min

(* The contents of the relations of a query. *)
IsData(graph, tables, V) ==
  /\ DOMAIN tables = Relations(graph)
  /\ \A r \in Relations(graph) : tables[r] \in Seq([Columns(graph, r) -> V])

(* A relation is cut by a column of the class, or not at all. *)
LEMMA SliceColumnsAre ==
  ASSUME NEW T, NEW graph, IsGraph(graph, T), NEW root, NEW r \in Relations(graph),
         SliceColumns(graph, root)[r] # 0
  PROVE  /\ SliceColumns(graph, root)[r] \in Columns(graph, r)
         /\ FullClasses(graph)[AttributeOf(graph, r, SliceColumns(graph, root)[r])] = root
<1> DEFINE Carried == {c \in Columns(graph, r) : FullClasses(graph)[AttributeOf(graph, r, c)] = root}
<1>1. SliceColumns(graph, root)[r] = IF Carried = {} THEN 0 ELSE Min(Carried)
  BY DEF SliceColumns
<1>2. Carried # {} /\ SliceColumns(graph, root)[r] = Min(Carried) BY <1>1
<1>3. Columns(graph, r) \subseteq Nat BY DEF IsGraph, Columns, Relations
<1>4. Carried \in SUBSET Nat BY <1>3
<1> HIDE DEF Carried
<1>5. Min(Carried) \in Carried BY <1>2, <1>4, MinIs
<1> QED BY <1>2, <1>5 DEF Carried

(* A flat tuple is one row per relation, of which the predicates hold. *)
LEMMA FlatJoinIs ==
  ASSUME NEW T, NEW graph, IsGraph(graph, T), NEW V, NEW tables, IsData(graph, tables, V), NEW t
  PROVE  t \in FlatJoin(graph, tables) <=>
           /\ t = [r \in Relations(graph) |-> t[r]]
           /\ \A r \in Relations(graph) : t[r] \in DOMAIN tables[r]
           /\ \A p \in ToSet(graph.predicates) :
                tables[p.left][t[p.left]][p.lcol] = tables[p.right][t[p.right]][p.rcol]
<1> DEFINE rows == UNION {DOMAIN tables[r] : r \in Relations(graph)}
<1>1. t = [r \in Relations(graph) |-> t[r]] /\ (\A r \in Relations(graph) : t[r] \in DOMAIN tables[r])
      => t \in [Relations(graph) -> rows]
  <2> SUFFICES ASSUME t = [r \in Relations(graph) |-> t[r]],
                      \A r \in Relations(graph) : t[r] \in DOMAIN tables[r]
               PROVE  t \in [Relations(graph) -> rows]
    OBVIOUS
  <2>1. \A r \in Relations(graph) : t[r] \in rows OBVIOUS
  <2> HIDE DEF rows
  <2> QED BY <2>1
<1>2. t \in [Relations(graph) -> rows] => t = [r \in Relations(graph) |-> t[r]] OBVIOUS
<1>3. t \in FlatJoin(graph, tables) <=>
        /\ t \in [Relations(graph) -> rows]
        /\ \A r \in Relations(graph) : t[r] \in DOMAIN tables[r]
        /\ \A p \in ToSet(graph.predicates) :
             tables[p.left][t[p.left]][p.lcol] = tables[p.right][t[p.right]][p.rcol]
  BY DEF FlatJoin, FlatJoinOver
<1> HIDE DEF rows
<1> QED BY <1>1, <1>2, <1>3

(* What a predicate compares. *)
LEMMA PredicateEnds ==
  ASSUME NEW T, NEW graph, IsGraph(graph, T), NEW p \in ToSet(graph.predicates)
  PROVE  p.left \in Relations(graph) /\ p.right \in Relations(graph)
<1>1. PICK i \in DOMAIN graph.predicates : p = graph.predicates[i] BY DEF ToSet
<1> QED BY <1>1, PredicateAttributes

(* The rows of a relation that a slice keeps. *)
Kept(graph, tables, root, hash, slices, slice, r) ==
  IF SliceColumns(graph, root)[r] = 0 THEN DOMAIN tables[r]
  ELSE Falls(tables[r], SliceColumns(graph, root)[r], hash, slice, slices)

(* The tables of a slice. *)
Slice(graph, tables, root, hash, slices, slice) ==
  SlicedTables(tables, SliceColumns(graph, root), hash, slice, slices)

(* A slice holds each row it keeps once, and those are rows of the query.  *)
LEMMA SliceIs ==
  ASSUME NEW T, NEW graph, IsGraph(graph, T), NEW V, NEW tables, IsData(graph, tables, V),
         NEW root, NEW hash, NEW slices, NEW slice
  PROVE  /\ IsData(graph, Slice(graph, tables, root, hash, slices, slice), V)
         /\ \A r \in Relations(graph) : \E g :
              Placed(g, Slice(graph, tables, root, hash, slices, slice)[r], tables[r],
                     Kept(graph, tables, root, hash, slices, slice, r))
<1> DEFINE cut == Slice(graph, tables, root, hash, slices, slice)
           column(r) == SliceColumns(graph, root)[r]
           kept(r) == Kept(graph, tables, root, hash, slices, slice, r)
           rows(r) == [Columns(graph, r) -> V]
<1>1. DOMAIN cut = Relations(graph) BY DEF Slice, SlicedTables, IsData
<1>2. ASSUME NEW r \in Relations(graph)
      PROVE  cut[r] \in Seq(rows(r)) /\ \E g : Placed(g, cut[r], tables[r], kept(r))
  <2>1. tables[r] \in Seq(rows(r)) /\ r \in DOMAIN tables BY DEF IsData
  <2>2. CASE column(r) = 0
    <3>1. cut[r] = tables[r] BY <2>1, <2>2 DEF Slice, SlicedTables
    <3> DEFINE g == [j \in 1 .. Len(tables[r]) |-> j]
    <3>2. kept(r) = 1 .. Len(tables[r]) BY <2>1, <2>2 DEF Kept
    <3>3. Placed(g, cut[r], tables[r], kept(r)) BY <3>1, <3>2 DEF Placed
    <3> QED BY <2>1, <3>1, <3>3
  <2>3. CASE column(r) # 0
    <3>1. cut[r] = Sliced(tables[r], column(r), hash, slice, slices)
      BY <2>1, <2>3 DEF Slice, SlicedTables
    <3>2. kept(r) = Falls(tables[r], column(r), hash, slice, slices) BY <2>3 DEF Kept
    <3> HIDE DEF column, rows, cut, kept
    <3> QED BY <2>1, <3>1, <3>2, SlicedIs
  <2> QED BY <2>2, <2>3
<1> HIDE DEF cut, kept
<1>3. IsData(graph, cut, V) BY <1>1, <1>2 DEF IsData
<1> QED BY <1>2, <1>3 DEF cut, kept

(* The flat tuples of all slices, each with its slice. *)
Pieces(graph, tables, root, hash, slices) ==
  UNION {{s} \X FlatJoin(graph, Slice(graph, tables, root, hash, slices, s)) : s \in 0 .. slices - 1}

(* F gives each flat tuple of a slice the flat tuple of the query that has *)
(* its values, and each of those has one.                                  *)
Matches(F, graph, tables, root, hash, slices) ==
  LET pieces == Pieces(graph, tables, root, hash, slices)
  IN  /\ F \in [pieces -> FlatJoin(graph, tables)]
      /\ \A y, z \in pieces : F[y] = F[z] => y = z
      /\ \A t \in FlatJoin(graph, tables) : \E z \in pieces : F[z] = t
      /\ \A z \in pieces : \A r \in Relations(graph) :
           Slice(graph, tables, root, hash, slices, z[1])[r][z[2][r]] = tables[r][F[z][r]]

(* A class of equal columns slices a query: whatever the hash and the      *)
(* number of slices, though a relation that does not carry the class is    *)
(* handed to every slice whole, each flat tuple of the query is a flat     *)
(* tuple of one slice, once, with the same rows, and nothing else is.      *)
THEOREM SlicesHoldEveryTupleOnce ==
  ASSUME NEW T, NEW graph, IsGraph(graph, T), NEW V, NEW tables, IsData(graph, tables, V),
         NEW root, NEW hash \in [V -> Int], NEW slices \in Nat \ {0},
         \E r \in Relations(graph) : SliceColumns(graph, root)[r] # 0
  PROVE  \E F : Matches(F, graph, tables, root, hash, slices)
<1> DEFINE S == 0 .. slices - 1
           R == Relations(graph)
           cut(s) == Slice(graph, tables, root, hash, slices, s)
           kept(s, r) == Kept(graph, tables, root, hash, slices, s, r)
           column(r) == SliceColumns(graph, root)[r]
           whole == FlatJoin(graph, tables)
           part(s) == FlatJoin(graph, cut(s))
           pieces == Pieces(graph, tables, root, hash, slices)
           place(s, r) == CHOOSE g : Placed(g, cut(s)[r], tables[r], kept(s, r))
           F == [z \in pieces |-> [r \in R |-> place(z[1], r)[z[2][r]]]]
<1>1. PICK base \in R : column(base) # 0 OBVIOUS
<1>2. ASSUME NEW s \in S, NEW r \in R
      PROVE  Placed(place(s, r), cut(s)[r], tables[r], kept(s, r))
  <2>1. \E g : Placed(g, cut(s)[r], tables[r], kept(s, r)) BY SliceIs
  <2> QED BY <2>1
<1>3. \A s \in S : IsData(graph, cut(s), V) BY SliceIs
<1>4. ASSUME NEW s \in S, NEW r \in R
      PROVE  kept(s, r) \subseteq DOMAIN tables[r] /\ DOMAIN (cut(s)[r]) = 1 .. Len(cut(s)[r])
  <2>1. cut(s)[r] \in Seq([Columns(graph, r) -> V]) BY <1>3 DEF IsData
  <2>2. kept(s, r) \subseteq DOMAIN tables[r] BY DEF Kept, Falls
  <2> HIDE DEF cut, kept
  <2> QED BY <2>1, <2>2
<1> HIDE DEF place
<1>5. ASSUME NEW z \in pieces PROVE z = <<z[1], z[2]>> /\ z[1] \in S /\ z[2] \in part(z[1])
  BY DEF Pieces
<1>6. ASSUME NEW s \in S, NEW u \in part(s) PROVE <<s, u>> \in pieces BY DEF Pieces
<1> HIDE DEF pieces
(* One tuple of one slice. *)
<1>7. ASSUME NEW s \in S, NEW u \in part(s), NEW r \in R
      PROVE  /\ u[r] \in DOMAIN (cut(s)[r]) /\ place(s, r)[u[r]] \in kept(s, r)
             /\ cut(s)[r][u[r]] = tables[r][place(s, r)[u[r]]]
             /\ place(s, r)[u[r]] \in DOMAIN tables[r]
  <2>1. u[r] \in DOMAIN (cut(s)[r]) BY <1>3, FlatJoinIs
  <2> HIDE DEF cut, kept, part
  <2>2. u[r] \in 1 .. Len(cut(s)[r]) BY <2>1, <1>4
  <2>3. /\ place(s, r) \in [1 .. Len(cut(s)[r]) -> kept(s, r)]
        /\ \A j \in 1 .. Len(cut(s)[r]) : cut(s)[r][j] = tables[r][place(s, r)[j]]
    BY <1>2 DEF Placed
  <2> QED BY <2>1, <2>2, <2>3, <1>4
<1>8. ASSUME NEW z \in pieces
      PROVE  /\ F[z] \in whole
             /\ \A r \in R : /\ F[z][r] = place(z[1], r)[z[2][r]]
                             /\ cut(z[1])[r][z[2][r]] = tables[r][F[z][r]]
  <2> DEFINE s == z[1]
             u == z[2]
             t == F[z]
  <2>1. s \in S /\ u \in part(s) BY <1>5
  <2>2. t = [r \in R |-> place(s, r)[u[r]]] OBVIOUS
  <2> HIDE DEF s, u, t, cut, part, kept, F
  <2>3. t = [r \in R |-> t[r]] /\ \A r \in R : t[r] = place(s, r)[u[r]] BY <2>2
  <2>4. \A r \in R : t[r] \in DOMAIN tables[r] /\ cut(s)[r][u[r]] = tables[r][t[r]]
    BY <2>1, <2>3, <1>7
  <2>5. ASSUME NEW p \in ToSet(graph.predicates)
        PROVE  tables[p.left][t[p.left]][p.lcol] = tables[p.right][t[p.right]][p.rcol]
    <3>1. p.left \in R /\ p.right \in R BY PredicateEnds
    <3>2. cut(s)[p.left][u[p.left]][p.lcol] = cut(s)[p.right][u[p.right]][p.rcol]
      <4>1. IsData(graph, cut(s), V) /\ u \in FlatJoin(graph, cut(s)) BY <2>1, <1>3 DEF part
      <4> QED BY <4>1, FlatJoinIs
    <3> QED BY <3>1, <3>2, <2>4
  <2>6. t \in whole BY <2>3, <2>4, <2>5, FlatJoinIs
  <2> QED BY <2>3, <2>4, <2>6 DEF s, u, t
(* The slice a row of base falls into. *)
<1>9. ASSUME NEW s \in S, NEW i \in kept(s, base)
      PROVE  hash[tables[base][i][column(base)]] % slices = s
  BY <1>1 DEF Kept, Falls
<1>10. ASSUME NEW y \in pieces, NEW z \in pieces, F[y] = F[z] PROVE y = z
  <2> HIDE DEF F, cut, part, kept, column
  <2>1. y[1] \in S /\ z[1] \in S /\ y[2] \in part(y[1]) /\ z[2] \in part(z[1]) BY <1>5
  <2>2. F[y][base] \in kept(y[1], base) /\ F[z][base] \in kept(z[1], base)
    BY <2>1, <1>7, <1>8
  <2>3. y[1] = z[1] BY <2>1, <2>2, <1>9, <1>10
  <2> DEFINE s == y[1]
             u == y[2]
             v == z[2]
  <2>4. s \in S /\ u \in part(s) /\ v \in part(s) BY <2>1, <2>3
  <2>5. \A r \in R : place(s, r)[u[r]] = place(s, r)[v[r]] BY <2>3, <1>8, <1>10
  <2> HIDE DEF s, u, v
  <2>6. ASSUME NEW r \in R PROVE u[r] = v[r]
    <3>1. u[r] \in 1 .. Len(cut(s)[r]) /\ v[r] \in 1 .. Len(cut(s)[r]) BY <2>4, <1>7, <1>4
    <3>2. \A i, j \in 1 .. Len(cut(s)[r]) : place(s, r)[i] = place(s, r)[j] => i = j
      BY <2>4, <1>2 DEF Placed
    <3> QED BY <3>1, <3>2, <2>5
  <2>7. u = [r \in R |-> u[r]] /\ v = [r \in R |-> v[r]]
    <3>1. IsData(graph, cut(s), V) /\ u \in FlatJoin(graph, cut(s)) /\ v \in FlatJoin(graph, cut(s))
      BY <2>4, <1>3 DEF part
    <3> QED BY <3>1, FlatJoinIs
  <2>8. u = v BY <2>6, <2>7
  <2> QED BY <2>3, <2>8, <1>5 DEF s, u, v
<1>11. ASSUME NEW t \in whole PROVE \E z \in pieces : F[z] = t
  <2> DEFINE s == hash[tables[base][t[base]][column(base)]] % slices
  <2>1. /\ t = [r \in R |-> t[r]] /\ \A r \in R : t[r] \in DOMAIN tables[r]
        /\ \A p \in ToSet(graph.predicates) :
             tables[p.left][t[p.left]][p.lcol] = tables[p.right][t[p.right]][p.rcol]
    BY FlatJoinIs
  <2>2. ASSUME NEW r \in R, column(r) # 0
        PROVE  /\ tables[r][t[r]][column(r)] = tables[base][t[base]][column(base)]
               /\ tables[r][t[r]][column(r)] \in V
    <3>1. Agree(graph, tables, t, FullClasses(graph)) BY ClassesAgree
    <3>2. /\ column(r) \in Columns(graph, r) /\ column(base) \in Columns(graph, base)
          /\ FullClasses(graph)[AttributeOf(graph, r, column(r))]
               = FullClasses(graph)[AttributeOf(graph, base, column(base))]
      BY <2>2, <1>1, SliceColumnsAre
    <3> HIDE DEF column, whole
    <3>3. tables[r][t[r]][column(r)] = tables[base][t[base]][column(base)] BY <3>1, <3>2 DEF Agree
    <3>4. tables[r] \in Seq([Columns(graph, r) -> V]) BY DEF IsData
    <3>5. tables[r][t[r]] \in [Columns(graph, r) -> V] BY <3>4, <2>1
    <3> QED BY <3>2, <3>3, <3>5
  <2>3. s \in S
    <3>1. hash[tables[base][t[base]][column(base)]] \in Int BY <2>2, <1>1
    <3> HIDE DEF column
    <3> QED BY <3>1
  <2>4. ASSUME NEW r \in R PROVE t[r] \in kept(s, r)
    <3>1. CASE column(r) = 0 BY <3>1, <2>1 DEF Kept
    <3>2. CASE column(r) # 0
      <4>1. hash[tables[r][t[r]][column(r)]] % slices = s BY <3>2, <2>2
      <4> HIDE DEF s
      <4> QED BY <4>1, <3>2, <2>1 DEF Kept, Falls
    <3> QED BY <3>1, <3>2
  <2> HIDE DEF s, cut, kept, part, F
  <2>5. ASSUME NEW r \in R
        PROVE  \E j \in 1 .. Len(cut(s)[r]) : place(s, r)[j] = t[r]
    <3>1. \A x \in kept(s, r) : \E j \in 1 .. Len(cut(s)[r]) : place(s, r)[j] = x
      BY <2>3, <1>2 DEF Placed
    <3> QED BY <3>1, <2>4
  <2> DEFINE index(r) == CHOOSE j \in 1 .. Len(cut(s)[r]) : place(s, r)[j] = t[r]
             u == [r \in R |-> index(r)]
  <2>6. ASSUME NEW r \in R
        PROVE  u[r] \in 1 .. Len(cut(s)[r]) /\ place(s, r)[u[r]] = t[r]
    <3>1. u[r] = index(r) OBVIOUS
    <3>2. index(r) \in 1 .. Len(cut(s)[r]) /\ place(s, r)[index(r)] = t[r] BY <2>5
    <3> QED BY <3>1, <3>2
  <2>7. u = [r \in R |-> u[r]] OBVIOUS
  <2> HIDE DEF u
  <2>8. ASSUME NEW r \in R
        PROVE  u[r] \in DOMAIN (cut(s)[r]) /\ cut(s)[r][u[r]] = tables[r][t[r]]
    <3>1. \A j \in 1 .. Len(cut(s)[r]) : cut(s)[r][j] = tables[r][place(s, r)[j]]
      BY <2>3, <1>2 DEF Placed
    <3> QED BY <3>1, <2>3, <2>6, <1>4
  <2>9. ASSUME NEW p \in ToSet(graph.predicates)
        PROVE  cut(s)[p.left][u[p.left]][p.lcol] = cut(s)[p.right][u[p.right]][p.rcol]
    <3>1. p.left \in R /\ p.right \in R BY PredicateEnds
    <3> QED BY <3>1, <2>1, <2>8
  <2>10. u \in part(s)
    <3>1. IsData(graph, cut(s), V) BY <2>3, <1>3
    <3>2. u \in FlatJoin(graph, cut(s)) BY <3>1, <2>7, <2>8, <2>9, FlatJoinIs
    <3> QED BY <3>2 DEF part
  <2> DEFINE z == <<s, u>>
  <2>11. z \in pieces /\ z[1] = s /\ z[2] = u BY <2>3, <2>10, <1>6
  <2> HIDE DEF z
  <2>12. F[z] \in whole /\ \A r \in R : F[z][r] = t[r] BY <2>11, <2>6, <1>8
  <2>13. F[z] = [r \in R |-> F[z][r]] BY <2>12, FlatJoinIs
  <2>14. F[z] = t BY <2>1, <2>12, <2>13
  <2> QED BY <2>11, <2>14
<1>12. F \in [pieces -> whole] BY <1>8
<1> HIDE DEF F
<1>13. Matches(F, graph, tables, root, hash, slices)
  BY <1>8, <1>10, <1>11, <1>12 DEF Matches, pieces
<1> QED BY <1>13

-----------------------------------------------------------------------------
(* Sizes.                                                                  *)

(* What SumFunction computes. *)
LEMMA SumFunctionIs ==
  ASSUME NEW S, IsFiniteSet(S), NEW f \in [S -> Int], NEW m, Gains(m, S, f)
  PROVE  SumFunction(f) = m[S]
<1> DEFINE Iter(h) == [s \in SUBSET S |-> IF s = {} THEN 0 ELSE f[Chosen(s)] + h[s \ {Chosen(s)}]]
<1>1. PICK a : AddsUp(a, S, f) BY AddsUpExists
<1>2. a = Iter(a)
  <2>1. a \in [SUBSET S -> Int] BY <1>1 DEF AddsUp
  <2>2. \A s \in SUBSET S : a[s] = Iter(a)[s] BY <1>1 DEF AddsUp
  <2> QED BY <2>1, <2>2
<1> DEFINE k == CHOOSE h : h = Iter(h)
<1>3. SumFunction(f) = k[S]
  <2>1. DOMAIN f = S OBVIOUS
  <2> QED BY <2>1 DEF SumFunction, SumFunctionOnSet, FoldFunctionOnSet, MapThenFoldSet, Chosen
<1>4. k = Iter(k) BY <1>2
<1> HIDE DEF k
<1>5. Iterates(k, S, f) BY <1>4 DEF Iterates
<1> QED BY <1>3, <1>5, AddsUpTo

(* What a function makes of a finite set is finite. *)
LEMMA FiniteValues ==
  ASSUME NEW S, IsFiniteSet(S), NEW f, DOMAIN f = S
  PROVE  IsFiniteSet({f[x] : x \in S})
<1> DEFINE T == {f[x] : x \in S}
           g == [x \in S |-> f[x]]
<1>1. g \in Surjection(S, T) BY DEF Surjection
<1> HIDE DEF g, T
<1>2. IsFiniteSet(T) BY <1>1, FS_Surjection
<1> QED BY <1>2 DEF T

(* There are finitely many ways to choose from a finite set n times. *)
LEMMA FiniteChoices ==
  ASSUME NEW Rows, IsFiniteSet(Rows), NEW n \in Nat
  PROVE  IsFiniteSet([1 .. n -> Rows])
<1> DEFINE P == {i \in Nat : IsFiniteSet([1 .. i -> Rows])}
<1>1. 0 \in P
  <2> DEFINE none == [j \in 1 .. 0 |-> 0]
  <2>1. \A f \in [1 .. 0 -> Rows] : f = none
    <3>1. 1 .. 0 = {} OBVIOUS
    <3> QED BY <3>1
  <2> HIDE DEF none
  <2>2. IsFiniteSet({none}) BY FS_Singleton
  <2>3. [1 .. 0 -> Rows] \subseteq {none} BY <2>1
  <2>4. IsFiniteSet([1 .. 0 -> Rows]) BY <2>2, <2>3, FS_Subset
  <2> QED BY <2>4
<1>2. ASSUME NEW i \in P PROVE i + 1 \in P
  <2> DEFINE A == [1 .. i -> Rows]
             B == [1 .. i + 1 -> Rows]
             f == [z \in A \X Rows |-> [j \in 1 .. i + 1 |-> IF j = i + 1 THEN z[2] ELSE z[1][j]]]
  <2>0. i \in Nat /\ i + 1 \in Nat /\ IsFiniteSet(A) OBVIOUS
  <2>1. \A j \in 1 .. i + 1 : j = i + 1 \/ j \in 1 .. i BY <2>0
  <2> DEFINE Longer(a, x) == [j \in 1 .. i + 1 |-> IF j = i + 1 THEN x ELSE a[j]]
  <2>2. \A a \in A, x \in Rows : f[<<a, x>>] = Longer(a, x) OBVIOUS
  <2>3. ASSUME NEW a \in A, NEW x \in Rows PROVE f[<<a, x>>] \in B
    <3>1. f[<<a, x>>] = Longer(a, x) BY <2>2
    <3>2. \A j \in 1 .. i + 1 : (IF j = i + 1 THEN x ELSE a[j]) \in Rows BY <2>1
    <3> HIDE DEF f
    <3> QED BY <3>1, <3>2
  <2>4. ASSUME NEW b \in B PROVE \E z \in A \X Rows : f[z] = b
    <3> DEFINE a == [j \in 1 .. i |-> b[j]]
    <3>1. a \in A /\ b[i + 1] \in Rows
      <4>1. \A j \in 1 .. i : j \in 1 .. i + 1 BY <2>0
      <4>2. i + 1 \in 1 .. i + 1 BY <2>0
      <4> QED BY <4>1, <4>2
    <3>2. <<a, b[i + 1]>> \in A \X Rows BY <3>1
    <3>3. f[<<a, b[i + 1]>>] = Longer(a, b[i + 1])
      <4> HIDE DEF f, a, A, Longer
      <4> QED BY <3>1, <2>2
    <3>4. \A j \in 1 .. i + 1 : (IF j = i + 1 THEN b[i + 1] ELSE a[j]) = b[j] BY <2>1
    <3> HIDE DEF f, a
    <3>5. f[<<a, b[i + 1]>>] = [j \in 1 .. i + 1 |-> b[j]] BY <3>3, <3>4
    <3>6. b = [j \in 1 .. i + 1 |-> b[j]] OBVIOUS
    <3> QED BY <3>2, <3>5, <3>6
  <2>5. f \in Surjection(A \X Rows, B)
    <3>1. f \in [A \X Rows -> B]
      <4>1. \A z \in A \X Rows : f[z] \in B
        <5> SUFFICES ASSUME NEW z \in A \X Rows PROVE f[z] \in B OBVIOUS
        <5>1. z = <<z[1], z[2]>> /\ z[1] \in A /\ z[2] \in Rows OBVIOUS
        <5> HIDE DEF f
        <5> QED BY <5>1, <2>3
      <4>2. f = [z \in A \X Rows |-> f[z]] OBVIOUS
      <4> HIDE DEF f
      <4> QED BY <4>1, <4>2
    <3> HIDE DEF f, A, B
    <3> QED BY <3>1, <2>4 DEF Surjection
  <2>6. IsFiniteSet(A \X Rows) BY <2>0, FS_Product
  <2> HIDE DEF f, A
  <2>7. IsFiniteSet(B) BY <2>5, <2>6, FS_Surjection
  <2> QED BY <2>0, <2>7
<1>3. P \in SUBSET Nat OBVIOUS
<1> HIDE DEF P
<1>4. P = Nat BY <1>1, <1>2, <1>3, Climb
<1> QED BY <1>4 DEF P

(* A query over finite tables has finitely many flat tuples. *)
LEMMA FlatJoinFinite ==
  ASSUME NEW T, NEW graph, IsGraph(graph, T), NEW V, NEW tables, IsData(graph, tables, V)
  PROVE  IsFiniteSet(FlatJoin(graph, tables)) /\ Cardinality(FlatJoin(graph, tables)) \in Nat
<1> DEFINE n == Len(graph.types)
           R == 1 .. n
           f == [r \in R |-> DOMAIN tables[r]]
           rows == UNION {DOMAIN tables[r] : r \in R}
<1>1. n \in Nat /\ Relations(graph) = R /\ IsFiniteSet(R) BY FS_Interval DEF IsGraph, Relations
<1>2. ASSUME NEW r \in R PROVE IsFiniteSet(DOMAIN tables[r])
  <2>1. tables[r] \in Seq([Columns(graph, r) -> V]) BY <1>1 DEF IsData
  <2>2. DOMAIN tables[r] = 1 .. Len(tables[r]) /\ Len(tables[r]) \in Nat BY <2>1
  <2> QED BY <2>2, FS_Interval
<1>3. IsFiniteSet({f[r] : r \in R})
  <2> HIDE DEF R
  <2> QED BY <1>1, FiniteValues
<1>4. {f[r] : r \in R} = {DOMAIN tables[r] : r \in R} OBVIOUS
<1>5. IsFiniteSet(rows) BY <1>2, <1>3, <1>4, FS_UNION
<1>6. FlatJoin(graph, tables) \subseteq [R -> rows] BY <1>1 DEF FlatJoin, FlatJoinOver
<1> HIDE DEF rows
<1>7. IsFiniteSet([R -> rows]) BY <1>1, <1>5, FiniteChoices
<1> QED BY <1>6, <1>7, FS_Subset, FS_CardinalityType

(* How many flat tuples the slices have between them. *)
SlicedSize(graph, tables, root, hash, slices) ==
  SumFunction([s \in 0 .. slices - 1 |->
                 Cardinality(FlatJoin(graph, Slice(graph, tables, root, hash, slices, s)))])

(* The sizes of the slices add up to the size of the query: a count taken  *)
(* slice by slice is the whole count.                                      *)
THEOREM SlicesAddUp ==
  ASSUME NEW T, NEW graph, IsGraph(graph, T), NEW V, NEW tables, IsData(graph, tables, V),
         NEW root, NEW hash \in [V -> Int], NEW slices \in Nat \ {0},
         \E r \in Relations(graph) : SliceColumns(graph, root)[r] # 0
  PROVE  SlicedSize(graph, tables, root, hash, slices) = Cardinality(FlatJoin(graph, tables))
<1> DEFINE S == 0 .. slices - 1
           part(s) == FlatJoin(graph, Slice(graph, tables, root, hash, slices, s))
           size == [s \in S |-> Cardinality(part(s))]
           pieces == Pieces(graph, tables, root, hash, slices)
           of(Q) == {z \in pieces : z[1] \in Q}
           m == [Q \in SUBSET S |-> Cardinality(of(Q))]
<1>1. ASSUME NEW s \in S PROVE IsFiniteSet(part(s)) /\ Cardinality(part(s)) \in Nat
  BY SliceIs, FlatJoinFinite
<1>2. S \subseteq Int /\ IsFiniteSet(S) BY FS_Interval
<1>3. PICK F : Matches(F, graph, tables, root, hash, slices) BY SlicesHoldEveryTupleOnce
<1>4. F \in Injection(pieces, FlatJoin(graph, tables)) /\ F \in Surjection(pieces, FlatJoin(graph, tables))
  <2> HIDE DEF pieces
  <2> QED BY <1>3 DEF Matches, Injection, IsInjective, Surjection, pieces
<1>5. IsFiniteSet(FlatJoin(graph, tables)) BY FlatJoinFinite
<1>6. IsFiniteSet(pieces) /\ Cardinality(pieces) = Cardinality(FlatJoin(graph, tables))
  <2> HIDE DEF pieces
  <2> QED BY <1>4, <1>5, FS_Injection
<1>7. ASSUME NEW z \in pieces PROVE z = <<z[1], z[2]>> /\ z[1] \in S /\ z[2] \in part(z[1])
  BY DEF Pieces
<1>8. ASSUME NEW s \in S, NEW u \in part(s) PROVE <<s, u>> \in pieces BY DEF Pieces
<1> HIDE DEF pieces, part
<1>9. \A Q \in SUBSET S : IsFiniteSet(of(Q)) /\ Cardinality(of(Q)) \in Nat
  <2> SUFFICES ASSUME NEW Q \in SUBSET S PROVE IsFiniteSet(of(Q)) /\ Cardinality(of(Q)) \in Nat
    OBVIOUS
  <2>1. of(Q) \subseteq pieces OBVIOUS
  <2> HIDE DEF of
  <2> QED BY <2>1, <1>6, FS_Subset, FS_CardinalityType
<1>10. ASSUME NEW Q \in SUBSET S, NEW s \in S \ Q
       PROVE  Cardinality(of(Q \cup {s})) = Cardinality(of(Q)) + Cardinality(part(s))
  <2> DEFINE A == of(Q)
             B == {s} \X part(s)
  <2>1. of(Q \cup {s}) = A \cup B
    <3>1. ASSUME NEW z \in of(Q \cup {s}) PROVE z \in A \cup B
      <4>1. z \in pieces /\ (z[1] \in Q \/ z[1] = s) OBVIOUS
      <4> QED BY <4>1, <1>7
    <3>2. \A z \in A : z \in of(Q \cup {s}) OBVIOUS
    <3>3. ASSUME NEW z \in B PROVE z \in of(Q \cup {s})
      <4>1. z = <<s, z[2]>> /\ z[1] = s /\ z[2] \in part(s) OBVIOUS
      <4>2. z \in pieces BY <4>1, <1>8
      <4> QED BY <4>1, <4>2
    <3> HIDE DEF A, B, of
    <3> QED BY <3>1, <3>2, <3>3
  <2>2. A \cap B = {}
    <3>1. \A z \in A : z[1] \in Q OBVIOUS
    <3>2. \A z \in B : z[1] = s OBVIOUS
    <3> HIDE DEF A, B
    <3> QED BY <3>1, <3>2
  <2>3. IsFiniteSet(A) /\ Cardinality(A) \in Nat BY <1>9
  <2>4. IsFiniteSet(B) /\ Cardinality(B) = Cardinality(part(s)) /\ Cardinality(part(s)) \in Nat
    <3>1. IsFiniteSet({s}) /\ Cardinality({s}) = 1 BY FS_Singleton
    <3>2. IsFiniteSet(part(s)) /\ Cardinality(part(s)) \in Nat BY <1>1
    <3>3. IsFiniteSet(B) /\ Cardinality(B) = Cardinality({s}) * Cardinality(part(s))
      BY <3>1, <3>2, FS_Product
    <3> QED BY <3>1, <3>2, <3>3
  <2> HIDE DEF A, B, of
  <2>5. Cardinality(A \cup B) = Cardinality(A) + Cardinality(B) - Cardinality(A \cap B)
    BY <2>3, <2>4, FS_Union
  <2>6. Cardinality(A \cap B) = 0 BY <2>2, FS_EmptySet
  <2>7. Cardinality(of(Q \cup {s})) = Cardinality(A) + Cardinality(part(s))
    <3>1. Cardinality(A \cup B) = Cardinality(A) + Cardinality(B) BY <2>3, <2>4, <2>5, <2>6
    <3>2. Cardinality(B) = Cardinality(part(s)) BY <2>4
    <3>3. Cardinality(of(Q \cup {s})) = Cardinality(A \cup B) BY <2>1
    <3> QED BY <3>1, <3>2, <3>3
  <2>8. A = of(Q) BY DEF A
  <2> QED BY <2>7, <2>8
<1>11. of({}) = {} /\ of(S) = pieces BY <1>7
<1> HIDE DEF of
<1>12. Gains(m, S, size)
  <2>1. m \in [SUBSET S -> Int] BY <1>9
  <2>2. m[{}] = 0 BY <1>11, FS_EmptySet
  <2>3. ASSUME NEW Q \in SUBSET S, NEW s \in S \ Q PROVE m[Q \cup {s}] = m[Q] + size[s]
    <3>1. Q \cup {s} \in SUBSET S OBVIOUS
    <3> QED BY <3>1, <1>10
  <2> HIDE DEF m, size
  <2> QED BY <2>1, <2>2, <2>3 DEF Gains
<1>13. size \in [S -> Int] BY <1>1
<1>14. SumFunction(size) = m[S]
  <2> HIDE DEF size, m, S
  <2> QED BY <1>2, <1>12, <1>13, SumFunctionIs
<1>15. m[S] = Cardinality(pieces) BY <1>11
<1>16. SlicedSize(graph, tables, root, hash, slices) = SumFunction(size) BY DEF SlicedSize, part
<1> QED BY <1>6, <1>14, <1>15, <1>16

(* Also where every slice is cut again on a second class.                  *)
THEOREM SecondKeyAddsUp ==
  ASSUME NEW T, NEW graph, IsGraph(graph, T), NEW V, NEW tables, IsData(graph, tables, V),
         NEW root, NEW other, NEW hash \in [V -> Int], NEW slices \in Nat \ {0}, NEW parts \in Nat \ {0},
         \E r \in Relations(graph) : SliceColumns(graph, root)[r] # 0,
         \E r \in Relations(graph) : SliceColumns(graph, other)[r] # 0
  PROVE  SumFunction([s \in 0 .. slices - 1 |->
            SlicedSize(graph, Slice(graph, tables, root, hash, slices, s), other, hash, parts)])
           = Cardinality(FlatJoin(graph, tables))
<1> DEFINE cut(s) == Slice(graph, tables, root, hash, slices, s)
<1>1. ASSUME NEW s \in 0 .. slices - 1
      PROVE  SlicedSize(graph, cut(s), other, hash, parts) = Cardinality(FlatJoin(graph, cut(s)))
  <2>1. IsData(graph, cut(s), V) BY SliceIs
  <2> HIDE DEF cut
  <2> QED BY <2>1, SlicesAddUp
<1>2. [s \in 0 .. slices - 1 |-> SlicedSize(graph, cut(s), other, hash, parts)]
        = [s \in 0 .. slices - 1 |-> Cardinality(FlatJoin(graph, cut(s)))]
  BY <1>1
<1>3. SlicedSize(graph, tables, root, hash, slices) = Cardinality(FlatJoin(graph, tables))
  BY SlicesAddUp
<1> QED BY <1>2, <1>3 DEF SlicedSize
=============================================================================
