--------------------------- MODULE WideArithmetic ---------------------------
(***************************************************************************)
(* The engine's integers (frep.hpp, int128.hpp) at a scaled width.  A half *)
(* is HalfBits wide (32 bits in the code), a word two halves (int64_t), a  *)
(* wide sum two words: a signed high one and an unsigned low one.  What    *)
(* the code throws on is the value Overflow, which absorbs every operation *)
(* that is handed it, as an exception does.                                *)
(***************************************************************************)
EXTENDS Integers, Sequences

CONSTANT HalfBits
ASSUME HalfBitsAssumption == HalfBits \in Nat \ {0}

Half == 2 ^ HalfBits
Word == Half * Half

\* All that the arithmetic needs of a power of two: it is even.
ASSUME HalfAssumption == Half \in Nat /\ Half >= 2 /\ Half % 2 = 0

MaxWord == Word \div 2 - 1
MinWord == -(Word \div 2)

Overflow == Word            \* no word has this value

\* The two readings of one bit pattern.
Unsigned(n) == n % Word
Signed(n) == IF Unsigned(n) > MaxWord THEN Unsigned(n) - Word ELSE Unsigned(n)

InWord(n) == MinWord <= n /\ n <= MaxWord

(***************************************************************************)
(* CheckedCardinalityAdd and CheckedCardinalityMul: tested before they are *)
(* computed, by the code's own comparisons.  C++ division truncates        *)
(* towards zero.                                                           *)
(***************************************************************************)
Quotient(a, b) ==
    LET magnitude == (IF a < 0 THEN -a ELSE a) \div (IF b < 0 THEN -b ELSE b)
    IN  IF (a < 0) = (b < 0) THEN magnitude ELSE -magnitude

CheckedAdd(a, b) ==
    IF Overflow \in {a, b} THEN Overflow
    ELSE IF (b > 0 /\ a > MaxWord - b) \/ (b < 0 /\ a < MinWord - b) THEN Overflow
    ELSE a + b

CheckedMul(a, b) ==
    LET tooFar == CASE a > 0 /\ b > 0 -> a > Quotient(MaxWord, b)
                    [] a > 0 /\ b < 0 -> b < Quotient(MinWord, a)
                    [] a < 0 /\ b > 0 -> a < Quotient(MinWord, b)
                    [] OTHER          -> a < Quotient(MaxWord, b)
        other == IF a = -1 THEN b ELSE a
    IN  IF Overflow \in {a, b} THEN Overflow
        ELSE IF a = 0 \/ b = 0 THEN 0
        ELSE IF -1 \in {a, b} THEN (IF other = MinWord THEN Overflow ELSE -other)
        ELSE IF tooFar THEN Overflow ELSE a * b

(***************************************************************************)
(* Int128: the signed high word and the unsigned low word.                 *)
(***************************************************************************)
Int128(high, low) == [high |-> high, low |-> low]
Zero128 == Int128(0, 0)
Overflow128 == Int128(Overflow, 0)
Overflowed128(x) == x.high = Overflow

\* The number a pair of words stands for.
ValueOf(x) == x.high * Word + x.low

Negate(x) ==
    LET low == Unsigned((Word - 1 - x.low) + 1)
    IN  Int128(Signed(-1 - x.high + (IF low = 0 THEN 1 ELSE 0)), low)

AddWithoutCarry(a, b) ==    \* mutant
    IF Overflowed128(a) \/ Overflowed128(b) THEN Overflow128
    ELSE Int128(Signed(a.high + b.high), Unsigned(a.low + b.low))

CheckedAdd128(a, b) ==
    LET low == Unsigned(a.low + b.low)
        carry == IF low < a.low THEN 1 ELSE 0
        high == Signed(a.high + b.high + carry)
    IN  IF Overflowed128(a) \/ Overflowed128(b) THEN Overflow128
        ELSE IF (a.high < 0) = (b.high < 0) /\ (high < 0) # (a.high < 0) THEN Overflow128
        ELSE Int128(high, low)

Magnitude(n) == Unsigned(IF n < 0 THEN (Word - 1 - Unsigned(n)) + 1 ELSE n)
Low(n) == n % Half
High(n) == n \div Half

\* MultiplyWide: four partial products of halves; each fits a word.
WithSign(negative, magnitude) == IF negative THEN Negate(magnitude) ELSE magnitude

SumPartials(ll, lh, hl, hh) ==
    LET middle == High(ll) + Low(lh) + Low(hl)
    IN  Int128(Signed(hh + High(lh) + High(hl) + High(middle)), Low(ll) + Low(middle) * Half)

MultiplyMagnitudes(a, b) ==
    SumPartials(Low(a) * Low(b), Low(a) * High(b), High(a) * Low(b), High(a) * High(b))

MultiplyWide(a, b) ==
    IF Overflow \in {a, b} THEN Overflow128
    ELSE WithSign((a < 0) # (b < 0), MultiplyMagnitudes(Magnitude(a), Magnitude(b)))

\* CheckedMul128By64: schoolbook multiplication, four halves by two.
HalvesOf(x) == <<Low(x.low), High(x.low), Low(Unsigned(x.high)), High(Unsigned(x.high))>>

AddRow(product, i, digit, by) ==
    LET first == product[i] + digit * Low(by)
        second == product[i + 1] + digit * High(by) + High(first)
    IN  [product EXCEPT ![i] = Low(first), ![i + 1] = Low(second), ![i + 2] = @ + High(second)]

MultiplyHalves(digits, by) ==
    LET first  == AddRow(<<0, 0, 0, 0, 0, 0>>, 1, digits[1], by)
        second == AddRow(first, 2, digits[2], by)
        third  == AddRow(second, 3, digits[3], by)
    IN  AddRow(third, 4, digits[4], by)

FromHalves(p, negative) ==
    IF p[5] # 0 \/ p[6] # 0 \/ p[4] >= Half \div 2 THEN Overflow128
    ELSE WithSign(negative, Int128(Signed(p[3] + p[4] * Half), p[1] + p[2] * Half))

CheckedMul128By64(a, b) ==
    IF Overflowed128(a) \/ b = Overflow THEN Overflow128
    ELSE IF a = Zero128 \/ b = 0 THEN Zero128
    ELSE FromHalves(MultiplyHalves(HalvesOf(WithSign(a.high < 0, a)), Magnitude(b)),
                    (a.high < 0) # (b < 0))
=============================================================================
