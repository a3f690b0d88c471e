------------------------------- MODULE Floats -------------------------------
(***************************************************************************)
(* The floating-point package the compiler folds constants with.  A packed *)
(* float is a word of a sign, ExpBits exponent bits and ManBits mantissa   *)
(* bits (8 and 23 in the code), an unpacked one holds its mantissa in a    *)
(* register of the same width, with the leading one at bit Width - 3.      *)
(* There are no infinities: an exponent of all ones is an ordinary one in  *)
(* an operand, and an overflow in a result.                                *)
(***************************************************************************)
EXTENDS Integers

CONSTANTS ExpBits, ManBits

FloatsAssumption == ExpBits \in Nat /\ ExpBits >= 5 /\ ManBits \in Nat \ {0}

Width == 1 + ExpBits + ManBits
Bias == 2 ^ (ExpBits - 1) - 1
Words == 0 .. 2 ^ Width - 1
SignBit == 2 ^ (Width - 1)

\* the number of zero bits above the leading one of a field of n bits
LeadingZeros(v, n) == n - 1 - CHOOSE k \in 0 .. n - 1 : 2 ^ k <= v /\ v < 2 ^ (k + 1)
----------------------------------------------------------------------------
Justified(m) == m * 2 ^ (Width - 3 - ManBits)
Unpack(p) ==
  LET e == (p \div 2 ^ ManBits) % 2 ^ ExpBits
      f == p % 2 ^ ManBits
      k == LeadingZeros(f, ManBits)
  IN  [sign |-> p \div SignBit,
       exp |-> IF e = 0 /\ f # 0 THEN -k ELSE e,
       man |-> IF e # 0 THEN Justified(2 ^ ManBits + f)
               ELSE IF f = 0 THEN 0 ELSE Justified(f * 2 ^ (k + 1))]

\* normalise, round to the nearest mantissa, shift a denormal into place
Fields(sign, e, frac) ==
  [value |-> sign * SignBit +
             (IF e > 0 THEN ((e % 2 ^ ExpBits) * 2 ^ ManBits) + (frac \div 2 ^ (Width - ManBits))
              ELSE (((frac \div 2) + SignBit) \div 2 ^ (IF -e > Width THEN Width ELSE -e))
                     \div 2 ^ (Width - ManBits)),
   carry |-> e >= 2 ^ ExpBits - 1]
Rounded(sign, exp, sum) == Fields(sign, exp + (sum \div 2 ^ Width), sum % 2 ^ Width)
Normalised(sign, exp, man, k) ==
  Rounded(sign, exp + 2 - k, ((man * 2 ^ (k + 1)) % 2 ^ Width) + 2 ^ (Width - ManBits - 1))
Pack(sign, exp, man) ==
  IF man = 0 THEN [value |-> 0, carry |-> FALSE] ELSE Normalised(sign, exp, man, LeadingZeros(man, Width))

\* a slip: the smaller operand is dropped while it still counts
AlignedEarly(m, d) == IF d >= ManBits THEN 0 ELSE m \div 2 ^ d
\* the operand with the smaller exponent is shifted down, its sign kept, and
\* dropped when it lies below all the bits of the other
Aligned(m, d) == IF d > ManBits + 1 THEN 0 ELSE m \div 2 ^ d

SignedMantissa(u) == IF u.sign = 1 THEN -u.man ELSE u.man
PackSigned(exp, sum) == Pack(IF sum < 0 THEN 1 ELSE 0, exp, IF sum < 0 THEN -sum ELSE sum)
SumOf(hi, lo) ==
  PackSigned(hi.exp, SignedMantissa(hi) + Aligned(SignedMantissa(lo), hi.exp - lo.exp))
AddUnpacked(ua, ub) == SumOf(IF ua.exp < ub.exp THEN ub ELSE ua, IF ua.exp < ub.exp THEN ua ELSE ub)
Add(a, b) == AddUnpacked(Unpack(a), Unpack(b))

Flip(p) == (p + SignBit) % 2 ^ Width
Sub(a, b) == Add(a, Flip(b))

Product(ua, ub) ==
  Pack((ua.sign + ub.sign) % 2, ua.exp + ub.exp - Bias, ((ua.man * ub.man) \div 2 ^ Width) * 8)
Mul(a, b) == Product(Unpack(a), Unpack(b))

\* Width - 2 steps of a restoring division
DivUnpacked(ua, ub) ==
  IF ub.man = 0 THEN [value |-> 0, carry |-> TRUE]
  ELSE Pack((ua.sign + ub.sign) % 2, ua.exp - ub.exp + Bias, (ua.man * 2 ^ (Width - 3)) \div ub.man)
Div(a, b) == DivUnpacked(Unpack(a), Unpack(b))

Difference(r) ==
  [difference |-> IF r.carry THEN 0 ELSE IF r.value >= SignBit THEN r.value - 2 ^ Width ELSE r.value,
   carry |-> r.carry]
Cmp(a, b) == Difference(Sub(a, b))

FloatGe(a, b, c) == [value |-> IF c.carry \/ c.difference >= 0 THEN a ELSE b, carry |-> c.carry]
FloatLe(a, b, c) == [value |-> IF c.carry \/ c.difference <= 0 THEN a ELSE b, carry |-> c.carry]
Fge(a, b) == FloatGe(a, b, Cmp(a, b))
Fle(a, b) == FloatLe(a, b, Cmp(a, b))

\* the greatest register whose square does not exceed the mantissa
RootOf(m) == CHOOSE r \in Words : /\ (r * r) \div 2 ^ Width <= m
                                  /\ \A s \in Words : (s * s) \div 2 ^ Width <= m => s <= r
SqrtUnpacked(u, e) ==
  Pack(0, (e \div 2) + Bias - 1,
       IF u.man = 0 THEN 0 ELSE RootOf(IF e % 2 = 0 THEN u.man \div 2 ELSE u.man))
Sqrt(a) ==
  IF a > SignBit THEN [value |-> 0, carry |-> TRUE] ELSE SqrtUnpacked(Unpack(a), Unpack(a).exp - Bias)

Float(i) ==
  LET n == IF i >= SignBit THEN 2 ^ Width - i ELSE i
      k == LeadingZeros(n, Width)
  IN  IF i = 0 THEN 0
      ELSE Pack(IF i >= SignBit THEN 1 ELSE 0, Width - 1 + Bias - k, (n * 2 ^ k) \div 4).value

\* TRUNC and ROUND: a half rounds away from zero
WholePart(u, down, bit) ==
  CASE u.exp > Bias - 1 -> (((u.man * 4) \div 2 ^ down) + bit) \div 2
    [] u.exp = Bias - 1 -> bit
    [] OTHER -> 0
SignedWord(sign, n) == [value |-> IF sign = 1 /\ n # 0 THEN 2 ^ Width - n ELSE n, carry |-> FALSE]
ToInt(u, down, bit) ==
  IF down < 0 THEN [value |-> 0, carry |-> TRUE] ELSE SignedWord(u.sign, WholePart(u, down, bit))
Trunc(a) == ToInt(Unpack(a), Width - 2 + Bias - Unpack(a).exp, 0)
Round(a) == ToInt(Unpack(a), Width - 2 + Bias - Unpack(a).exp, 1)
=============================================================================
