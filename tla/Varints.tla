------------------------------ MODULE Varints -------------------------------
(***************************************************************************)
(* Numbers of one to four bytes, seven bits in each but the fourth, lowest *)
(* first: the operands of bytecodes, and FVAR and FVARS data, which have   *)
(* writers of their own.                                                   *)
(***************************************************************************)
EXTENDS Integers, Sequences

CONSTANT Numbers  \* the numbers to write

VARIABLE number   \* [how, value, bytes], or nothing yet

NoNumber == [how |-> "none", value |-> 0, bytes |-> <<>>]
Septet(v, i) == (v \div 128 ^ i) % 128
Septets(v, n) ==
  [i \in 1..n |-> IF i = 4 THEN (v \div 2 ^ 21) % 256 ELSE Septet(v, i - 1) + (IF i < n THEN 128 ELSE 0)]

\* the signed numbers of so many bits
Fits(v, bits) == v >= -(2 ^ (bits - 1)) /\ v < 2 ^ (bits - 1)
\* a slip: a number of seven bits takes one byte though the seventh is its sign
RfvarsOfSeven(v) == Septets(v, IF Fits(v, 8) THEN 1 ELSE IF Fits(v, 14) THEN 2 ELSE IF Fits(v, 21) THEN 3 ELSE 4)
Rfvars(v) == Septets(v, IF Fits(v, 7) THEN 1 ELSE IF Fits(v, 14) THEN 2 ELSE IF Fits(v, 21) THEN 3 ELSE 4)
Rfvar(v) == Septets(v, IF v < 2 ^ 7 THEN 1 ELSE IF v < 2 ^ 14 THEN 2 ELSE IF v < 2 ^ 21 THEN 3 ELSE 4)

\* a signed number of a DAT block is cut to the bits that are left when the
\* sign is repeated, and written as an unsigned one
DatRfvars(v) ==
  LET u == v % 2 ^ 29
      Extends(bits) == u < 2 ^ (bits - 1) \/ u >= 2 ^ 29 - 2 ^ (bits - 1)
  IN  Rfvar(IF Extends(7) THEN u % 2 ^ 7 ELSE IF Extends(14) THEN u % 2 ^ 14 ELSE IF Extends(21) THEN u % 2 ^ 21 ELSE u)

\* what FVAR and FVARS accept: the four high bits of a signed number must be set
FvarAccepted(signed, v) == IF signed THEN v \in -(2 ^ 28)..-1 ELSE v \in 0..(2 ^ 29) - 1
----------------------------------------------------------------------------
WriteNumber(how, v, bytes) == number = NoNumber /\ number' = [how |-> how, value |-> v, bytes |-> bytes]
CompileRfvar == \E v \in Numbers : v \in 0..(2 ^ 29) - 1 /\ WriteNumber("unsigned", v, Rfvar(v))
CompileRfvars == \E v \in Numbers : v \in -(2 ^ 28)..(2 ^ 28) - 1 /\ WriteNumber("signed", v, Rfvars(v))
CompileRfvarDat == \E v \in Numbers : FvarAccepted(FALSE, v) /\ WriteNumber("unsigned", v, Rfvar(v))
CompileRfvarsDat == \E v \in Numbers : FvarAccepted(TRUE, v) /\ WriteNumber("signed", v, DatRfvars(v))

NumbersInit == number = NoNumber
NumbersNext == CompileRfvar \/ CompileRfvars \/ CompileRfvarDat \/ CompileRfvarsDat
NumbersSpec == NumbersInit /\ [][NumbersNext]_number
----------------------------------------------------------------------------
\* RFVAR and RFVARS of the processor (external): a reader finds the end of a number by the bit
\* that says that more follows, and the sign of a signed one in the highest bit it has read
Whole(bs) ==
  /\ Len(bs) \in 1 .. 4
  /\ \A i \in DOMAIN bs : /\ bs[i] \in 0 .. 255
                          /\ i < Len(bs) => bs[i] >= 128
                          /\ i = Len(bs) /\ i < 4 => bs[i] < 128
BitsRead(bs, i) == IF i > Len(bs) THEN 0 ELSE IF i = 4 THEN bs[i] ELSE bs[i] % 128
ValueOf(bs) == BitsRead(bs, 1) + (2 ^ 7 * BitsRead(bs, 2)) + (2 ^ 14 * BitsRead(bs, 3)) + (2 ^ 21 * BitsRead(bs, 4))
BitsOf(bs) == IF Len(bs) = 4 THEN 29 ELSE 7 * Len(bs)
SignedValueOf(bs) == IF ValueOf(bs) >= 2 ^ (BitsOf(bs) - 1) THEN ValueOf(bs) - 2 ^ BitsOf(bs) ELSE ValueOf(bs)

\* A number of variable length reads back as the number that was written, signed or not, at every
\* boundary between one length and the next (spinResolver.ts:9843, 9873, 4497, 4517).
NumbersReadBack ==
  number # NoNumber =>
    /\ Whole(number.bytes)
    /\ number.value = IF number.how = "signed" THEN SignedValueOf(number.bytes) ELSE ValueOf(number.bytes)
=============================================================================
