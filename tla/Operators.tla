------------------------------ MODULE Operators ------------------------------
(***************************************************************************)
(* resolveOperation: what the compiler computes when both operands of an   *)
(* operator are known.  Words are Width bits wide (32 in the code); in a   *)
(* floating-point expression some operators work on packed floats.  The    *)
(* operators of the CORDIC unit (QLOG, LOG, EXP, POW ...) are left out.    *)
(***************************************************************************)
EXTENDS Floats, Bitwise, FiniteSets

Mask == 2 ^ Width - 1
Wrap(n) == n % 2 ^ Width
\* signExtendFrom32Bit
Signed(a) == IF a >= SignBit THEN a - 2 ^ Width ELSE a
Truth(b) == IF b THEN Mask ELSE 0
FloatTruth(b) == IF b THEN Float(1) ELSE 0
Bit(a, i) == (a \div 2 ^ i) % 2
Abs(n) == IF n < 0 THEN -n ELSE n

\* the quotient of BigInt division is rounded toward zero
Quotient(n, d) == (IF (n < 0) = (d < 0) THEN 1 ELSE -1) * (Abs(n) \div Abs(d))
Remainder(n, d) == (IF n < 0 THEN -1 ELSE 1) * (Abs(n) % Abs(d))

Value(v) == [value |-> v, err |-> ""]
Error(e) == [value |-> 0, err |-> e]
FloatResult(r) == IF r.carry THEN Error("overflow") ELSE Value(r.value)
DivideByZero == Error("divide by zero")
----------------------------------------------------------------------------
UnaryOps == {"bitnot", "neg", "fneg", "abs", "fabs", "encod", "decod", "bmask", "ones",
             "sqrt", "fsqrt", "lognot"}
Unary(op, a, inFloat) ==
  LET n == a % Width
      greatest(S) == IF S = {} THEN 0 ELSE CHOOSE i \in S : \A j \in S : j <= i
  IN  CASE op = "bitnot" -> Value(Mask - a)
        [] op = "fneg" \/ (op = "neg" /\ inFloat) -> Value(Flip(a))
        [] op = "neg" -> Value(Wrap(Mask - a + 1))
        [] op = "fabs" \/ (op = "abs" /\ inFloat) -> Value(a % SignBit)
        [] op = "abs" -> Value(IF a >= SignBit THEN Wrap(Mask - a + 1) ELSE a)
        [] op = "encod" -> Value(greatest({i \in 0 .. Width - 1 : Bit(a, i) = 1}))
        [] op = "decod" -> Value(2 ^ n)
        [] op = "bmask" -> Value(Mask \div 2 ^ (Width - 1 - n))
        [] op = "ones" -> Value(Cardinality({i \in 0 .. Width - 1 : Bit(a, i) = 1}))
        [] op = "sqrt" -> Value(greatest({r \in 0 .. 2 ^ (Width \div 2) - 1 : r * r <= a}))
        [] op = "fsqrt" -> FloatResult(Sqrt(a))
        [] op = "lognot" -> Value(Truth(a = 0))

ShiftOps == {"shr", "shl", "sar", "ror", "rol", "rev", "zerox", "signx"}
RECURSIVE Reversed(_, _, _)
Reversed(a, n, r) == IF n < 0 THEN r ELSE Reversed(a \div 2, n - 1, (r * 2) + (a % 2))

ShiftOperation(op, a, b) ==
  LET n == b % Width
      double == (a * 2 ^ Width) + a
      low == a & (Mask \div 2 ^ (Width - 1 - n))
  IN  CASE op = "shr" -> a \div 2 ^ n
        [] op = "shl" -> Wrap(a * 2 ^ n)
        [] op = "sar" -> Wrap((IF a >= SignBit THEN (Mask * 2 ^ Width) + a ELSE a) \div 2 ^ n)
        [] op = "ror" -> Wrap(double \div 2 ^ n)
        [] op = "rol" -> Wrap(double \div 2 ^ (Width - n))
        [] op = "rev" -> Reversed(a, n, 0)
        [] op = "zerox" -> low
        [] op = "signx" -> IF Bit(a, n) = 1 THEN low | Wrap((Mask - 1) * 2 ^ n) ELSE low

ArithmeticOps == {"bitand", "bitxor", "bitor", "mul", "fmul", "div", "fdiv", "divu", "rem",
                  "remu", "sca", "scas", "frac", "add", "fadd", "sub", "fsub", "fge", "fle",
                  "addbits", "addpins"}
Arithmetic(op, a, b, inFloat) ==
  LET float(f, o) == op = f \/ (op = o /\ inFloat)
      x == Signed(a)
      y == Signed(b)
  IN  CASE float("fmul", "mul") -> FloatResult(Mul(a, b))
        [] float("fdiv", "div") -> FloatResult(Div(a, b))
        [] float("fadd", "add") -> FloatResult(Add(a, b))
        [] float("fsub", "sub") -> FloatResult(Sub(a, b))
        [] op = "fge" /\ inFloat -> FloatResult(Fge(a, b))
        [] op = "fle" /\ inFloat -> FloatResult(Fle(a, b))
        [] op \in {"div", "divu", "rem", "remu", "frac"} /\ b = 0 -> DivideByZero
        [] op = "bitand" -> Value(a & b)
        [] op = "bitxor" -> Value(a ^^ b)
        [] op = "bitor" -> Value(a | b)
        [] op = "mul" -> Value(Wrap(a * b))
        [] op = "div" -> Value(Wrap(Quotient(x, y)))
        [] op = "divu" -> Value(a \div b)
        [] op = "rem" -> Value(Wrap(Remainder(x, y)))
        [] op = "remu" -> Value(a % b)
        [] op = "sca" -> Value((a * b) \div 2 ^ Width)
        [] op = "scas" -> Value(Wrap((x * y) \div 2 ^ (Width - 2)))
        [] op = "frac" -> LET q == (a * 2 ^ Width) \div b
                          IN  IF q > Mask THEN Error("division overflow") ELSE Value(q)
        [] op = "add" -> Value(Wrap(a + b))
        [] op = "sub" -> Value(Wrap(a - b))
        [] op = "fge" -> Value(IF x < y THEN b ELSE a)
        [] op = "fle" -> Value(IF x > y THEN b ELSE a)
        [] op = "addbits" -> Value((a % Width) + ((b % Width) * Width))
        [] op = "addpins" -> Value((a % (2 * Width)) + ((b % Width) * (2 * Width)))

SignedCompares == {"lt", "lte", "e", "ne", "gte", "gt"}
FloatCompares == {"flt", "flte", "fe", "fne", "fgte", "fgt"}
UnsignedCompares == {"ltu", "lteu", "gteu", "gtu"}
CompareOps == SignedCompares \cup FloatCompares \cup UnsignedCompares \cup {"ltegt"}
                \cup {"logand", "logxor", "logor"}

Holds(op, d) == CASE op \in {"lt", "flt", "ltu"} -> d < 0
                  [] op \in {"lte", "flte", "lteu"} -> d <= 0
                  [] op \in {"e", "fe"} -> d = 0
                  [] op \in {"ne", "fne"} -> d # 0
                  [] op \in {"gte", "fgte", "gteu"} -> d >= 0
                  [] op \in {"gt", "fgt", "gtu"} -> d > 0

Compared(op, a, b, inFloat, d, c) ==
  CASE (op \in FloatCompares \/ (inFloat /\ op \in SignedCompares \cup {"ltegt"})) /\ c.carry -> Error("overflow")
    [] op \in FloatCompares -> Value(Truth(Holds(op, c.difference)))
    [] op \in SignedCompares /\ inFloat -> Value(FloatTruth(Holds(op, c.difference)))
    [] op \in SignedCompares -> Value(Truth(Holds(op, d)))
    [] op \in UnsignedCompares -> Value(Truth(Holds(op, a - b)))
    [] op = "ltegt" /\ inFloat -> Value(CASE c.difference = 0 -> 0
                                          [] c.difference < 0 -> Flip(Float(1))
                                          [] OTHER -> Float(1))
    [] op = "ltegt" -> Value(CASE d = 0 -> 0 [] d < 0 -> Mask [] OTHER -> 1)
    [] op = "logand" -> Value(Truth(a # 0 /\ b # 0))
    [] op = "logxor" -> Value(Truth((a = 0) # (b = 0)))
    [] op = "logor" -> Value(Truth(a # 0 \/ b # 0))
Comparison(op, a, b, inFloat) == Compared(op, a, b, inFloat, Signed(a) - Signed(b), Cmp(a, b))

\* FLOAT(), TRUNC() and ROUND() of a known operand
Conversions == {"float", "trunc", "round"}
Convert(op, a) ==
  CASE op = "float" -> Value(Float(a))
    [] op = "trunc" -> FloatResult(Trunc(a))
    [] op = "round" -> FloatResult(Round(a))

ResolveOperation(op, a, b, inFloat) ==
  CASE op \in UnaryOps -> Unary(op, a, inFloat)
    [] op \in ShiftOps -> Value(ShiftOperation(op, a, b))
    [] op \in ArithmeticOps -> Arithmetic(op, a, b, inFloat)
    [] op \in CompareOps -> Comparison(op, a, b, inFloat)
=============================================================================
