----------------------------- MODULE MCOperators -----------------------------
(* Each operator on words chosen around the boundaries.                       *)
EXTENDS Operators

VARIABLES task,   \* the operator and its operands
          folded  \* what the compiler makes of them, NotYet before it does

folding == <<task, folded>>

NotYet == [value |-> 0, err |-> "not yet"]
Edges == {0, 1, 2, 3, 6, 7, 8, 9, 15, 16, 31, 63, 64, 85, 100, 126, 127, 128, 129, 130,
          160, 192, 200, 213, 248, 250, 254, 255}
BinaryOps == ShiftOps \cup ArithmeticOps \cup CompareOps
IntegerTasks ==
  [op : UnaryOps, a : Edges, b : {0}, inFloat : {FALSE}]
    \cup [op : BinaryOps, a : Edges, b : Edges, inFloat : {FALSE}]

\* floats of every mantissa and of exponents around one, and denormals
FloatEdges == {f + e * 2 ^ ManBits : f \in 0 .. 2 ^ ManBits - 1, e \in {0, 1, 12, 14, 15, 16, 21}}
Signs(S) == S \cup {Flip(f) : f \in S}
FloatTasks ==
  [op : {"mul", "div", "add", "sub", "fge", "fle", "lt", "ltegt"},
   a : Signs(FloatEdges), b : Signs(FloatEdges), inFloat : {TRUE}]
    \cup [op : {"fsqrt"}, a : FloatEdges, b : {0}, inFloat : {TRUE}]

NothingFolded == folded = NotYet
Conversion == [op : {"float"}, a : Words, b : {0}, inFloat : {FALSE}]
              \cup [op : {"trunc", "round"}, a : Signs(FloatEdges \cup {80, 81, 85, 89, 91, 93}),
                    b : {0}, inFloat : {TRUE}]
OperatorsInit == task \in IntegerTasks \cup FloatTasks \cup Conversion /\ NothingFolded

FoldConversion == /\ folded = NotYet
                  /\ task.op \in Conversions
                  /\ folded' = Convert(task.op, task.a)
                  /\ UNCHANGED task
Fold == /\ folded = NotYet
        /\ task.op \notin Conversions
        /\ folded' = ResolveOperation(task.op, task.a, task.b, task.inFloat)
        /\ UNCHANGED task
FoldNext == Fold \/ FoldConversion
----------------------------------------------------------------------------
Sign(n) == IF n > 0 THEN 1 ELSE IF n < 0 THEN -1 ELSE 0
Greatest(x, y) == IF x < y THEN y ELSE x
Least(x, y) == IF x < y THEN x ELSE y

\* what an operator means on the integers that two's complement words stand for
Means(op, a, b, r) ==
  LET x == Signed(a)  y == Signed(b)  z == Signed(r)
      n == b % Width
      low == a % 2 ^ (n + 1)
  IN  CASE op = "neg" -> z = IF x = -SignBit THEN x ELSE -x
        [] op = "abs" -> r = Abs(x)
        [] op = "encod" -> IF a = 0 THEN r = 0 ELSE 2 ^ r <= a /\ a < 2 ^ (r + 1)
        [] op = "bmask" -> r = 2 ^ ((a % Width) + 1) - 1
        [] op = "sqrt" -> r * r <= a /\ a < (r + 1) * (r + 1)
        [] op = "sar" -> z = x \div 2 ^ n
        [] op = "ror" -> \A i \in 0 .. Width - 1 : Bit(r, i) = Bit(a, (i + n) % Width)
        [] op = "rol" -> \A i \in 0 .. Width - 1 : Bit(r, i) = Bit(a, (i - n) % Width)
        [] op = "rev" -> \A i \in 0 .. Width - 1 :
                           Bit(r, i) = IF i <= n THEN Bit(a, n - i) ELSE 0
        [] op = "zerox" -> r = low
        [] op = "signx" -> z = IF low >= 2 ^ n THEN low - 2 ^ (n + 1) ELSE low
        [] op \in {"div", "rem"} /\ x = -SignBit /\ y = -1 ->
             r = IF op = "div" THEN SignBit ELSE 0
        [] op \in {"div", "rem"} ->
             LET rest == IF op = "rem" THEN z ELSE x - z * y
             IN  /\ Abs(rest) < Abs(y) /\ rest \in {0} \cup {Sign(x) * k : k \in 1 .. Abs(rest)}
                 /\ (x - rest) % Abs(y) = 0
        [] op = "frac" -> r * b <= a * 2 ^ Width /\ a * 2 ^ Width < (r + 1) * b
        [] op = "scas" /\ Abs(x * y) < 2 ^ (2 * Width - 3) ->
             z * 2 ^ (Width - 2) <= x * y /\ x * y < (z + 1) * 2 ^ (Width - 2)
        [] op = "fge" -> z = Greatest(x, y)
        [] op = "fle" -> z = Least(x, y)
        [] op = "ltegt" -> z = Sign(x - y)
        [] op \in {"lt", "gt", "lte", "gte"} ->
             (r # 0) = (CASE op = "lt" -> x < y [] op = "gt" -> y < x
                          [] op = "lte" -> ~(y < x) [] op = "gte" -> ~(x < y))
        [] OTHER -> TRUE

\* A folded operator gives the value its operands have as two's complement
\* numbers, at the least and the greatest number and at every shift
\* (spinResolver.ts:11336): a constant operand changes no result.
FoldsToMeaning ==
  folded.err = "" /\ ~task.inFloat => Means(task.op, task.a, task.b, folded.value)

\* the number a packed float stands for, in units of the least denormal
FloatValue(p) ==
  LET e == (p \div 2 ^ ManBits) % 2 ^ ExpBits
      f == p % 2 ^ ManBits
      m == IF e = 0 THEN f ELSE (2 ^ ManBits + f) * 2 ^ (e - 1)
  IN  IF p >= SignBit THEN -m ELSE m

\* The order of floats is that of the numbers, for numbers whose difference is
\* a denormal as well, although it is the sign of a rounded difference
\* (pnutFloat.ts:295, 313).
OrdersFloats ==
  folded.err = "" /\ task.inFloat =>
    LET x == FloatValue(task.a)  y == FloatValue(task.b)
    IN  CASE task.op = "lt" -> (folded.value # 0) = (x < y)
          [] task.op = "ltegt" -> Sign(FloatValue(folded.value)) = Sign(x - y)
          [] task.op = "fge" -> FloatValue(folded.value) = Greatest(x, y)
          [] task.op = "fle" -> FloatValue(folded.value) = Least(x, y)
          [] OTHER -> TRUE

Exponent(p) == (p \div 2 ^ ManBits) % 2 ^ ExpBits
Mantissa(p) == 2 ^ ManBits + (p % 2 ^ ManBits)
\* the neighbours of a float, and those of its mantissa in half units
Beside(p) == IF p % SignBit = 0 THEN {1, Flip(1)} ELSE {p - 1, p + 1}
HalfBelow(p) == 2 * Mantissa(p) - (IF p % 2 ^ ManBits = 0 THEN 1 ELSE 2)
HalfAbove(p) == 2 * Mantissa(p) + 2

\* No float lies between a folded sum, product, quotient or root and the exact
\* one, although the operands were cut off when they were aligned
\* (pnutFloat.ts:208, 247, 257).
RoundsFaithfully ==
  folded.err = "" /\ task.inFloat =>
    LET r == folded.value
        a == task.a
        b == IF task.op = "sub" THEN Flip(task.b) ELSE task.b
        normal == \A p \in {a, b, r} : Exponent(p) > 0
        around(x, unit) == HalfBelow(r) * unit < 2 * x /\ 2 * x < HalfAbove(r) * unit
    IN  CASE task.op \in {"add", "sub"} ->
               LET x == FloatValue(a) + FloatValue(b)
               IN  \E p, q \in Beside(r) : FloatValue(p) < x /\ x < FloatValue(q)
          [] task.op = "mul" /\ normal ->
               around(Mantissa(a) * Mantissa(b),
                      2 ^ (ManBits + Exponent(r) - Exponent(a) - Exponent(b) + Bias))
          [] task.op = "div" /\ normal ->
               around(Mantissa(a) * 2 ^ (ManBits + 1),
                      Mantissa(b) * 2 ^ (1 + Exponent(r) - Exponent(a) + Exponent(b) - Bias))
          [] task.op = "fsqrt" /\ Exponent(a) > 0 ->
               LET e == Exponent(a) - Bias
                   unit == 2 ^ (Exponent(r) - Bias - (e \div 2))
                   x == Mantissa(a) * 2 ^ (ManBits + (e % 2))
               IN  /\ HalfBelow(r) * unit * HalfBelow(r) * unit < 4 * x
                   /\ 4 * x < HalfAbove(r) * unit * HalfAbove(r) * unit
          [] OTHER -> TRUE

\* FLOAT() gives a float next to the integer, TRUNC() and ROUND() the integer
\* toward zero and the nearest, half away from zero; only what does not fit
\* overflows (pnutFloat.ts:488, 510).
ConvertsExactly ==
  task.op \in Conversions /\ folded # NotYet =>
    LET one == 2 ^ (Bias - 1 + ManBits)
        x == FloatValue(task.a)
        n == IF task.op = "trunc" THEN Abs(x) \div one ELSE (2 * Abs(x) + one) \div (2 * one)
        fits == Exponent(task.a) <= Width - 2 + Bias
    IN  IF task.op = "float"
        THEN \E p, q \in Beside(folded.value) \cup {folded.value} :
               /\ FloatValue(p) <= Signed(task.a) * one /\ Signed(task.a) * one <= FloatValue(q)
               /\ {p, q} # Beside(folded.value) /\ folded.err = ""
        ELSE /\ (folded.err = "") = fits
             /\ fits => Signed(folded.value) = (IF x < 0 THEN -n ELSE n)
=============================================================================
