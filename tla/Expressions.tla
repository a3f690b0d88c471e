----------------------------- MODULE Expressions -----------------------------
(***************************************************************************)
(* The two compilers of expressions.  resolveExp computes the value of a   *)
(* constant expression of a CON or DAT block, in integer or floating-point *)
(* mode; compileExpression of a method first tries resolveExp and turns    *)
(* the expression into bytecode when it meets something that is not a      *)
(* constant.  Both walk the same elements, step back over the element they *)
(* read too many, and take OBJ.CONSTANT, three elements, for one.          *)
(***************************************************************************)
EXTENDS Operators, Sequences, SequencesExt

VARIABLES elements,  \* the expressions: a sequence of sequences of elements
          uses,      \* where each stands: "int", "any" (CON, DAT) or "method"
          mathMode,  \* "unknown", "int" or "float"; it outlives an expression
          results    \* what became of the expressions compiled so far

\* precedence, kind, works on floats; the operators the instances use
Ops ==
  LET op(p, k, f) == [prec |-> p, kind |-> k, float |-> f]
  IN  [bitnot |-> op(0, "unary", FALSE), neg |-> op(0, "unary", TRUE),
       shl |-> op(1, "binary", FALSE), mul |-> op(5, "binary", TRUE),
       add |-> op(6, "binary", TRUE), sub |-> op(6, "binary", TRUE),
       lt |-> op(9, "binary", TRUE), lognot |-> op(10, "unary", FALSE),
       logand |-> op(11, "binary", FALSE), ternary |-> op(14, "ternary", TRUE)]
TernaryPrecedence == 14
LowestPrecedence == TernaryPrecedence + 1

End == [t |-> "end"]
NoElement == [t |-> "none"]
IsOp(el) == el.t = "op"
IsKind(el, kind) == IsOp(el) /\ Ops[el.op].kind = kind
IsConstant(el) == el.t \in {"con_int", "con_float"}
----------------------------------------------------------------------------
(* The state of one expression: the elements and the position in them, the *)
(* element in hand, the dots marked as part of a constant, the stack of    *)
(* numbers, the bytecode.                                                  *)

Heading == <<[t |-> "symbol"], [t |-> "equal"]>>   \* what the expression stands behind
Fresh(els, use, mode) ==
  [els |-> Heading \o els, next |-> Len(Heading) + 1, cur |-> NoElement, marks |-> {}, use |-> use, mode |-> mode,
   stack |-> <<>>, unresolved |-> FALSE, err |-> "", code |-> <<>>]

Fail(s, e) == IF s.err = "" THEN [s EXCEPT !.err = e] ELSE s
PushNumber(s, v) == [s EXCEPT !.stack = Append(@, v)]
PopNumbers(s, n) == [s EXCEPT !.stack = SubSeq(@, 1, Len(@) - n)]
Number(s, n) == s.stack[Len(s.stack) - n]
Emit(s, item) == [s EXCEPT !.code = Append(@, item)]

\* behind the last element there is only the end of the file
At(s, i) == IF i > Len(s.els) THEN End ELSE s.els[i]
GetElement(s) == [s EXCEPT !.cur = At(s, s.next), !.next = IF @ > Len(s.els) THEN @ ELSE @ + 1]
StepBack(s) ==
  LET i == IF s.next > 3 THEN s.next - 2 ELSE 1
  IN  [s EXCEPT !.next = i + 1, !.cur = At(s, i)]
BackElement(s) ==
  LET b == StepBack(s)
  IN  IF b.next - 1 \in b.marks THEN StepBack(StepBack([b EXCEPT !.marks = @ \ {b.next - 1}]))
      ELSE b

\* the three elements of an object's constant become one; those of a call are
\* left where they are
GetElementObj(s) ==
  LET o == GetElement(s)
      d == GetElement(o)
      n == GetElement(d)
  IN  CASE o.cur.t # "obj" -> o
        [] d.cur.t # "dot" \/ n.cur.t = "pub" -> o
        [] OTHER -> [n EXCEPT !.marks = @ \cup {d.next - 1}]

Get(s, t) == LET g == GetElement(s)
             IN  IF g.cur.t = t THEN g ELSE Fail(g, "expected " \o t)

RECURSIVE SkipPlus(_)
SkipPlus(s) == LET g == GetElementObj(s)
               IN  IF g.cur = [t |-> "op", op |-> "add"] THEN SkipPlus(g) ELSE g

SubToNeg(s) == IF s.cur = [t |-> "op", op |-> "sub"] THEN [s EXCEPT !.cur.op = "neg"] ELSE s
Negated(el) == IF el.t = "con_int" THEN Wrap(Mask - el.v + 1) ELSE Flip(el.v)
----------------------------------------------------------------------------
(* Constant expressions.                                                   *)

CheckMode(s, mode) ==
  IF s.mode \in {"unknown", mode} THEN [s EXCEPT !.mode = mode] ELSE Fail(s, "mixed")
CheckDualModeOp(s) ==
  IF s.use = "method" \/ Ops[s.cur.op].float THEN s ELSE CheckMode(s, "int")

Found(s, v) == [found |-> TRUE, s |-> s, v |-> v]
NotFound(s) == [found |-> FALSE, s |-> s, v |-> 0]
ModeOf(el) == IF el.t = "con_int" THEN "int" ELSE "float"

\* in a method; "-" and a constant are one constant
IsSub(s) == s.cur = [t |-> "op", op |-> "sub"]
NegatedConstant(g) ==
  IF IsConstant(g.cur) THEN Found(g, Negated(g.cur)) ELSE NotFound(GetElement(BackElement(BackElement(g))))
Spin2Constant(s) ==
  CASE IsSub(s) -> NegatedConstant(GetElementObj(SubToNeg(s)))
    [] ~IsSub(s) /\ IsConstant(s.cur) -> Found(s, s.cur.v)
    [] OTHER -> NotFound(s)

\* FLOAT( and the like: the operand is in the other mode
RECURSIVE ResolveExp(_, _)
Converted(s, c) == Found(Fail(PopNumbers(s, 1), c.err), c.value)
ConvertNumber(s, op) == IF s.err # "" THEN Found(s, 0) ELSE Converted(s, Convert(op, Number(s, 0)))
Operand(s, inner) == ResolveExp([s EXCEPT !.mode = inner], LowestPrecedence)
ConversionConstant(s) ==
  LET outer == IF s.cur.op = "float" THEN "float" ELSE "int"
      inner == IF s.cur.op = "float" THEN "int" ELSE "float"
      arg == Operand(Get(CheckMode(s, outer), "left"), inner)
  IN  ConvertNumber(Get([arg EXCEPT !.mode = outer], "right"), s.cur.op)

NegatedDatConstant(g) ==
  IF IsConstant(g.cur) THEN Found(CheckMode(g, ModeOf(g.cur)), Negated(g.cur)) ELSE NotFound(BackElement(g))
DatConstant(s) ==
  CASE IsSub(s) -> NegatedDatConstant(GetElementObj(SubToNeg(s)))
    [] ~IsSub(s) /\ IsConstant(s.cur) -> Found(CheckMode(s, ModeOf(s.cur)), s.cur.v)
    [] s.cur.t = "convert" -> ConversionConstant(s)
    [] s.cur.t = "undefined" -> Found([s EXCEPT !.unresolved = TRUE], 0)
    [] OTHER -> NotFound(s)

GetConstant(s) == IF s.use = "method" THEN Spin2Constant(s) ELSE DatConstant(s)

\* replace the numbers of the operands by that of the operation
Choice(s) == Value(IF Number(s, 2) # 0 THEN Number(s, 1) ELSE Number(s, 0))
Replaced(s, n, r) == PushNumber(PopNumbers(Fail(s, r.err), n), r.value)
Perform(s, n, op) ==
  CASE s.err # "" -> s
    [] s.err = "" /\ s.unresolved -> PushNumber(PopNumbers(s, n), 0)
    [] OTHER -> Replaced(s, n, IF op = "ternary" THEN Choice(s)
                               ELSE ResolveOperation(op, Number(s, n - 1), IF n = 1 THEN 0 ELSE Number(s, 0),
                                                     s.mode = "float"))

ResolveNoConstant(u) ==
  CASE IsKind(u.cur, "unary") -> Perform(ResolveExp(CheckDualModeOp(u), Ops[u.cur.op].prec), 1, u.cur.op)
    [] u.cur.t = "left" -> Get(ResolveExp(u, LowestPrecedence), "right")
    [] OTHER -> Fail(u, "not a constant")
ResolveFrom(c) == IF c.found THEN PushNumber(c.s, c.v) ELSE ResolveNoConstant(SubToNeg(c.s))
ResolveTerm(s) == ResolveFrom(GetConstant(SkipPlus(s)))

\* behind the operator in hand
RECURSIVE ResolveOperators(_, _)
ResolveChoice(g) ==
  LET then == ResolveExp(g, LowestPrecedence)
  IN  Perform(ResolveExp(Get(then, "colon"), LowestPrecedence), 3, "ternary")
ResolveBinary(b, prec, op) ==
  IF prec = Ops[op].prec THEN ResolveOperators(Perform(ResolveExp(b, prec), 2, op), prec)
  ELSE BackElement(b)
ResolveOperator(g, prec) ==
  CASE IsKind(g.cur, "ternary") /\ prec = TernaryPrecedence -> ResolveChoice(g)
    [] IsKind(g.cur, "binary") -> ResolveBinary(CheckDualModeOp(g), prec, g.cur.op)
    [] OTHER -> BackElement(g)
ResolveOperators(s, prec) == IF s.err # "" THEN s ELSE ResolveOperator(GetElementObj(s), prec)

ResolveExp(s, precedence) ==
  CASE s.err # "" -> s
    [] s.err = "" /\ precedence = 0 -> ResolveTerm(s)
    [] OTHER -> ResolveOperators(ResolveExp(s, precedence - 1), precedence - 1)

\* getValue, with a symbol that may still be defined
GetValue(els, use) ==
  ResolveExp(Fresh(els, use, IF use = "int" THEN "int" ELSE "unknown"), LowestPrecedence)
----------------------------------------------------------------------------
(* Bytecode.                                                               *)

MinLong == -2147483647 - 1
Inverted(v) == -1 - v
Decod(k) == IF k = 31 THEN MinLong ELSE 2 ^ k
Bmask(k) == IF k = 31 THEN -1 ELSE (Decod(k) - 1) + Decod(k)

\* the shortest instruction for a signed 32-bit constant
ConstantWasDecoded(v) ==
  {k \in 0 .. 31 : v \in {Decod(k), Inverted(Decod(k)), Bmask(k), Inverted(Bmask(k))}}
DecodedForm(v, k) ==
  <<CASE v = Decod(k) -> "con_rfbyte_decod"
      [] v = Inverted(Decod(k)) -> "con_rfbyte_decod_not"
      [] v = Bmask(k) -> "con_rfbyte_bmask"
      [] OTHER -> "con_rfbyte_bmask_not", k>>
CompileConstant(v) ==
  CASE v \in -1 .. 14 -> <<"con_n1_14", v + 1>>
    [] v \in 15 .. 255 -> <<"con_rfbyte", v>>
    [] v \in -256 .. -2 -> <<"con_rfbyte_not", Inverted(v)>>
    [] OTHER ->
         LET ks == ConstantWasDecoded(v)
         IN  CASE ks # {} -> DecodedForm(v, CHOOSE k \in ks : \A j \in ks : k <= j)
               [] ks = {} /\ v \in 256 .. 65535 -> <<"con_rfword", v>>
               [] ks = {} /\ v \in -65536 .. -257 -> <<"con_rfword_not", Inverted(v)>>
               [] OTHER -> <<"con_rflong", v>>

\* a number that is wider than the words of an instance stands for itself
SignExtended(v) == IF v \in 0 .. Mask THEN Signed(v) ELSE v
EnterConstant(s, v) == Emit(s, CompileConstant(SignExtended(v)))
EnterExpOp(s, op) == Emit(s, <<"op", op>>)

\* "-" and a constant become one constant, but not "-" and an object's
NegConToCon(s) ==
  LET g == GetElement(s)
  IN  CASE ~(s.cur = [t |-> "op", op |-> "sub"]) -> s
        [] s.cur = [t |-> "op", op |-> "sub"] /\ IsConstant(g.cur) ->
             [g EXCEPT !.cur.v = Negated(g.cur)]
        [] OTHER -> BackElement(g)

\* a variable is read and a method called; the rest of the term is skipped
CompileTerm(s) ==
  CASE IsConstant(s.cur) -> EnterConstant(s, s.cur.v)
    [] s.cur.t = "var" -> Emit(s, <<"read", "x">>)
    [] s.cur.t = "obj" -> Emit(GetElement(Get(s, "dot")), <<"call", "m">>)
    [] OTHER -> Fail(s, "expected an expression term")

RECURSIVE CompileSubExpression(_, _)
SubTermAt(t) ==
  CASE IsKind(t.cur, "unary") -> EnterExpOp(CompileSubExpression(t, Ops[t.cur.op].prec), t.cur.op)
    [] t.cur.t = "left" -> Get(CompileSubExpression(t, LowestPrecedence), "right")
    [] OTHER -> CompileTerm(t)
SubTerm(s) == SubTermAt(SubToNeg(NegConToCon(SkipPlus(s))))

RECURSIVE SubOperators(_, _)
SubChoice(g) ==
  LET then == CompileSubExpression(g, LowestPrecedence)
  IN  EnterExpOp(CompileSubExpression(Get(then, "colon"), LowestPrecedence), "ternary")
SubOperator(g, prec) ==
  CASE IsKind(g.cur, "ternary") /\ prec = TernaryPrecedence -> SubChoice(g)
    [] IsKind(g.cur, "binary") /\ prec = Ops[g.cur.op].prec ->
         SubOperators(EnterExpOp(CompileSubExpression(g, prec), g.cur.op), prec)
    [] OTHER -> BackElement(g)
SubOperators(s, prec) == IF s.err # "" THEN s ELSE SubOperator(GetElement(s), prec)

CompileSubExpression(s, precedence) ==
  CASE s.err # "" -> s
    [] s.err = "" /\ precedence = 0 -> SubTerm(s)
    [] OTHER -> SubOperators(CompileSubExpression(s, precedence - 1), precedence - 1)

\* a slip: the compiler goes on behind what it has tried to fold
TrySpin2ConExpressionAhead(s, r) ==
  IF r.err = "not a constant" THEN [r EXCEPT !.err = "", !.stack = <<>>, !.unresolved = TRUE] ELSE r
\* what is not a constant sets the position back, and only that is caught
TrySpin2ConExpression(s, r) ==
  IF r.err = "not a constant" THEN [s EXCEPT !.marks = r.marks, !.unresolved = TRUE] ELSE r
CompileTried(r) ==
  CASE r.err # "" -> r
    [] r.err = "" /\ ~r.unresolved -> EnterConstant(r, Number(r, 0))
    [] OTHER -> CompileSubExpression(r, LowestPrecedence)
CompileFresh(s) == CompileTried(TrySpin2ConExpression(s, ResolveExp(s, LowestPrecedence)))
CompileExpression(els, mode) == CompileFresh(Fresh(els, "method", mode))
----------------------------------------------------------------------------
Current == Len(results) + 1
Init == /\ mathMode = "unknown"
        /\ results = <<>>

Evaluate ==
  /\ Current <= Len(elements) /\ uses[Current] # "method"
  /\ results' = Append(results, GetValue(elements[Current], uses[Current]))
  /\ mathMode' = results'[Current].mode
  /\ UNCHANGED <<elements, uses>>

Compile ==
  /\ Current <= Len(elements) /\ uses[Current] = "method"
  /\ results' = Append(results, CompileExpression(elements[Current], mathMode))
  /\ UNCHANGED <<elements, uses, mathMode>>

Next == Evaluate \/ Compile
=============================================================================
