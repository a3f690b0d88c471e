------------------------------- MODULE Calls --------------------------------
(***************************************************************************)
(* Calls, terms and instructions of a Spin2 method as the resolver compiles*)
(* them.  It walks along the elements of a line, leaves some to come back  *)
(* to them when what stands behind is compiled (the index of an object,    *)
(* the pointer to a method, the targets of an assignment), and compiles    *)
(* others for trial and takes the bytes back.                              *)
(*   s.p is the next element, s.code the bytecode, s.n what the last       *)
(* operation counted: longs, parameters or results.                        *)
(***************************************************************************)
EXTENDS Integers, Sequences, SequencesExt

CONSTANTS SubResults,   \* results of the method whose lines are compiled
          ParamsLimit,  \* method_params_limit
          ResultsLimit, \* method_results_limit
          StringLimit   \* bytes of a string with its terminator: 255
CallsAssumption == {SubResults, ParamsLimit, ResultsLimit, StringLimit} \subseteq Nat

VARIABLES lines,    \* the lines that are still to be compiled
          emitted   \* what became of those before

End == [t |-> "end"]
At(s, p) == IF p \in DOMAIN s.els THEN s.els[p] ELSE End
Ahead(s) == At(s, s.p)
Is(s, t) == Ahead(s).t = t
Fail(s, e) == IF s.err = "" THEN [s EXCEPT !.err = e] ELSE s
Skip(s) == [s EXCEPT !.p = @ + 1]
Get(s, t) == IF Is(s, t) THEN Skip(s) ELSE Fail(Skip(s), "expected " \o t)
Counted(s, n) == [s EXCEPT !.n = n]
Emit(s, item) == [s EXCEPT !.code = Append(@, item)]
Restored(s, p) == [s EXCEPT !.p = p]
SetOffset(s, offset) == [s EXCEPT !.code = SubSeq(@, 1, offset)]
\* n is 1 when a comma has been passed, 0 at the parenthesis
GetCommaOrRightParen(s) ==
  IF Is(s, "comma") THEN Counted(Skip(s), 1) ELSE Counted(Get(s, "right"), 0)
----------------------------------------------------------------------------
(* Expressions: a constant, a variable expression, a term; "+" stands for  *)
(* the binary operators.                                                   *)

\* an expression, a parameter or an instruction: each may hold the others
RECURSIVE Compile(_, _), CompileTerm(_), CompileOperators(_)
CompileExpression(s) == Compile("expression", s)
CompileParameter(s) == Compile("parameter", s)
CompileOperators(s) ==
  IF s.err = "" /\ Is(s, "add") THEN CompileOperators(Emit(CompileTerm(Skip(s)), [op |-> "add"])) ELSE s
\* an expression of constants alone is one constant
FoldedFrom(e, offset) ==
  LET items == SubSeq(e.code, offset + 1, Len(e.code))
      cons == SelectSeq(items, LAMBDA i : i.op = "con")
  IN  IF \A i \in DOMAIN items : items[i].op \in {"con", "add"}
      THEN Emit(SetOffset(e, offset), [op |-> "con", v |-> FoldLeft(LAMBDA sum, c : sum + c.v, 0, cons)])
      ELSE e
SubExpression(s) == FoldedFrom(CompileOperators(CompileTerm(s)), Len(s.code))
SkipExpression(s) == SetOffset(CompileExpression(s), Len(s.code))
\* n is 1 when the expression is a constant, which is then v
CheckCon(e, offset) ==
  LET con == Len(e.code) = offset + 1 /\ Last(e.code).op = "con"
  IN  [s |-> Counted(SetOffset(e, offset), IF con THEN 1 ELSE 0), v |-> IF con THEN Last(e.code).v ELSE 0]
SkipExpressionCheckCon(s) == CheckCon(CompileExpression(s), Len(s.code))

CheckIndex(s) == IF Is(s, "leftb") THEN Get(SkipExpression(Skip(s)), "rightb") ELSE s
CompileOutOfSequence(s, p) == Restored(CompileExpression(Restored(s, p)), s.p)

\* a variable, read or written where it stands, with its index first
CheckVariable(s) == CheckIndex(Get(s, "var"))
CompileVariable(s, item) ==
  LET v == Skip(s)
      indexed == Is(v, "leftb")
      i == IF indexed THEN Get(CompileExpression(Skip(v)), "rightb") ELSE v
  IN  Emit(i, item @@ [v |-> Ahead(s).v, longs |-> Ahead(s).longs, indexed |-> indexed])
CompileVariableAt(s, p, item) == Restored(CompileVariable(Restored(s, p), item), s.p)
Assign(as) == [op |-> "assign", as |-> as]
CompileVariablePre(s, as) ==
  IF Is(s, "var") THEN CompileVariable(s, Assign(as)) ELSE Fail(s, "expected variable")
----------------------------------------------------------------------------
(* Results and parameters.                                                 *)

ConfirmResult(s, needs, results) ==
  CASE needs # "none" /\ results = 0 -> Fail(s, "returns no results")
    [] needs = "one" /\ results > 1 -> Fail(s, "returns multiple results")
    [] OTHER -> s
\* ":2" or ":structure" behind a call by pointer
GetColonResultCount(s) ==
  LET e == At(s, s.p + 1)
  IN  CASE ~Is(s, "colon") -> Counted(s, 0)
        [] Is(s, "colon") /\ e.t # "con" -> Fail(s, "expected constant")
        [] Is(s, "colon") /\ e.t = "con" /\ e.v > ResultsLimit -> Fail(s, "results exceeded")
        [] OTHER -> Counted(Restored(s, s.p + 2), e.v)
RECURSIVE ScanToRightParen(_, _)
ScanToRightParen(s, nesting) ==
  CASE Is(s, "end") -> Fail(s, "expected )")
    [] Is(s, "right") /\ nesting = 1 -> Skip(s)
    [] OTHER -> ScanToRightParen(Skip(s), nesting + (IF Is(s, "left") THEN 1 ELSE IF Is(s, "right") THEN -1 ELSE 0))
\* [method, results]: whether a variable is called, and what the call says it returns
CheckVariableMethod(s) ==
  LET reg == Ahead(s).reg
      v == CheckVariable(s)
      c == GetColonResultCount(ScanToRightParen(Skip(v), 1))
  IN  IF ~Is(s, "var") \/ ~Is(v, "left") THEN [method |-> FALSE, results |-> 0]
      ELSE [method |-> TRUE, results |-> CASE reg = "recv" -> 1 [] reg = "send" -> 0 [] OTHER -> c.n]

ResultsOr(called, otherwise) == IF called.method THEN called.results ELSE otherwise

RECURSIVE CompileFlex(_, _), ObjPub(_, _, _), Method(_, _, _), MethodPtr(_, _, _, _)
\* n becomes the number of longs that one parameter leaves
OwnLongs(s) ==
  LET e == Ahead(s)
      i == CheckIndex(Skip(s))
      pub == At(i, i.p + 1)
  IN  CASE e.t = "flex" -> e.flex.results
        [] e.t = "method" -> e.m.results
        [] e.t = "obj" /\ pub.t = "pub" -> pub.m.results
        [] e.t = "var" /\ e.longs > 1 -> IF Is(CheckVariable(s), "compare") THEN 1 ELSE e.longs
        [] OTHER -> ResultsOr(CheckVariableMethod(s), 1)
ParameterOf(s, e, n) ==
  CASE n < 2 -> Counted(CompileExpression(s), 1)
    [] n >= 2 /\ e.t = "flex" -> Counted(CompileFlex(Skip(s), e.flex), n)
    [] n >= 2 /\ e.t = "method" -> Counted(Method(Skip(s), "some", "push"), n)
    [] n >= 2 /\ e.t = "obj" -> Counted(ObjPub(Skip(s), "some", "push"), n)
    [] n >= 2 /\ e.t = "var" /\ e.longs > 1 -> Counted(CompileVariable(s, [op |-> "read"]), n)
    [] OTHER -> Counted(MethodPtr(s, s.p, "some", "push"), n)
OneParameter(s) == ParameterOf(s, Ahead(s), OwnLongs(s))
RECURSIVE CompileParametersNoParens(_, _)
OthersNoParens(c, remaining) ==
  CASE c.err # "" -> c
    [] c.err = "" /\ c.n > remaining -> Fail(c, "parameters exceeded")
    [] c.err = "" /\ c.n = remaining -> c
    [] OTHER -> CompileParametersNoParens(Get(c, "comma"), remaining - c.n)
CompileParametersNoParens(s, remaining) == OthersNoParens(CompileParameter(s), remaining)
CompileParameters(s, count) ==
  LET open == Get(s, "left")
  IN  Get(IF count > 0 THEN CompileParametersNoParens(open, count) ELSE open, "right")
RECURSIVE ParametersUpToParen(_, _)
OthersUpToParen(c, count) ==
  LET g == GetCommaOrRightParen(c)
  IN  CASE c.err # "" -> c
        [] c.err = "" /\ count + c.n > ParamsLimit -> Fail(c, "parameters exceeded")
        [] g.n = 1 /\ g.err = "" -> ParametersUpToParen(g, count + c.n)
        [] OTHER -> Counted(g, count + c.n)
ParametersUpToParen(s, count) == OthersUpToParen(CompileParameter(s), count)
CompileParametersMethodPtr(s) ==
  LET open == Get(s, "left")
  IN  IF Is(open, "right") THEN Counted(Skip(open), 0) ELSE ParametersUpToParen(open, 0)
----------------------------------------------------------------------------
(* Calls.  The anchor comes first, then the parameters, and last what says *)
(* which method it is: the index of the object or the pointer.             *)

Anchor(s, drop) == Emit(s, [op |-> "drop", drop |-> drop])
Method(s, needs, drop) ==
  LET m == At(s, s.p - 1).m
  IN  Emit(CompileParameters(Anchor(ConfirmResult(s, needs, m.results), drop), m.params), [op |-> "call", m |-> m])
\* [s, p, pub]: past OBJ[index].method, with the element of the index
ObjMethod(s) ==
  LET i == Get(CheckIndex(s), "dot")
  IN  [s |-> Get(i, "pub"), indexed |-> Is(s, "leftb"), p |-> s.p + 1,
       m |-> IF Is(i, "pub") THEN Ahead(i).m ELSE [id |-> 0, params |-> 0, results |-> 0]]
IndexOf(s, o) == IF o.indexed THEN CompileOutOfSequence(s, o.p) ELSE s
ObjPub(s, needs, drop) ==
  LET o == ObjMethod(Anchor(s, drop))
      c == CompileParameters(ConfirmResult(o.s, needs, o.m.results), o.m.params)
  IN  Emit(IndexOf(c, o), [op |-> "call_obj", m |-> o.m, obj |-> At(s, s.p - 1).v, indexed |-> o.indexed])

RECURSIVE Send(_)
\* the variable was walked over in front of the parameters and is read behind them
CallPtr(c, at, needs) ==
  Emit(CompileVariableAt(ConfirmResult(c, needs, c.n), at, [op |-> "read"]), [op |-> "call_ptr", results |-> c.n])
IsPointer(e) == e.long /\ e.longs = 1
MethodPtr(s, at, needs, drop) ==
  LET e == At(s, at)
      v == CheckVariable(Restored(s, at))
  IN  CASE e.t # "var" \/ (e.reg = "" /\ ~IsPointer(e)) -> Fail(s, "method pointers must be long")
        [] e.reg = "recv" /\ drop # "push" -> Fail(s, "RECV only as a term")
        [] e.reg = "recv" /\ drop = "push" -> Emit(Get(Get(v, "left"), "right"), [op |-> "recv"])
        [] e.reg = "send" /\ drop # "none" -> Fail(s, "SEND only as an instruction")
        [] e.reg = "send" /\ drop = "none" -> Send(v)
        [] OTHER -> CallPtr(GetColonResultCount(CompileParametersMethodPtr(Anchor(v, drop))), at, needs)
Try(s, drop) ==
  CASE Is(s, "obj") -> ObjPub(Skip(s), "none", drop)
    [] Is(s, "method") -> Method(Skip(s), "none", drop)
    [] Is(s, "var") /\ Is(CheckVariable(s), "left") -> MethodPtr(s, s.p, "none", drop)
    [] OTHER -> Fail(s, "expected a method")

\* a run of bytes is sent by one instruction, anything else one by one
RECURSIVE BytesAheadWide(_, _)
BytesAheadWide(s, p) ==
  CASE At(s, p).t # "con" \/ At(s, p).v < 0 -> 0
    [] At(s, p + 1).t = "comma" -> 1 + BytesAheadWide(s, p + 2)
    [] OTHER -> 1
RECURSIVE BytesAhead(_, _)
BytesAhead(s, p) ==
  CASE At(s, p).t # "con" \/ At(s, p).v \notin 0 .. 255 -> 0
    [] At(s, p + 1).t = "comma" -> 1 + BytesAhead(s, p + 2)
    [] OTHER -> 1
\* n is 1 when the parameter leaves a value to be sent
CompileParameterSend(s) ==
  LET e == Ahead(s)
      results == CASE e.t = "method" -> e.m.results
                   [] e.t = "obj" -> ObjMethod(Skip(s)).m.results
                   [] OTHER -> ResultsOr(CheckVariableMethod(s), 1)
  IN  CASE results > 1 -> Fail(s, "SEND parameter with multiple values")
        [] results = 1 -> Counted(CompileExpression(s), 1)
        [] e.t = "method" -> Counted(Method(Skip(s), "none", "none"), 0)
        [] e.t = "obj" -> Counted(ObjPub(Skip(s), "none", "none"), 0)
        [] OTHER -> Counted(MethodPtr(s, s.p, "none", "none"), 0)
RECURSIVE SendItems(_)
SendRun(s, run) ==
  Emit(Restored(s, s.p + (2 * run) - 1),
       [op |-> "send_bytes", bytes |-> [i \in 1 .. run |-> At(s, s.p + (2 * (i - 1))).v % 256]])
SendOne(one) == IF one.n = 1 THEN Emit(one, [op |-> "send"]) ELSE one
OtherItems(g) == IF g.err # "" \/ g.n = 0 THEN g ELSE SendItems(g)
SendItems(s) ==
  LET run == BytesAhead(s, s.p)
  IN  OtherItems(GetCommaOrRightParen(IF run >= 2 THEN SendRun(s, run) ELSE SendOne(CompileParameterSend(s))))
Send(s) ==
  LET open == Get(s, "left")
  IN  IF Is(open, "right") THEN Fail(open, "expected SEND data") ELSE SendItems(open)
----------------------------------------------------------------------------
(* Built-in instructions, lookups, the start of a cog or a task.           *)

PinField(hi, lo) == (64 * ((hi - lo) % 32)) + (lo % 64)
SamePort(hi, lo) == (hi \div 32) % 2 = (lo \div 32) % 2
OtherParameters(s, f) == IF f.params = 1 THEN s ELSE CompileParametersNoParens(Get(s, "comma"), f.params - 1)
\* what a first parameter with ".." becomes, once its bytes have been taken back
PinRange(s, hi, lo) ==
  LET known == hi.s.n = 1 /\ lo.s.n = 1
      range == CompileExpression(Get(CompileExpression(s), "dotdot"))
  IN  CASE known /\ ~SamePort(hi.v % 64, lo.v % 64) -> Fail(s, "same port")
        [] known /\ SamePort(hi.v % 64, lo.v % 64) -> Emit(lo.s, [op |-> "con", v |-> PinField(hi.v % 64, lo.v % 64)])
        [] OTHER -> Emit(Emit(range, [op |-> "bitrange"]), [op |-> "addpins"])
CompilePinField(s, f) ==
  LET hi == SkipExpressionCheckCon(s)
  IN  OtherParameters(PinRange(s, hi, SkipExpressionCheckCon(Get(hi.s, "dotdot"))), f)
FlexParameters(open, trial, f) ==
  LET back == SetOffset(Restored(trial, open.p), Len(open.code))
  IN  IF trial.n = 1 /\ Is(trial, "dotdot") THEN CompilePinField(back, f) ELSE CompileParametersNoParens(back, f.params)
CompileFlex(s, f) ==
  LET open == Get(s, "left")
      params == CASE f.params = 0 -> open
                  [] f.params > 0 /\ f.pins -> FlexParameters(open, CompileParameter(open), f)
                  [] OTHER -> CompileParametersNoParens(open, f.params)
  IN  Emit(Get(params, "right"), [op |-> "flex", flex |-> f])

RangeFrom(e) == IF Is(e, "dotdot") THEN Counted(CompileExpression(Skip(e)), 2) ELSE Counted(e, 1)
CompileRange(s) == RangeFrom(CompileExpression(s))
RECURSIVE LookValues(_, _)
LookValue(r, down) == Emit(r, [op |-> "look_value", down |-> down, range |-> r.n = 2])
OtherValues(g, down) == IF g.err = "" /\ g.n = 1 THEN LookValues(g, down) ELSE g
LookValues(s, down) ==
  OtherValues(GetCommaOrRightParen(LookValue(CompileRange(s), down)), down)
BlockLook(s, e, done) ==
  LET open == Get(Emit(s, [op |-> "address", to |-> done]), "left")
      target == Get(CompileExpression(open), "colon")
  IN  Emit(LookValues(Emit(target, [op |-> "con", v |-> IF e.zero THEN 0 ELSE 1]), e.down), [op |-> "look_done"])
\* compiled again with the address that the first time has found
Look(s, e) == BlockLook(s, e, Len(BlockLook(s, e, 0).code))

RECURSIVE AtTerm(_)
\* the method itself is compiled behind its parameters, then the stack
SpinMethod(s, given, item) ==
  LET method == IF Is(s, "var") THEN CompileVariableAt(given, s.p, [op |-> "read"])
                ELSE Restored(AtTerm(Restored(given, s.p)), given.p)
  IN  IF given.err # "" THEN given
      ELSE IF Is(s, "var") /\ ~IsPointer(Ahead(s)) THEN Fail(s, "method pointers must be long")
      ELSE Emit(Get(CompileExpression(Get(method, "comma")), "right"), item)
CogSpin(s, how, task) ==
  LET e == Ahead(s)
      o == ObjMethod(Skip(s))
      v == CompileParametersMethodPtr(CheckVariable(s))
      given == CASE e.t = "obj" -> Counted(CompileParameters(o.s, o.m.params), o.m.params)
                 [] e.t = "method" -> Counted(CompileParameters(Skip(s), e.m.params), e.m.params)
                 [] e.t = "var" -> v
                 [] OTHER -> Fail(s, "expected a method")
  IN  SpinMethod(s, given, [op |-> "spin", params |-> given.n, how |-> how, task |-> task])
CogSpinTaskSpin(s, how, task) == CogSpin(Get(CompileExpression(Get(s, "left")), "comma"), how, task)
----------------------------------------------------------------------------
(* Strings and data.  The byte in front counts what follows, with the zero *)
(* behind the characters.                                                  *)

Backslash == 92
Upper(c) == IF c \in 97 .. 122 THEN c - 32 ELSE c
Digit(c) == IF c \in 48 .. 57 THEN c - 48 ELSE IF c \in 65 .. 70 THEN c - 55 ELSE -1
EscapeOf == 65 :> 7 @@ 66 :> 8 @@ 84 :> 9 @@ 78 :> 10 @@ 70 :> 12 @@ 82 :> 13 @@ 92 :> 92
CharacterX == 88
IsMidStringComma(e) == e.t = "comma" /\ e.mid

\* n is the character
GetCharacter(s) ==
  LET e == At(s, s.p + 1)
  IN  IF ~IsMidStringComma(Ahead(s)) \/ e.t # "con" \/ e.v \notin 1 .. 255 THEN Fail(s, "expected a character")
      ELSE Counted(Restored(s, s.p + 2), Upper(e.v))
HandleEscapeChr(s, c) ==
  LET g == GetCharacter(s)
      h == GetCharacter(g)
      l == GetCharacter(h)
  IN  CASE c # Backslash -> Counted(s, c)
        [] c = Backslash /\ g.err # "" -> g
        [] c = Backslash /\ g.err = "" /\ g.n \in DOMAIN EscapeOf -> Counted(g, EscapeOf[g.n])
        [] c = Backslash /\ g.err = "" /\ g.n = CharacterX ->
             IF l.err # "" \/ Digit(h.n) < 0 \/ Digit(l.n) < 0 THEN Fail(l, "invalid escape")
             ELSE Counted(l, (16 * Digit(h.n)) + Digit(l.n))
        [] OTHER -> Counted(Restored(g, g.p - 1), Backslash)
RECURSIVE Characters(_, _, _)
OtherCharacters(c, escapes, all) ==
  CASE c.err # "" -> c
    [] c.err = "" /\ Len(all) + 1 > StringLimit -> Fail(c, "cannot exceed")
    [] IsMidStringComma(Ahead(c)) -> Characters(Skip(c), escapes, all)
    [] OTHER -> Emit(c, [op |-> "string", length |-> Len(all) + 1, bytes |-> Append(all, 0)])
Character(s, escapes) ==
  LET e == Ahead(s)
  IN  CASE e.t # "con" \/ e.v \notin 1 .. 255 -> Fail(s, "1 to 255")
        [] OTHER -> IF escapes THEN HandleEscapeChr(Skip(s), e.v) ELSE Counted(Skip(s), e.v)
Taken(c, escapes, bytes) == OtherCharacters(c, escapes, Append(bytes, c.n))
Characters(s, escapes, bytes) == Taken(Character(s, escapes), escapes, bytes)
AtEmitString(s, escapes) == Characters(s, escapes, <<>>)

BytesOf(size, v) == [i \in 1 .. size |-> (v \div (256 ^ (i - 1))) % 256]
\* STRING and LSTRING list characters, BYTE, WORD and LONG values of any size
\* STRING and LSTRING list characters, BYTE, WORD and LONG values of any size
RECURSIVE CompileConData(_, _, _)
CompileConData(s, e, bytes) ==
  LET v == IF e.t = "size" /\ Is(s, "size") THEN Skip(s) ELSE s
      size == IF e.t # "size" THEN 1 ELSE IF Is(s, "size") THEN Ahead(s).size ELSE e.size
      all == bytes \o BytesOf(size, Ahead(v).v)
      g == GetCommaOrRightParen(Skip(v))
      limit == IF e.t = "size" THEN StringLimit ELSE StringLimit - 1
      lowest == IF e.t = "constr" THEN 1 ELSE 0
      data == CASE e.t = "constr" -> [op |-> "string", length |-> Len(all) + 1, bytes |-> Append(all, 0)]
                [] e.t = "conlstr" -> [op |-> "string", length |-> Len(all) + 1, bytes |-> <<Len(all)>> \o all]
                [] OTHER -> [op |-> "string", length |-> Len(all), bytes |-> all]
  IN  CASE ~Is(v, "con") -> Fail(v, "expected constant")
        [] e.t # "size" /\ Ahead(v).v \notin lowest .. 255 -> Fail(v, "character")
        [] Len(all) > limit -> Fail(v, "cannot exceed")
        [] g.err = "" /\ g.n = 1 -> CompileConData(g, e, all)
        [] OTHER -> Emit(g, data)

AtTerm(s) ==
  LET e == Ahead(s)
      o == ObjMethod(Skip(s))
      escapes == e.t = "back" /\ At(s, s.p + 1).t = "con"
  IN  CASE e.t = "con" \/ escapes -> AtEmitString(IF escapes THEN Skip(s) ELSE s, escapes)
        [] e.t = "obj" -> Emit(IndexOf(o.s, o), [op |-> "mptr_obj", m |-> o.m, obj |-> e.v, indexed |-> o.indexed])
        [] e.t = "method" -> Emit(Skip(s), [op |-> "mptr", m |-> e.m])
        [] e.t = "var" /\ e.reg = "" -> CompileVariable(s, Assign("get_addr"))
        [] OTHER -> Fail(s, "expected a string, variable, method, or object")
----------------------------------------------------------------------------
(* Terms.                                                                  *)

PushForms == [inc |-> "postinc_push", dec |-> "postdec_push", lognot |-> "lognot_push", bitnot |-> "bitnot_push"]
InstForms == [inc |-> "inc", dec |-> "dec", lognot |-> "lognot", bitnot |-> "bitnot"]
ClearSet == [til |-> 0, tiltil |-> -1]
Compared(s, p) ==
  LET second == CompileVariable(CompileVariableAt(Skip(s), p, Assign("get_addr")), Assign("get_addr"))
  IN  IF At(s, p).longs # At(s, s.p + 1).longs THEN Fail(s, "same size")
      ELSE Emit(Emit(second, [op |-> "con", v |-> At(s, p).longs]), [op |-> "bytecomp"])
VariableTerm(s) ==
  LET v == CheckVariable(s)
      n == Skip(v)
      on(as) == CompileVariableAt(n, s.p, Assign(as))
      e == Ahead(v)
  IN  CASE v.err # "" -> v
        [] Ahead(s).longs > 1 -> IF e.t = "compare" THEN Compared(v, s.p) ELSE Fail(v, "expected == or <>")
        [] e.t = "left" -> MethodPtr(s, s.p, "one", "push")
        [] e.t \in DOMAIN PushForms -> on(PushForms[e.t])
        [] e.t = "back" -> CompileVariableAt(CompileExpression(n), s.p, Assign("var_swap"))
        [] e.t \in DOMAIN ClearSet ->
             CompileVariableAt(Emit(n, [op |-> "con", v |-> ClearSet[e.t]]), s.p, Assign("var_swap"))
        [] e.t = "assign" -> CompileVariableAt(CompileExpression(n), s.p, Assign("write_push"))
        [] e.t = "add" /\ Is(n, "equal") -> CompileVariableAt(CompileExpression(Skip(n)), s.p, Assign("add_push"))
        [] OTHER -> CompileVariableAt(v, s.p, [op |-> "read"])
Parenthesized(s) == Get(CompileExpression(Get(s, "left")), "right")
CompileTerm(s) ==
  LET e == Ahead(s)
      n == Skip(s)
  IN  CASE e.t = "con" -> Emit(n, [op |-> "con", v |-> e.v])
        [] e.t = "exp" -> Emit(n, [op |-> "live", v |-> e.v])
        [] e.t = "left" -> Parenthesized(s)
        [] e.t = "sizeof" -> Get(Get(Emit(Get(n, "left"), [op |-> "con", v |-> At(s, s.p + 2).size]), "struct"), "right")
        [] e.t \in {"constr", "conlstr"} \/ (e.t = "size" /\ Is(n, "left")) -> CompileConData(Get(n, "left"), e, <<>>)
        [] e.t = "back" -> Try(n, "trap_push")
        [] e.t = "obj" -> ObjPub(n, "one", "push")
        [] e.t = "method" -> Method(n, "one", "push")
        [] e.t = "look" -> Look(n, e)
        [] e.t = "spin" -> CogSpinTaskSpin(n, "push", e.task)
        [] e.t = "flex" -> IF e.flex.results = 1 THEN CompileFlex(n, e.flex) ELSE Fail(n, "single result")
        [] e.t = "at" -> AtTerm(n)
        [] e.t = "upat" -> IF Is(n, "var") THEN CompileVariable(n, Assign("get_field")) ELSE Fail(n, "expected variable")
        [] e.t \in {"inc", "dec"} -> CompileVariablePre(n, "pre" \o e.t \o "_push")
        [] e.t = "var" -> VariableTerm(s)
        [] OTHER -> Fail(n, "expected a term")
----------------------------------------------------------------------------
(* Instructions.                                                           *)

\* "_" and "_[n]" take values and keep none; n is the number of longs
CheckWriteSkip(s) ==
  LET e == At(s, s.p + 2)
      sized == At(s, s.p + 1).t = "leftb"
      count == IF e.t = "con" THEN e.v ELSE e.size \div 4
  IN  CASE ~sized -> Counted(Skip(s), 1)
        [] sized /\ count \notin 1 .. 15 -> Fail(s, "1 to 15")
        [] OTHER -> Counted(Get(Restored(s, s.p + 3), "rightb"), count)
CheckTarget(s) ==
  IF Is(s, "under") THEN CheckWriteSkip(s)
  ELSE IF Ahead(s).longs > 15 THEN Fail(s, "15 longs") ELSE Counted(CheckVariable(s), Ahead(s).longs)
RECURSIVE Targets(_, _)
Targets(s, known) ==
  LET t == CheckTarget(s)
      all == Append(known, [p |-> s.p, longs |-> t.n])
  IN  IF t.err = "" /\ Is(t, "comma") THEN Targets(Skip(t), all) ELSE [s |-> t, targets |-> all]
\* a slip: the bytecode drops one long more than its operand says
StoreTargetWhole(s, target) ==
  CASE At(s, target.p).t # "under" -> CompileVariableAt(s, target.p, [op |-> "write"])
    [] At(s, target.p).t = "under" /\ target.longs = 1 -> Emit(s, [op |-> "pop", bytes |-> 4])
    [] OTHER -> Emit(s, [op |-> "pop_rfvar", rfvar |-> 4 * target.longs])
StoreTarget(s, target) ==
  CASE At(s, target.p).t # "under" -> CompileVariableAt(s, target.p, [op |-> "write"])
    [] At(s, target.p).t = "under" /\ target.longs = 1 -> Emit(s, [op |-> "pop", bytes |-> 4])
    [] OTHER -> Emit(s, [op |-> "pop_rfvar", rfvar |-> 4 * (target.longs - 1)])
\* the values are pushed from the first to the last, and stored from the last to the first
StoreOrderAsWritten(targets) == targets
StoreOrder(targets) == Reverse(targets)
StoreAll(values, targets) == IF values.err # "" THEN values ELSE FoldLeft(StoreTarget, values, StoreOrder(targets))
Multiple(t) ==
  LET longs == FoldLeft(LAMBDA sum, one : sum + one.longs, 0, t.targets)
  IN  IF t.s.err # "" THEN t.s ELSE StoreAll(CompileParametersNoParens(Get(t.s, "assign"), longs), t.targets)
CompileVariableMultiple(s) == Multiple(Targets(s, <<>>))

Return(s) ==
  CASE Is(s, "end") -> Emit(s, [op |-> "return_results"])
    [] ~Is(s, "end") /\ SubResults = 0 -> Fail(s, "expected end of line")
    [] OTHER -> Emit(CompileParametersNoParens(s, SubResults), [op |-> "return_args"])
Abort(s) ==
  IF Is(s, "end") THEN Emit(s, [op |-> "abort_0"]) ELSE Emit(CompileExpression(s), [op |-> "abort_arg"])
StructInstruction(s, v) ==
  LET second == CompileVariable(CompileVariableAt(Skip(v), s.p, Assign("get_addr")), Assign("get_addr"))
      filled == CompileVariableAt(Skip(v), s.p, Assign("get_addr"))
      longs == [op |-> "con", v |-> Ahead(s).longs]
      moved(op) == IF At(v, v.p + 1).longs # Ahead(s).longs THEN Fail(v, "same size") ELSE Emit(Emit(second, longs), [op |-> op])
  IN  CASE Is(v, "assign") /\ Ahead(s).longs <= 15 -> CompileVariableMultiple(s)
        [] Is(v, "assign") /\ Ahead(s).longs > 15 -> moved("bytemove")
        [] Is(v, "swap") -> moved("byteswap")
        [] Ahead(v).t \in DOMAIN ClearSet ->
             Emit(Emit(Emit(filled, [op |-> "con", v |-> ClearSet[Ahead(v).t]]), longs), [op |-> "bytefill"])
        [] OTHER -> Fail(v, "expected :=, :=:, ~ or ~~")
VariableInstruction(s) ==
  LET v == CheckVariable(s)
      e == Ahead(v)
      n == Skip(v)
  IN  CASE v.err # "" -> v
        [] e.t = "comma" \/ (e.t = "assign" /\ Ahead(s).longs = 1) -> CompileVariableMultiple(s)
        [] e.t # "comma" /\ Ahead(s).longs > 1 -> StructInstruction(s, v)
        [] e.t = "left" -> MethodPtr(s, s.p, "none", "none")
        [] e.t \in DOMAIN InstForms -> CompileVariableAt(n, s.p, Assign(InstForms[e.t]))
        [] e.t \in DOMAIN ClearSet -> CompileVariableAt(Emit(n, [op |-> "con", v |-> ClearSet[e.t]]), s.p, [op |-> "write"])
        [] e.t = "add" /\ Is(n, "equal") -> CompileVariableAt(CompileExpression(Skip(n)), s.p, Assign("add"))
        [] OTHER -> Fail(v, "variable needs an operator")
CompileInstruction(s) ==
  LET e == Ahead(s)
      n == Skip(s)
  IN  CASE e.t = "back" -> Try(n, "trap")
        [] e.t = "obj" -> ObjPub(n, "none", "none")
        [] e.t = "method" -> Method(n, "none", "none")
        [] e.t = "return" -> Return(n)
        [] e.t = "abort" -> Abort(n)
        [] e.t = "spin" -> CogSpinTaskSpin(n, "none", e.task)
        [] e.t = "flex" -> IF e.flex.results = 0 THEN CompileFlex(n, e.flex) ELSE Fail(n, "returns results")
        [] e.t \in {"inc", "dec"} -> CompileVariablePre(n, e.t)
        [] e.t = "unary" -> CompileVariablePre(Get(n, "equal"), InstForms[e.op])
        [] e.t = "under" -> LET w == Get(CheckWriteSkip(s), "comma")
                            IN  IF w.err # "" THEN w ELSE CompileVariableMultiple(s)
        [] e.t = "var" -> VariableInstruction(s)
        [] OTHER -> Fail(n, "expected an instruction or variable")

Line(els) == [els |-> els, p |-> 1, code |-> <<>>, n |-> 0, err |-> ""]
Compile(unit, s) ==
  CASE unit = "instruction" -> CompileInstruction(s)
    [] unit = "parameter" -> OneParameter(s)
    [] unit = "expression" -> SubExpression(s)
Result(c) == [code |-> c.code, err |-> c.err]
GetEndOfLine(c) == IF Is(c, "end") THEN c ELSE Fail(c, "expected end of line")
CompileLine(els) == Result(GetEndOfLine(Compile("instruction", Line(els))))
Next ==
  /\ lines # <<>>
  /\ emitted' = Append(emitted, CompileLine(Head(lines)))
  /\ lines' = Tail(lines)
=============================================================================
