--------------------------- MODULE DebugStatements ---------------------------
(***************************************************************************)
(* DEBUG statements.  The compiler writes two things that are read apart   *)
(* from each other at run time: bytecode that pushes the values, and a     *)
(* record of what to display, which the debugger takes byte by byte and    *)
(* takes a value for wherever the record calls for one (in PASM the record *)
(* holds the operands itself).                                             *)
(*   A line is a sequence of tokens behind "debug"; a token has a type t   *)
(* and the character ch that stands for its text.                          *)
(***************************************************************************)
EXTENDS Integers, Sequences, SequencesExt

CONSTANT MethodParamsLimit   \* method_params_limit
DebugStatementsAssumption == MethodParamsLimit \in Nat

VARIABLES debug,   \* the statement: its line, pasm, first on its line, enabled, its bit, the mask
          entered  \* what the compiler made of it, or no record yet

DcAsm == 1
DcIf == 2
DcIfnot == 3
DcCogn == 4
DcChr == 5
DcStr == 6
DcDly == 7
DcPcKey == 8
DcPcMouse == 9
DcCZPre == 10
DcCZ == 11
Bit(v, b) == (v \div 2 ^ b) % 2 = 1
EndToken == [t |-> "end", ch |-> 0]
----------------------------------------------------------------------------
(* The elements of a line.  The text between backticks, and behind the     *)
(* parenthesis that ends an inserted value, becomes one constant for each  *)
(* character, up to the next backtick or else the next parenthesis.        *)

TextAsElements(text) ==
  FlattenSeq([i \in DOMAIN text |-> <<[t |-> "con", ch |-> text[i].ch, v |-> text[i].ch]>> \o
                                      IF i = Len(text) THEN <<>> ELSE <<[t |-> "comma", ch |-> 0]>>])
StringEnd(line, i) ==
  LET of(t) == {j \in i..Len(line) : line[j].t = t}
      first(at) == CHOOSE j \in at : \A k \in at : j <= k
  IN  CASE of("tick") # {} -> first(of("tick"))
        [] of("tick") = {} /\ of("right") # {} -> first(of("right"))
        [] OTHER -> i

RECURSIVE GetElements(_, _, _, _)
GetElements(line, i, state, nest) ==
  LET token == line[i]
      inText == state \in {"leading", "trailing"}
      e == StringEnd(line, i)
      closed == IF nest > 0 THEN nest - 1 ELSE 0
      rest == CASE token.t = "left" /\ state = "found" -> GetElements(line, i + 1, "open", nest)
                [] token.t = "left" /\ state = "waiting" -> GetElements(line, i + 1, state, nest + 1)
                [] token.t = "right" /\ state = "waiting" ->
                     GetElements(line, i + 1, IF closed = 0 THEN "trailing" ELSE state, closed)
                [] token.t = "tick" -> GetElements(line, i + 1, IF state = "open" THEN "leading" ELSE state, 0)
                [] OTHER -> GetElements(line, i + 1, state, nest)
  IN  CASE i > Len(line) -> <<>>
        [] i <= Len(line) /\ inText -> TextAsElements(SubSeq(line, i, e - 1)) \o GetElements(line, e, "waiting", nest)
        [] i <= Len(line) /\ ~inText /\ token.t = "quote" -> <<>>
        [] i <= Len(line) /\ ~inText /\ token.t = "space" -> rest
        [] OTHER -> <<token>> \o rest
\* only a "debug" that is the first element of its line starts the states
Elements(d) == GetElements(d.line, 1, IF d.first THEN "found" ELSE "none", 0)
----------------------------------------------------------------------------
(* The compiler's place in the elements (p is the next one), the record,   *)
(* the values that the bytecode pushes, and the flag of a first value.     *)

At(s, p) == IF p \in DOMAIN s.els THEN s.els[p] ELSE EndToken
Is(s, t) == At(s, s.p).t = t
Taken(s) == At(s, s.p - 1)
Fail(s, e) == IF s.err = "" THEN [s EXCEPT !.err = e] ELSE s
Skip(s) == [s EXCEPT !.p = @ + 1]
BackElement(s) == [s EXCEPT !.p = @ - 1]
Get(s, t) == IF Is(s, t) THEN Skip(s) ELSE Fail(Skip(s), "expected " \o t)
\* n is 1 behind a comma and 0 behind the parenthesis
GetCommaOrRightParen(s) == IF Is(s, "comma") THEN [Skip(s) EXCEPT !.n = 1] ELSE [Get(s, "right") EXCEPT !.n = 0]
Goes(s) == s.err = "" /\ s.n = 1

DebugEnterByte(s, byte) == [s EXCEPT !.rec = Append(@, byte % 256)]
EnterBytes(s, bytes) == [s EXCEPT !.rec = @ \o [i \in DOMAIN bytes |-> bytes[i] % 256]]
NextDebugIsFirst(s, first) == [s EXCEPT !.first = first]
\* the flag goes into the byte; the command comes back without it
DebugEnterByteFlag(s, cmd) == NextDebugIsFirst(DebugEnterByte(s, IF s.first /\ cmd % 2 = 0 THEN cmd + 1 ELSE cmd), FALSE)
Unflagged(cmd) == cmd - (cmd % 2)
IncStack(s) == IF s.depth + 4 > 127 THEN Fail(s, "too many expressions") ELSE [s EXCEPT !.depth = @ + 4]
IncStackBy(s, values) == IF values = 2 THEN IncStack(IncStack(s)) ELSE IncStack(s)

(* Values.  An expression is a sum of constants and variables; a call may  *)
(* return several values, and is then a parameter of its own.              *)
Push(s, values) == [s EXCEPT !.code = @ \o values, !.n = Len(values)]
Several(s) == Is(s, "live") /\ Len(At(s, s.p).vs) > 1
Operand(s) ==
  CASE Is(s, "con") -> Push(Skip(s), <<At(s, s.p).v>>)
    [] Is(s, "live") /\ ~Several(s) -> Push(Skip(s), At(s, s.p).vs)
    [] OTHER -> Fail(s, "expected expression")
RECURSIVE Added(_)
AddedTo(s, b) ==
  IF b.err # "" THEN b
  ELSE Added([b EXCEPT !.code = Append(SubSeq(s.code, 1, Len(s.code) - 1), Last(s.code) + Last(b.code)), !.n = 1])
Added(s) ==
  IF Is(s, "plus") /\ s.err = "" THEN AddedTo(s, Operand(Skip(s))) ELSE s
CompileExpression(s) == Added(Operand(s))
CompileParameter(s) == IF Several(s) THEN Push(Skip(s), At(s, s.p).vs) ELSE CompileExpression(s)
RECURSIVE CompileParametersNoParens(_, _)
WithOthers(c, remaining) ==
  CASE c.err # "" -> c
    [] c.err = "" /\ c.n > remaining -> Fail(c, "number of parameters exceeded")
    [] c.err = "" /\ c.n = remaining -> c
    [] OTHER -> CompileParametersNoParens(Get(c, "comma"), remaining - c.n)
CompileParametersNoParens(s, remaining) == WithOthers(CompileParameter(s), remaining)
\* total becomes the number of values between the parentheses
RECURSIVE UpToParen(_, _)
AfterParameter(g, total) == IF Goes(g) THEN UpToParen(g, total) ELSE [g EXCEPT !.n = total]
Counted(c, total) ==
  CASE c.err # "" -> c
    [] c.err = "" /\ total > MethodParamsLimit -> Fail(c, "limit of parameters exceeded")
    [] OTHER -> AfterParameter(GetCommaOrRightParen(c), total)
CountedFrom(c, total) == Counted(c, total + c.n)
UpToParen(s, total) == CountedFrom(CompileParameter(s), total)
InsideParens(s) == IF Is(s, "right") THEN [Skip(s) EXCEPT !.n = 0] ELSE UpToParen(s, 0)
CompileParametersMethodPtr(s) == InsideParens(Get(s, "left"))

\* PASM: a register, 14 bits of a constant, or a mark and all 32
GetValue(s) == IF At(s, s.p).t \in {"con", "reg"} THEN Skip(s) ELSE Fail(s, "expected constant")
CheckPound(s) == IF Is(s, "pound") THEN Skip(s) ELSE s
Byte(v, i) == (v \div 256 ^ i) % 256
EnterImmediate(g, v) ==
  EnterBytes(g, IF v >= 2 ^ 14 THEN <<64, Byte(v, 0), Byte(v, 1), Byte(v, 2), Byte(v, 3)>> ELSE <<Byte(v, 1), v>>)
EnterRegister(g, v) ==
  IF v > 1023 THEN Fail(g, "register exceeds $3FF") ELSE EnterBytes(g, <<128 + Byte(v, 1), v>>)
EnterOperand(g, immediate) ==
  CASE g.err # "" -> g
    [] g.err = "" /\ immediate -> EnterImmediate(g, Taken(g).v)
    [] OTHER -> EnterRegister(g, Taken(g).v)
CompileParameterAsm(s) == EnterOperand(GetValue(CheckPound(s)), Is(s, "pound"))
\* a value of either kind of statement
Value(s, pasm) == IF pasm THEN CompileParameterAsm(s) ELSE IncStack(CompileExpression(s))
----------------------------------------------------------------------------
(* Commands.                                                               *)

SingleParam(s, cmd, pasm) ==
  IF pasm THEN Get(CompileParameterAsm(Get(DebugEnterByte(s, cmd), "left")), "right")
  ELSE IncStack(Get(CompileParametersNoParens(Get(DebugEnterByte(s, cmd), "left"), 1), "right"))

\* what stands in the source for the next parameter: it is compiled and taken back
Characters(els, from, to) == [i \in 1..(to - from) |-> els[from + i - 1].ch]
DebugExpSource(s, pasm) ==
  Characters(s.els, s.p, IF pasm THEN GetValue(CheckPound(s)).p ELSE CompileParameter(s).p)
\* Quote stands for a constant written in quotes: one that is near the start ends the name
Quote == 34
UpToQuote(name) ==
  LET quotes == {i \in DOMAIN name : i <= 3 /\ name[i] = Quote}
  IN  IF quotes = {} THEN name ELSE SubSeq(name, 1, CHOOSE i \in quotes : \A j \in quotes : i <= j)
DebugVerboseString(s, name) == EnterBytes(s, UpToQuote(name) \o <<0>>)

RECURSIVE Flagged(_, _, _, _)
Flagged(s, cmd, count, each) ==
  IF count < each THEN s
  ELSE Flagged(IncStackBy(DebugEnterByteFlag(s, cmd), each), Unflagged(cmd), count - each, each)
FlaggedAll(c, cmd, each) ==
  CASE c.err # "" -> c
    [] c.err = "" /\ c.n = 0 -> Fail(c, "expected an expression term")
    [] c.err = "" /\ c.n % each # 0 -> Fail(c, "expected an even number of parameters")
    [] OTHER -> Flagged(c, cmd, c.n, each)
Simple(s, cmd, each) == FlaggedAll(CompileParametersMethodPtr(s), cmd, each)

RECURSIVE DualParamVerbose(_, _), SingleParamVerbose(_, _)
AfterPair(g, cmd) == IF Goes(g) THEN DualParamVerbose(g, cmd) ELSE g
EnterPair(s, cmd, name) == DebugVerboseString(IncStackBy(DebugEnterByteFlag(s, cmd), 2), name)
DualParamVerbose(s, cmd) ==
  AfterPair(GetCommaOrRightParen(EnterPair(CompileParametersNoParens(s, 2), cmd, DebugExpSource(s, FALSE))),
            Unflagged(cmd))

AfterSingle(g, cmd) == IF Goes(g) THEN SingleParamVerbose(g, cmd) ELSE g
EnterSingle(c, cmd, name) == DebugVerboseString(IncStack(DebugEnterByteFlag(c, cmd)), name)
\* a slip: the values behind a call with several results lose their names as well
EnterResultsOn(c, cmd, name) ==
  AfterSingle(GetCommaOrRightParen(Flagged(EnterSingle(c, cmd, name), Unflagged(cmd) + 2, c.n - 1, 1)),
              IF c.n > 1 THEN Unflagged(cmd) + 2 ELSE Unflagged(cmd))
\* the further results of a call have no name of their own
EnterResults(c, cmd, name) ==
  AfterSingle(GetCommaOrRightParen(Flagged(EnterSingle(c, cmd, name), Unflagged(cmd) + 2, c.n - 1, 1)),
              Unflagged(cmd))
SingleParamVerbose(s, cmd) == EnterResults(CompileParameter(s), cmd, DebugExpSource(s, FALSE))

RECURSIVE TickCmdAsm(_, _)
AfterValue(g, cmd) == IF Goes(g) THEN TickCmdAsm(g, cmd) ELSE g
NamedAsm(f, cmd) == IF Bit(cmd, 1) THEN f ELSE DebugVerboseString(f, DebugExpSource(f, TRUE))
ValuesAsm(f, cmd) == CompileParameterAsm(IF Bit(cmd, 4) THEN Get(CompileParameterAsm(f), "comma") ELSE f)
TickCmdAsm(s, cmd) ==
  AfterValue(GetCommaOrRightParen(ValuesAsm(NamedAsm(DebugEnterByteFlag(s, cmd), cmd), cmd)), Unflagged(cmd))

\* DLY and the inputs from the host stand last: the parenthesis of the statement follows and
\* is put back for the loops that all callers of a debug command run in.  In Spin C_Z has no
\* parentheses; in PASM it has to have a parameter like the rest.
TickCmd(s, cmd, pasm) ==
  CASE cmd \in {DcDly, DcPcKey, DcPcMouse} -> BackElement(Get(SingleParam(s, cmd, pasm), "right"))
    [] cmd \notin {DcDly, DcPcKey, DcPcMouse} /\ pasm -> TickCmdAsm(Get(s, "left"), cmd)
    [] ~pasm /\ cmd = DcCZPre -> DebugEnterByteFlag(s, cmd)
    [] ~pasm /\ cmd >= 32 /\ Bit(cmd, 1) -> Simple(s, cmd, IF Bit(cmd, 4) THEN 2 ELSE 1)
    [] ~pasm /\ cmd >= 32 /\ ~Bit(cmd, 1) /\ Bit(cmd, 4) -> DualParamVerbose(Get(s, "left"), cmd)
    [] OTHER -> SingleParamVerbose(Get(s, "left"), cmd)
----------------------------------------------------------------------------
(* Strings.                                                                *)

IsChar(e) == e.t = "con" /\ e.v \in 1..255
\* the constants from here on that are characters, with a comma between them
RECURSIVE CharsAhead(_, _)
CharsAhead(s, p) ==
  CASE ~IsChar(At(s, p)) -> <<>>
    [] IsChar(At(s, p)) /\ At(s, p + 1).t = "comma" -> <<At(s, p).v>> \o CharsAhead(s, p + 2)
    [] OTHER -> <<At(s, p).v>>
EnterString(s, text) == NextDebugIsFirst(EnterBytes(s, <<DcStr>> \o text \o <<0>>), TRUE)
EnterAhead(s, text) == IF text = <<>> THEN s ELSE [EnterString(s, text) EXCEPT !.p = @ + 2 * Len(text) - 1]
StringAhead(s) == EnterAhead(s, CharsAhead(s, s.p))
\* found only if the run of characters was not ended by a constant that is none
Character(s, pasm) == NextDebugIsFirst(Value(DebugEnterByte(s, DcChr), pasm), TRUE)
Stopped(s, text) ==
  LET ended == At(s, s.p + 2 * Len(text))
  IN  At(s, s.p + 2 * Len(text) - 1).t = "comma" /\ ended.t = "con" /\ ~IsChar(ended)
StringOrCharacter(s, text, pasm) ==
  IF text # <<>> /\ ~Stopped(s, text) THEN EnterAhead(s, text) ELSE Character(EnterAhead(s, text), pasm)
CheckString(s, pasm) == StringOrCharacter(s, CharsAhead(s, s.p), pasm)

RECURSIVE RawText(_, _, _)
\* the text from a backtick on: up to the next, or to the parenthesis that closes all it opens
RawText(line, i, nest) ==
  LET e == line[i]
      closed == IF nest > 0 THEN nest - 1 ELSE 0
  IN  CASE i > Len(line) -> [chars |-> <<>>, tick |-> FALSE]
        [] i <= Len(line) /\ e.t = "tick" -> [chars |-> <<>>, tick |-> TRUE]
        [] i <= Len(line) /\ e.t = "right" /\ closed = 0 -> [chars |-> <<>>, tick |-> FALSE]
        [] OTHER -> LET r == RawText(line, i + 1, CASE e.t = "left" -> nest + 1 [] e.t = "right" -> closed [] OTHER -> nest)
                    IN  [r EXCEPT !.chars = <<e.ch>> \o @]
----------------------------------------------------------------------------
(* Statements.                                                             *)

Condition(s, pasm) ==
  CASE Is(s, "if") -> SingleParam(Skip(s), DcIf, pasm)
    [] Is(s, "ifnot") -> SingleParam(Skip(s), DcIfnot, pasm)
Argument(s, pasm) ==
  CASE Is(s, "if") \/ Is(s, "ifnot") -> Condition(s, pasm)
    [] Is(s, "cmd") -> TickCmd(Skip(s), At(s, s.p).v, pasm)
    [] OTHER -> CheckString(s, pasm)
RECURSIVE Arguments(_, _)
AfterArgument(g, pasm) == IF Goes(g) THEN Arguments(g, pasm) ELSE g
Arguments(s, pasm) == AfterArgument(GetCommaOrRightParen(Argument(s, pasm)), pasm)
\* a condition in front of everything also hides the name of the cog
ProcessNonTickDebug(s, pasm) ==
  IF Is(s, "if") \/ Is(s, "ifnot")
  THEN AfterArgument(GetCommaOrRightParen(DebugEnterByte(Condition(s, pasm), DcCogn)), pasm)
  ELSE Arguments(DebugEnterByte(s, DcCogn), pasm)

RECURSIVE Inserted(_, _)
AfterInserted(g, pasm) == IF Goes(g) THEN Inserted(g, pasm) ELSE g
Inserted(s, pasm) == AfterInserted(GetCommaOrRightParen(Character(s, pasm)), pasm)
\* BOOL_, FDEC_, SHEX_ and UBIN_, each with the flag of a first value
Shorthand == [ternary |-> 35, dot |-> 47, dollar |-> 163, percent |-> 195]
CommandAt(e) == CASE e.t = "cmd" -> e.v [] e.t = "left" -> 99 [] OTHER -> Shorthand[e.t]
BehindTick(s, e, pasm) ==
  CASE e.t \in {"cmd", "left"} \cup DOMAIN Shorthand ->
         TickCmd(IF e.t = "left" THEN s ELSE Skip(s), CommandAt(e), pasm)
    [] e.t \in {"if", "ifnot"} -> Condition(s, pasm)
    [] e.t = "pound" -> Inserted(Get(Skip(s), "left"), pasm)
    [] OTHER -> Fail(s, "expected a DEBUG command")
RECURSIVE SkipToTick(_), Ticks(_, _)
SkipToTick(s) == IF Is(s, "tick") \/ Is(s, "end") THEN s ELSE SkipToTick(Skip(s))
TextBehind(s) == IF s.err = "" /\ Taken(s).t = "right" THEN StringAhead(s) ELSE s
TickAt(s, pasm) ==
  IF s.err # "" \/ Is(s, "end") THEN s
  ELSE Ticks(TextBehind(BehindTick(Skip(s), At(s, s.p + 1), pasm)), pasm)
Ticks(s, pasm) == TickAt(SkipToTick(s), pasm)
SkipToEndOfLine(s) == [s EXCEPT !.p = Len(s.els) + 1]
AfterText(s, pasm, more) == IF more THEN Ticks(s, pasm) ELSE SkipToEndOfLine(s)
ProcessBackTickDebug(s, d) ==
  LET raw == RawText(d.line, 3, 0)
  IN  AfterText(EnterString(s, <<d.line[2].ch>> \o raw.chars), d.pasm, raw.tick)

Opened(d) == [els |-> Elements(d), p |-> 1, rec |-> IF d.pasm THEN <<DcAsm>> ELSE <<>>, code |-> <<>>,
             depth |-> 0, first |-> TRUE, err |-> "", n |-> 0]
\* with a bit in brackets the mask decides, but only where DEBUG is enabled at all
DebugMaskError(d) ==
  CASE d.on /\ d.bit \ 0..31 # {} -> "mask bit-number must be 0..31"
    [] d.on /\ d.bit # {} /\ d.bit \subseteq 0..31 /\ ~d.maskDefined -> "mask must be defined"
    [] OTHER -> ""
DebugStatementWillEmitCode(d) == d.on /\ d.bit \subseteq d.mask
\* what stands in the image behind the code of the values: DEBUG, the bytes to take from the
\* stack, and the code of the record, a place that is kept for the object cache; in PASM the
\* code goes into the BRK instruction
Finished(s, rec, bytes) == [done |-> TRUE, err |-> s.err, on |-> TRUE, rec |-> rec, code |-> s.code, bytes |-> bytes]
EnterDebug(s, pasm) == Finished(s, DebugEnterByte(s, 0).rec, IF pasm THEN <<>> ELSE <<"bc_debug", s.depth, "brk site">>)
Parenthesised(s, d) ==
  CASE Is(s, "right") -> [Skip(s) EXCEPT !.rec = <<>>]
    [] Is(s, "tick") -> ProcessBackTickDebug(Skip(s), d)
    [] OTHER -> ProcessNonTickDebug(s, d.pasm)
\* the caller goes on only at the end of the line
GetEndOfLine(s) == Get(s, "end")
Entered(s, d) ==
  IF Is(s, "left") THEN EnterDebug(GetEndOfLine(Parenthesised(Skip(s), d)), d.pasm)
  ELSE Finished(GetEndOfLine(s), <<>>, IF d.pasm THEN <<>> ELSE <<"bc_debug", 0, 0>>)
CiDebug(d) ==
  CASE DebugMaskError(d) # "" -> Finished(Fail(Opened(d), DebugMaskError(d)), <<>>, <<>>)
    [] DebugMaskError(d) = "" /\ DebugStatementWillEmitCode(d) -> Entered(Opened(d), d)
    [] OTHER -> [done |-> TRUE, err |-> "", on |-> FALSE]

Next ==
  /\ ~entered.done
  /\ entered' = CiDebug(debug)
  /\ UNCHANGED debug
----------------------------------------------------------------------------
(* The debugger reads the record: r.i is its place, r.vals what it takes   *)
(* values from, r.out what it displays.                                    *)

RECURSIVE GetString(_, _)
GetString(rec, i) == IF rec[i] = 0 THEN <<>> ELSE <<rec[i]>> \o GetString(rec, i + 1)
GetVal(r) ==
  LET b == r.rec[r.i]
      c == r.rec[r.i + 1]
      long == FoldLeftDomain(LAMBDA sum, k : sum + r.rec[r.i + k] * 256 ^ (k - 1), 0, <<1, 2, 3, 4>>)
  IN  CASE ~r.asm -> [r EXCEPT !.got = IF r.vals = <<>> THEN -1 ELSE Head(r.vals), !.vals = IF @ = <<>> THEN @ ELSE Tail(@), !.taken = @ + 1]
        [] r.asm /\ b >= 128 -> [r EXCEPT !.got = <<"reg", (b % 4) * 256 + c>>, !.i = @ + 2]
        [] r.asm /\ b \in 64..127 -> [r EXCEPT !.got = <<"imm", long>>, !.i = @ + 5]
        [] OTHER -> [r EXCEPT !.got = <<"imm", b * 256 + c>>, !.i = @ + 2]
Shows(r, what) == [r EXCEPT !.out = Append(@, what)]
ArgCmd(r, z) ==
  LET name == IF Bit(z, 1) THEN <<>> ELSE GetString(r.rec, r.i)
      a == GetVal(IF Bit(z, 1) THEN r ELSE [r EXCEPT !.i = @ + Len(name) + 1])
      b == IF Bit(z, 4) THEN GetVal(a) ELSE a
  IN  Shows(b, [do |-> "arg", cmd |-> z \div 4, comma |-> ~Bit(z, 0), name |-> name,
                vals |-> IF Bit(z, 4) THEN <<a.got, b.got>> ELSE <<a.got>>])
RECURSIVE DebugByte(_)
DebugByte(r) ==
  LET z == r.rec[r.i]
      on == [r EXCEPT !.i = @ + 1]
      v == GetVal(on)
      text == GetString(r.rec, on.i)
  IN  CASE z >= 32 -> DebugByte(ArgCmd(on, z))
        [] z = DcAsm -> DebugByte([on EXCEPT !.asm = TRUE])
        [] z \in {DcIf, DcIfnot} -> DebugByte(Shows(v, [do |-> IF z = DcIf THEN "if" ELSE "ifnot", v |-> v.got]))
        [] z = DcCogn -> DebugByte(Shows(on, [do |-> "cog"]))
        [] z = DcChr -> DebugByte(Shows(v, [do |-> "chr", v |-> v.got]))
        [] z = DcStr -> DebugByte(Shows([on EXCEPT !.i = @ + Len(text) + 1], [do |-> "str", text |-> text]))
        [] z \in {DcCZPre, DcCZ} -> DebugByte(Shows(on, [do |-> "c_z", comma |-> z = DcCZPre]))
        [] z \in {DcDly, DcPcKey, DcPcMouse} -> Shows(v, [do |-> "last", cmd |-> z, v |-> v.got])
        [] OTHER -> r
\* DEBUG of the interpreter takes the longs that rfvar says from the stack, whose first is old
Popped(e) == IF e.bytes = <<>> THEN 0 ELSE e.bytes[2]
Debugger(e) ==
  LET stack == e.code
      base == Len(stack) - (Popped(e) \div 4)
  IN  DebugByte([rec |-> e.rec, i |-> 1, asm |-> FALSE, vals |-> SubSeq(stack, base + 1, Len(stack)),
                 got |-> 0, taken |-> 0, out |-> <<>>])
=============================================================================
