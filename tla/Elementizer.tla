---------------------------- MODULE Elementizer -----------------------------
(***************************************************************************)
(* The elements of a text (spinElementizer.ts).  Each call of              *)
(* get_element_entries passes over white space, continued lines and        *)
(* comments and returns what stands behind them: a constant, a name, an    *)
(* operator, the characters of a string, an end.                           *)
(*                                                                         *)
(* A line is a sequence of characters.  Letters are "a" to "f", which are  *)
(* hexadecimal digits too, and "g" for all others; upper case is folded.   *)
(***************************************************************************)
EXTENDS Integers, Sequences, SequencesExt

CONSTANTS SymbolLimit,   \* characters of a name: 30 in the code
          MaxConstant,   \* the largest integer: $FFFF_FFFF in the code
          MaxExponent    \* the largest power of ten of a float: 38 in the code

VARIABLES text,   \* the preprocessed lines
          lex     \* the elementizer: its line and what is left of it, and the elements so far
lexVars == <<text, lex>>

White == " "
Tick == "tick"   \* a backtick
Dots == <<".", ".", ".">>
Figures == <<"0", "1", "2", "3", "4", "5", "6", "7", "8", "9", "a", "b", "c", "d", "e", "f">>
Digits(base) == {Figures[k] : k \in 1..base}
Letters == {Figures[k] : k \in 11..16} \cup {"g", "_"}
DebugWord == <<"d">>   \* the word debug
\* the operators that are made of the characters ( ) [ ] , # . + < = > and backtick
OperatorSymbols ==
  {<<c>> : c \in {"(", ")", "[", "]", ",", "=", "#", ".", Tick, "+", "<", ">"}}
  \cup {<<".", ".">>, <<"+", "+">>, <<">", ">">>, <<"<", "<">>, <<"#", ">">>, <<"<", "#">>, <<"+", "<">>, <<"<", "=">>,
        <<"=", "=">>, <<"<", ">">>, <<">", "=">>, <<"+", ">">>, <<"<", ".">>, <<">", ".">>, <<"+", ".">>}
  \cup {<<"+", "<", "=">>, <<"+", ">", "=">>, <<"<", "=", ">">>, <<"<", ">", ".">>, <<"=", "=", ".">>, <<"<", "=", ".">>,
        <<">", "=", ".">>}

Char(s, i) == IF i \in DOMAIN s.rest THEN s.rest[i] ELSE ""
Starts(s, prefix) == IsPrefix(prefix, s.rest)
Refuse(s, why) == [s EXCEPT !.in = "refused", !.err = why]

\* a slip: the end of the text is not noticed
LoadNextLineEndless(s) ==
  IF s.line < Len(text) THEN [s EXCEPT !.line = @ + 1, !.rest = text[s.line + 1], !.eol = text[s.line + 1] = <<>>, !.atStart = TRUE]
  ELSE [s EXCEPT !.eol = TRUE]
\* behind the last line nothing changes but the two flags: rest stays what it was
LoadNextLine(s) ==
  IF s.line < Len(text) THEN [s EXCEPT !.line = @ + 1, !.rest = text[s.line + 1], !.eol = text[s.line + 1] = <<>>, !.atStart = TRUE]
  ELSE [s EXCEPT !.eol = TRUE, !.eof = TRUE]
Cut(s, n) == [s EXCEPT !.rest = SubSeq(@, n + 1, Len(@))]
\* whatever is consumed up to its end stays in rest as well
SkipAhead(s, n) == IF n >= Len(s.rest) THEN [s EXCEPT !.eol = TRUE, !.atStart = FALSE] ELSE [Cut(s, n) EXCEPT !.atStart = FALSE]
\* the first place from i on where rest holds one of a set of characters, or 0
FindFrom(s, i, chars) == LET at == {j \in i..Len(s.rest) : s.rest[j] \in chars} IN IF at = {} THEN 0 ELSE Min(at)
\* the last place of the run of such characters that starts at i, i - 1 if there is none
RunOf(s, i, chars) == LET other == {j \in i..Len(s.rest) : s.rest[j] \notin chars} IN IF other = {} THEN Len(s.rest) ELSE Min(other) - 1
SkipWhite(s) == LET n == RunOf(s, 1, {White}) IN IF n = 0 THEN s ELSE SkipAhead(s, n)
----------------------------------------------------------------------------
(* Comments, before which the line stands at the first of its other        *)
(* characters or at its end.                                               *)

DocClose(s) == LET at == {i \in 1..(Len(s.rest) - 1) : s.rest[i] = "}" /\ s.rest[i + 1] = "}"} IN IF at = {} THEN 0 ELSE Min(at)
\* inside a comment the next line is looked at, which has to be there
InNextLine(s, close) == LET next == LoadNextLine(s) IN IF next.eof THEN Refuse(next, close) ELSE [next EXCEPT !.sameLine = FALSE]
\* a slip: a comment within a comment is not counted
DepthFlat(s, brace) == s.depth - IF brace = "{" THEN 0 ELSE 1
Depth(s, brace) == s.depth + IF brace = "{" THEN 1 ELSE -1

\* the two loops over comments, the document comments first
SkipDocComments ==
  /\ lex.in = "docs"
  /\ lex' = IF Starts(lex, <<"{", "{">>) THEN [Cut(lex, 2) EXCEPT !.in = "inDoc", !.sameLine = TRUE]
            ELSE [lex EXCEPT !.in = "comments"]
\* on the line of the opening braces, which are cut off, they are counted again
SkipToLineWithDocCommentClose ==
  /\ lex.in = "inDoc"
  /\ LET i == DocClose(lex)
     IN  lex' = IF i = 0 THEN InNextLine(lex, "}}")
                ELSE [SkipWhite(SkipAhead(lex, (i - 1) + (IF lex.sameLine THEN 4 ELSE 2))) EXCEPT !.in = "docs"]
SkipComments ==
  /\ lex.in = "comments"
  /\ lex' = IF Starts(lex, <<"{">>) THEN [Cut(lex, 1) EXCEPT !.in = "inComment", !.depth = 1]
            ELSE [lex EXCEPT !.in = "element"]
SkipToLineWithNonDocCommentClose ==
  /\ lex.in = "inComment"
  /\ LET i == FindFrom(lex, 1, {"{", "}"})
     IN  lex' = IF i = 0 THEN InNextLine(lex, "}")
                ELSE IF Depth(lex, lex.rest[i]) = 0 THEN [SkipWhite(SkipAhead(lex, i)) EXCEPT !.in = "comments"]
                ELSE [Cut(lex, i) EXCEPT !.depth = Depth(lex, lex.rest[i])]
----------------------------------------------------------------------------
(* Elements.  An end of line that follows another one is dropped.          *)

Emit(s, elements) ==
  [s EXCEPT !.in = "entries", !.out = @ \o [k \in DOMAIN elements |-> [line |-> s.line, e |-> elements[k]]], !.last = FALSE]
EmitEnd(s) == IF s.last THEN [s EXCEPT !.in = "entries"] ELSE [Emit(s, <<"end">>) EXCEPT !.last = TRUE]
\* one element, of the next n characters
Take(s, n, e) == SkipAhead(Emit(s, <<e>>), n)
\* the elements of a string: its characters with commas between them
StringElements(chars) == [k \in 1..(2 * Len(chars) - 1) |-> IF k % 2 = 1 THEN <<"char", chars[(k + 1) \div 2]>> ELSE "comma"]

Init ==
  /\ lex = LoadNextLine([line |-> 0, rest |-> <<>>, eol |-> FALSE, eof |-> FALSE, atStart |-> TRUE, last |-> TRUE,
                         in |-> "entries", sameLine |-> FALSE, depth |-> 0, out |-> <<>>, err |-> "",
                         first |-> FALSE, debug |-> "none", parens |-> 0])

ContinuesOrNot(s) == [s EXCEPT !.in = IF Starts(s, Dots) THEN "dots" ELSE "docs"]
\* a line begins outside of a DEBUG statement; behind an inserted value white space is text
GetElementEntries ==
  /\ lex.in = "entries"
  /\ LET s == [lex EXCEPT !.first = lex.atStart, !.debug = IF lex.atStart THEN "none" ELSE @]
     IN  lex' = ContinuesOrNot(IF s.debug = "trailing" THEN s ELSE SkipWhite(s))
\* a pass of the loop over continued lines
ContinueLine ==
  /\ lex.in = "dots"
  /\ lex' = ContinuesOrNot(SkipWhite(LoadNextLine(lex)))
EndFile ==
  /\ lex.in = "element" /\ lex.eof
  /\ lex' = [Emit(lex, <<"end_file">>) EXCEPT !.in = "done"]
EndLine ==
  /\ lex.in = "element" /\ lex.eol /\ ~lex.eof
  /\ lex' = LoadNextLine(EmitEnd(lex))
InLine == lex.in = "element" /\ ~lex.eof /\ ~lex.eol
\* the text of a DEBUG statement: up to a backtick on its line, or else a parenthesis
TickString ==
  /\ InLine /\ lex.debug \in {"leading", "trailing"}
  /\ LET tick == FindFrom(lex, 1, {Tick})
         end == IF tick = 0 THEN FindFrom(lex, 1, {")"}) ELSE tick
         s == [lex EXCEPT !.debug = "waiting"]
     IN  lex' = IF end <= 1 THEN Emit(s, <<>>) ELSE SkipAhead(Emit(s, StringElements(SubSeq(lex.rest, 1, end - 1))), end - 1)
InCode == InLine /\ lex.debug \notin {"leading", "trailing"}
Sees(c) == InCode /\ Char(lex, 1) = c
String ==
  /\ Sees("\"")
  /\ LET close == FindFrom(lex, 2, {"\""})
     IN  lex' = CASE close = 0 -> Refuse(lex, "expected a terminating quote")
                  [] close = 2 -> Refuse(lex, "empty string")
                  [] OTHER -> SkipAhead(Emit(lex, StringElements(SubSeq(lex.rest, 2, close - 1))), close)
LineComment == Sees("'") /\ lex' = LoadNextLine(EmitEnd(lex))
LoneClose == Sees("}") /\ lex' = Refuse(lex, "lone }")
----------------------------------------------------------------------------
(* Constants.                                                              *)

Value(chars, base) ==
  FoldLeft(LAMBDA v, c : IF c = "_" THEN v ELSE v * base + (CHOOSE k \in 1..16 : Figures[k] = c) - 1, 0, chars)
\* the digits behind a prefix
Integer(s, prefix, last, base) ==
  LET value == Value(SubSeq(s.rest, prefix + 1, last), base)
  IN  IF value > MaxConstant THEN Refuse(s, "exceeds 32 bits") ELSE Take(s, last, <<"con_int", value>>)
Figure(i, base) == Char(lex, i) \in Digits(base)
RunOfDigits(s, i, base) == RunOf(s, i, Digits(base) \cup {"_"})

\* what get_float takes: at most one point, and the exponent with its sign
Mantissa(s) ==
  LET n == RunOfDigits(s, 1, 10) IN IF Char(s, n + 1) = "." THEN RunOfDigits(s, n + 2, 10) ELSE n
FloatSize(s) ==
  LET n == Mantissa(s)
      sign == IF Char(s, n + 2) \in {"+", "-"} THEN 1 ELSE 0
  IN  IF Char(s, n + 1) = "e" THEN [mantissa |-> n, exponent |-> n + 2 + sign, last |-> RunOfDigits(s, n + 2 + sign, 10)]
      ELSE [mantissa |-> n, exponent |-> n + 1, last |-> n]
\* the magnitude up to its power of ten: the last rounding is that of a product of floats
FloatOK(s, size) ==
  LET digits == SelectSeq(SubSeq(s.rest, 1, size.mantissa), LAMBDA c : c # "_")
      point == SelectInSeq(digits, LAMBDA c : c = ".")
      power == Value(SubSeq(s.rest, size.exponent, size.last), 10)
      shift == IF point = 0 THEN 0 ELSE Len(digits) - point
      ten == (IF Char(s, size.exponent - 1) = "-" THEN -power ELSE power) - shift
  IN  /\ size.exponent > size.mantissa + 1 => Char(s, size.exponent) \in Digits(10) /\ power <= 255
      /\ ten <= MaxExponent \/ \A k \in DOMAIN digits : digits[k] \in {"0", "."}
Float(s, size) ==
  IF FloatOK(s, size) THEN Take(s, size.last, <<"con_float", SubSeq(s.rest, 1, size.last)>>) ELSE Refuse(s, "exceeds a float")
Decimal ==
  /\ InCode /\ Figure(1, 10)
  /\ LET n == RunOfDigits(lex, 1, 10)
         float == Char(lex, n + 1) = "e" \/ (Char(lex, n + 1) = "." /\ Figure(n + 2, 10))
     IN  lex' = IF float THEN Float(lex, FloatSize(lex)) ELSE Integer(lex, 0, n, 10)
Hexadecimal == Sees("$") /\ Figure(2, 16) /\ lex' = Integer(lex, 1, RunOfDigits(lex, 2, 16), 16)
Dollar ==
  /\ Sees("$") /\ ~Figure(2, 16)
  /\ lex' = IF Char(lex, 2) = "$" THEN Take(lex, 2, "dollar2") ELSE Take(lex, 1, "dollar")
\* the class of the first digits takes an opening bracket for one, where the value ends
Bracketed(s, prefix, base) ==
  LET last == RunOfDigits(s, RunOf(s, prefix + 1, Digits(base) \cup {"["}) + 1, base)
      bracket == FindFrom(s, prefix + 1, {"["})
      value == Value(SubSeq(s.rest, prefix + 1, IF bracket \in 1..last THEN bracket - 1 ELSE last), base)
  IN  IF value > MaxConstant THEN Refuse(s, "exceeds 32 bits") ELSE Take(s, last, <<"con_int", value>>)
Quaternary == Sees("%") /\ Char(lex, 2) = "%" /\ Figure(3, 4) /\ lex' = Bracketed(lex, 2, 4)
Binary == Sees("%") /\ Figure(2, 2) /\ lex' = Bracketed(lex, 1, 2)
PackedAscii ==
  /\ Sees("%") /\ Char(lex, 2) = "\"" /\ FindFrom(lex, 3, {"\""}) # 0
  /\ LET close == FindFrom(lex, 3, {"\""})
     IN  lex' = IF close - 3 \in 1..4 THEN Take(lex, close, <<"con_int", SubSeq(lex.rest, 3, close - 1)>>)
                ELSE Refuse(lex, "packed ascii must be 1-4 characters")
Percent ==
  /\ Sees("%") /\ ~Figure(2, 2)
  /\ ~(Char(lex, 2) = "%" /\ Figure(3, 4)) /\ ~(Char(lex, 2) = "\"" /\ FindFrom(lex, 3, {"\""}) # 0)
  /\ lex' = Take(lex, 1, "percent")
----------------------------------------------------------------------------
(* Names and operators, which also say where a DEBUG statement has text.   *)

SymbolName ==
  /\ InCode /\ Char(lex, 1) \in Letters
  /\ LET n == RunOf(lex, 1, Letters \cup Digits(10))
         name == SubSeq(lex.rest, 1, n)
     IN  lex' = CASE n > SymbolLimit -> Refuse(lex, "symbol exceeds its limit")
                  [] n <= SymbolLimit /\ name = DebugWord ->
                       Take([lex EXCEPT !.debug = IF lex.first THEN "found" ELSE @], n, "debug")
                  [] OTHER -> Take(lex, n, <<"name", name>>)
\* the longest operator that the line starts with, 0 characters if there is none
OperatorConvert(s) == Max({0} \cup {n \in 1..3 : n <= Len(s.rest) /\ SubSeq(s.rest, 1, n) \in OperatorSymbols})
Closed(s) == IF s.parens > 0 THEN s.parens - 1 ELSE 0
InDebug(s, symbol) ==
  CASE symbol = <<"(">> /\ s.debug = "found" -> [s EXCEPT !.debug = "open"]
    [] symbol = <<"(">> /\ s.debug = "waiting" -> [s EXCEPT !.parens = @ + 1]
    [] symbol = <<")">> /\ s.debug = "waiting" -> [s EXCEPT !.parens = Closed(s), !.debug = IF Closed(s) = 0 THEN "trailing" ELSE @]
    [] symbol = <<Tick>> -> [s EXCEPT !.debug = IF @ = "open" THEN "leading" ELSE @, !.parens = 0]
    [] OTHER -> s
Operator ==
  /\ InCode /\ Char(lex, 1) \notin Letters \cup Digits(10) \cup {"\"", "'", "$", "%", "}"}
  /\ LET n == OperatorConvert(lex)
         symbol == SubSeq(lex.rest, 1, n)
     IN  lex' = IF n = 0 THEN Refuse(lex, "unrecognized character") ELSE InDebug(Take(lex, n, <<"op", symbol>>), symbol)

Next ==
  /\ \/ GetElementEntries \/ ContinueLine \/ SkipDocComments \/ SkipToLineWithDocCommentClose
     \/ SkipComments \/ SkipToLineWithNonDocCommentClose
     \/ EndFile \/ EndLine \/ TickString \/ String \/ LineComment \/ LoneClose
     \/ Decimal \/ Hexadecimal \/ Dollar \/ Quaternary \/ Binary \/ PackedAscii \/ Percent \/ SymbolName \/ Operator
  /\ UNCHANGED text
\* the elementizer runs on its own until the last element
FairSpec == Init /\ [][Next]_lexVars /\ WF_lexVars(Next)
=============================================================================
