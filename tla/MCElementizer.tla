---------------------------- MODULE MCElementizer ----------------------------
(***************************************************************************)
(* Small texts for Elementizer, and what they mean: the text is one run of *)
(* characters with an end behind each line.  White space, comments and     *)
(* continuations stand for nothing, wherever they begin and end.           *)
(***************************************************************************)
EXTENDS Elementizer, FiniteSets

LongName == <<"g", "1", "a", "_">>
Lines == {<<>>, <<"g">>, <<" ", "1", " ">>, <<"+", "'", "}">>, <<"\"", "g", "{", "\"", "1", "1">>,
          <<"g", " ">> \o Dots \o <<"+">>, Dots, <<"{", "g", "}", "1">>, <<"{", "g", "}", " ", "{", "}">>, <<"{", "g", "}">> \o Dots \o <<"+">>,
          <<"{", "g", "{">>, <<"}", "g">>, <<" ", "}", "}", "+">>, <<"{", "{", "g">>, <<"{", "{", "g", "}", "}">>,
          <<"'", "{">>, <<"\"", "g">>, <<"\"", "\"">>, <<"d", "(", Tick, "g">>}
\* lines whose comments, ends and continuations meet those of the lines around them
Meeting == {<<>>, <<" ", "1">>, <<"'", "{">>, <<"g", " ">> \o Dots, <<"{", "g", "{">>, <<"}", "}", "+">>, <<"{", "{">>}
Words(chars) == UNION {[1..n -> chars] : n \in 1..4}
Constants == Words({"%", "$", "1", "3", "_", ".", "e", "\""})
             \cup {<<"1", ".", "3", "e", "+", "1">>, <<"3", "e", "-", "1", "_", "1">>, <<"0", ".", "0", "e", "9">>, <<"1", ".", "3", "e", "5">>, <<"$", "f">>, <<"1", "6">>,
                   <<"%", "\"", "g", "g", "g", "g", "\"">>, <<"%", "\"", "g", "g", "g", "g", "g", "\"">>, LongName}
Operators == Words({".", "<", "=", ">", "+"}) \cup {<<";">>}
\* what stands behind the backtick that opens the text of a DEBUG statement
DebugTexts == {<<"d", "(", Tick>> \o w : w \in Words({Tick, "(", ")", "g", " "}) \cup {<<"g", "'">>, <<"g", ")", "{", "g", "}", "g", ")">>,
                                                  <<"g", Tick, "(", "(", "g", ")", "1", ")", "g", ")">>,
                                                  <<"g", Tick, "(", Tick, "(", "g", ")", "g", ")">>}}
Behind == {<<" ", "d", "(", Tick, "g", ")">>, <<"1", "d", "(", Tick, "g", ")">>}   \* first on its line, or not

\* a continuation has a line to continue with
Ends(lines) == LET l == lines[Len(lines)] IN ~\E k \in 1..(Len(l) - 2) : SubSeq(l, k, k + 2) = Dots
Texts ==
  {lines \in [1..3 -> Lines] \cup [1..4 -> Meeting] : Ends(lines)}
  \cup {lines \in {<<l>> : l \in Constants \cup Operators \cup DebugTexts} : Ends(lines)}
  \cup {<<l, m>> : l \in Meeting, m \in Behind}
MCInit == text \in Texts /\ Init
----------------------------------------------------------------------------
(* What a text means.                                                      *)

Written(lines) ==
  FlattenSeq([n \in DOMAIN lines |-> [k \in 1..(Len(lines[n]) + 1) |->
    [c |-> IF k > Len(lines[n]) THEN "end" ELSE lines[n][k], line |-> n]]])
Is(t, i, chars) == i + Len(chars) - 1 <= Len(t) /\ \A k \in DOMAIN chars : t[i + k - 1].c = chars[k]
Of(t, i, j) == [k \in 1..(j - i + 1) |-> t[i + k - 1].c]
Opens(t, i, j) == Cardinality({k \in i..j : t[k].c = "{"})
Closes(t, i, j) == Cardinality({k \in i..j : t[k].c = "}"})
First_(t, i, P(_)) == LET at == {j \in i..Len(t) : P(j)} IN IF at = {} THEN 0 ELSE Min(at)
\* the last letter of the comment that opens at i, 0 when it is never closed
DocEnd(t, i) ==
  LET Ends_(j) == j >= i + 3 /\ Is(t, j - 1, <<"}", "}">>) IN First_(t, i, Ends_)
CommentEnd(t, i) ==
  LET Ends_(j) == Opens(t, i, j) = Closes(t, i, j) IN First_(t, i, Ends_)
LineEnd(t, i) == LET IsEnd(j) == t[j].c = "end" IN First_(t, i, IsEnd)
\* the next such letter on the line, or its end
OnLine(t, i, c) == LET Found(j) == t[j].c \in {c, "end"} IN First_(t, i, Found)
\* three dots behind a comment on their line do not continue it
BehindComment(t, i) == \E j \in 1..(i - 1) : t[j].c = "}" /\ \A k \in (j + 1)..(i - 1) : t[k].c = " "

\* where the longest piece of the text that has a form ends, 0 if none has
LongestEnd(t, i, Form(_)) == Max({0} \cup {j \in i..(LineEnd(t, i) - 1) : Form(Of(t, i, j))})
Among(w, chars) == \A k \in DOMAIN w : w[k] \in chars
IsDigits(w, base) == Len(w) > 0 /\ w[1] \in Digits(base) /\ Among(w, Digits(base) \cup {"_"})
Behind_(w, prefix) == SubSeq(w, Len(prefix) + 1, Len(w))
IsNumeral(w, prefix, base) == IsPrefix(prefix, w) /\ IsDigits(Behind_(w, prefix), base)
IsName(w) == w[1] \in Letters /\ Among(w, Letters \cup Digits(10))
IsOperator(w) == w \in OperatorSymbols
IsFraction(w) ==
  \E k \in 2..(Len(w) - 1) : IsDigits(SubSeq(w, 1, k - 1), 10) /\ w[k] = "." /\ IsDigits(SubSeq(w, k + 1, Len(w)), 10)
IsMantissa(w) == IsDigits(w, 10) \/ IsFraction(w)
\* mantissa and exponent
Parts(w) ==
  LET k == SelectInSeq(w, LAMBDA c : c = "e") IN IF k = 0 THEN <<w, <<"0">>>> ELSE <<SubSeq(w, 1, k - 1), SubSeq(w, k + 1, Len(w))>>
IsFloat(w) ==
  \/ IsFraction(w)
  \/ /\ IsMantissa(Parts(w)[1])
     /\ LET e == Parts(w)[2] IN IsDigits(e, 10) \/ (Len(e) > 1 /\ e[1] \in {"+", "-"} /\ IsDigits(Tail(e), 10))
StartsExponent(w) == w[Len(w)] = "e" /\ IsMantissa(SubSeq(w, 1, Len(w) - 1))

DigitAt(c) == (CHOOSE k \in DOMAIN Figures : Figures[k] = c) - 1
NumberOf(w, base) ==
  LET figures == SelectSeq(w, LAMBDA c : c # "_")
  IN  FoldFunction(LAMBDA x, y : x + y, 0, [k \in DOMAIN figures |-> DigitAt(figures[k]) * base ^ (Len(figures) - k)])
Signed(e) == CASE e[1] = "-" -> -NumberOf(Tail(e), 10) [] e[1] = "+" -> NumberOf(Tail(e), 10) [] OTHER -> NumberOf(e, 10)
InRange(w) ==
  LET m == SelectSeq(Parts(w)[1], LAMBDA c : c # "_")
  IN  \/ Among(m, {"0", "."})
      \/ Signed(Parts(w)[2]) - (IF IsFraction(m) THEN Len(m) - SelectInSeq(m, LAMBDA c : c = ".") ELSE 0) <= MaxExponent

At(t, i, e) == [line |-> t[i].line, e |-> e]
Ended(out) == out = <<>> \/ out[Len(out)].e = "end"
Spelled(t, i, j) == [k \in 1..(2 * (j - i) + 1) |-> At(t, i, IF k % 2 = 0 THEN "comma" ELSE <<"char", t[i + ((k - 1) \div 2)].c>>)]
\* what is read at letter i, and where it goes on: 0 where the text means nothing; within a DEBUG
\* statement d says where, and n how many parentheses of an inserted value are open
From(r, i, out) == [r EXCEPT !.i = i, !.out = out]
Nothing(r) == From(r, 0, r.out)
Line_(r, i, out) == [From(r, i, out) EXCEPT !.d = "line"]
Constant(r, t, j, base, prefix) ==
  LET v == NumberOf(SubSeq(Of(t, r.i, j), prefix + 1, j - r.i + 1), base)
  IN  IF v > MaxConstant THEN Nothing(r) ELSE From(r, j + 1, Append(r.out, At(t, r.i, <<"con_int", v>>)))
Parenthesis(r, w) ==
  CASE w = <<"(">> /\ r.d = "debug" -> [r EXCEPT !.d = "debug("]
    [] w = <<"(">> /\ r.d = "inserted" -> [r EXCEPT !.n = @ + 1]
    [] w = <<")">> /\ r.d = "inserted" -> IF r.n <= 1 THEN [r EXCEPT !.d = "text", !.n = 0] ELSE [r EXCEPT !.n = @ - 1]
    [] w = <<Tick>> -> [r EXCEPT !.d = IF @ = "debug(" THEN "opened" ELSE @, !.n = 0]
    [] OTHER -> r
ReadCode(t, r) ==
  LET i == r.i
      c == t[i].c
      Emits(j, e) == From(r, j + 1, Append(r.out, At(t, i, e)))
      Numeral(prefix, base) == LET Form(w) == IsNumeral(w, prefix, base) IN LongestEnd(t, i, Form)
      hex == Numeral(<<"$">>, 16)
      four == Numeral(<<"%", "%">>, 4)
      two == Numeral(<<"%">>, 2)
      ten == Numeral(<<>>, 10)
      name == LongestEnd(t, i, IsName)
      op == LongestEnd(t, i, IsOperator)
      float == LongestEnd(t, i, IsFloat)
      halfFloat == LongestEnd(t, i, StartsExponent)
      close == OnLine(t, i + 1, "\"")
      packed == IF Is(t, i, <<"%", "\"">>) THEN OnLine(t, i + 2, "\"") ELSE LineEnd(t, i)
  IN  CASE c = "\"" -> IF t[close].c = "end" \/ close = i + 1 THEN Nothing(r)
                       ELSE From(r, close + 1, r.out \o [k \in DOMAIN Spelled(t, i + 1, close - 1) |-> [Spelled(t, i + 1, close - 1)[k] EXCEPT !.line = t[i].line]])
        [] c \in Digits(10) ->
             CASE float > ten -> IF halfFloat <= float /\ InRange(Of(t, i, float))
                                 THEN Emits(float, <<"con_float", Of(t, i, float)>>) ELSE Nothing(r)
               [] float <= ten /\ halfFloat > ten -> Nothing(r)
               [] OTHER -> Constant(r, t, ten, 10, 0)
        [] c = "$" -> CASE hex # 0 -> Constant(r, t, hex, 16, 1)
                        [] Is(t, i, <<"$", "$">>) -> Emits(i + 1, "dollar2")
                        [] OTHER -> Emits(i, "dollar")
        [] c = "%" -> CASE four # 0 -> Constant(r, t, four, 4, 2)
                        [] two # 0 -> Constant(r, t, two, 2, 1)
                        [] t[packed].c = "\"" -> IF packed - i - 2 \in 1..4 THEN Emits(packed, <<"con_int", Of(t, i + 2, packed - 1)>>) ELSE Nothing(r)
                        [] OTHER -> Emits(i, "percent")
        [] c = "}" -> Nothing(r)
        [] name # 0 -> CASE name - i + 1 > SymbolLimit -> Nothing(r)
                         [] Of(t, i, name) = DebugWord -> [Emits(name, "debug") EXCEPT !.d = IF Ended(r.out) THEN "debug" ELSE @]
                         [] OTHER -> Emits(name, <<"name", Of(t, i, name)>>)
        [] OTHER -> IF op = 0 THEN Nothing(r) ELSE Parenthesis(Emits(op, <<"op", Of(t, i, op)>>), Of(t, i, op))
\* the text of a DEBUG statement ends at a backtick or, on a line without one, at a parenthesis
ReadText(t, r) ==
  LET tick == OnLine(t, r.i, Tick)
      end == IF t[tick].c = "end" THEN OnLine(t, r.i, ")") ELSE tick
      inserted == [r EXCEPT !.d = "inserted"]
  IN  IF t[end].c = "end" \/ end = r.i THEN inserted ELSE From(inserted, end, r.out \o Spelled(t, r.i, end - 1))
ReadAt(t, r) ==
  LET i == r.i
      c == t[i].c
      behind(j) == IF j = 0 THEN Nothing(r) ELSE [From(r, j + 1, r.out) EXCEPT !.d = IF @ = "text" THEN "opened" ELSE @]
      end == IF Ended(r.out) THEN r.out ELSE Append(r.out, At(t, i, "end"))
  IN  CASE c = " " /\ r.d # "text" -> From(r, i + 1, r.out)
        [] Is(t, i, Dots) /\ ~BehindComment(t, i) ->
             [From(r, LineEnd(t, i) + 1, r.out) EXCEPT !.d = IF @ = "text" THEN "opened" ELSE @]
        [] Is(t, i, <<"{", "{">>) -> behind(DocEnd(t, i))
        [] c = "{" /\ ~Is(t, i, <<"{", "{">>) -> behind(CommentEnd(t, i))
        [] c = "end" -> Line_(r, i + 1, end)
        [] c = "'" /\ r.d \notin {"opened", "text"} -> Line_(r, LineEnd(t, i) + 1, end)
        [] OTHER -> IF r.d \in {"opened", "text"} THEN ReadText(t, r) ELSE ReadCode(t, r)
RECURSIVE Read(_, _)
Read(t, r) ==
  IF r.i = 0 THEN r
  ELSE IF r.i > Len(t) THEN From(r, r.i, Append(r.out, At(t, Len(t), "end_file")))
  ELSE CHOOSE m \in {Read(t, next) : next \in {ReadAt(t, r)}} : TRUE
Meaning == CHOOSE m \in {Read(t, [i |-> 1, out |-> <<>>, d |-> "line", n |-> 0]) : t \in {Written(text)}} : TRUE
----------------------------------------------------------------------------
(* Once it stops, the elementizer has returned the elements of the text    *)
(* and the lines they stand on - nothing of a comment, and nothing lost    *)
(* behind one - or refused a text that means nothing: a comment or string  *)
(* that is not closed, a closing brace of its own, a name too long, a      *)
(* constant too large, a character that nothing begins with.               *)
ReadsAsWritten ==
  /\ lex.in = "done" => Meaning.i # 0 /\ lex.out = Meaning.out
  /\ lex.in = "refused" => Meaning.i = 0

(* It reaches the end of every text whose continuations have a line behind *)
(* them, however its comments and lines end.                               *)
TextEnds == <>(lex.in \in {"done", "refused"})
=============================================================================
