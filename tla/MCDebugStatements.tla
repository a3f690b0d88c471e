-------------------------- MODULE MCDebugStatements --------------------------
(***************************************************************************)
(* Statements of up to three arguments, and backtick statements of up to   *)
(* two inserted values.  A statement is given as a tree: Line writes it as *)
(* the source has it, Meaning says what it displays.                       *)
(***************************************************************************)
EXTENDS DebugStatements

VARIABLE written   \* the tree of the statement

Con(v) == [k |-> "con", v |-> v]
Quoted(v) == [k |-> "quoted", v |-> v]
Live(n) == [k |-> "live", vs |-> <<1000 + n>>, ch |-> 96 + n]
Both(m, n) == [k |-> "live", vs |-> <<1000 + m, 1000 + n>>, ch |-> 64 + m]
Sum(n, v) == [k |-> "sum", n |-> n, v |-> v]
QuotedSum(v, n) == [k |-> "quoted sum", v |-> v, n |-> n]
Reg(v) == [k |-> "reg", v |-> v]
Imm(v) == [k |-> "imm", v |-> v]
Text(chars) == [k |-> "text", chars |-> chars]
Chr(e) == [k |-> "chr", e |-> e]
Cmd(cmd, params) == [k |-> "cmd", cmd |-> cmd, params |-> params]
If(e) == [k |-> "if", e |-> e]
Ifnot(e) == [k |-> "ifnot", e |-> e]
Final(cmd, e) == [k |-> "last", cmd |-> cmd, e |-> e]
Short(by, params) == [k |-> "short", by |-> by, params |-> params]
CZ == [k |-> "cz"]
Paren(params) == [k |-> "paren", params |-> params]
Hash(params) == [k |-> "hash", params |-> params]
----------------------------------------------------------------------------
(* The source.                                                             *)

T(t, ch) == [t |-> t, ch |-> ch]
Comma == T("comma", 44)
ConToken(v) == [t |-> "con", ch |-> 48 + (v % 10), v |-> v]
E(e) ==
  CASE e.k = "con" -> <<ConToken(e.v)>>
    [] e.k = "live" -> <<[t |-> "live", ch |-> e.ch, vs |-> e.vs]>>
    [] e.k = "quoted" -> <<[t |-> "con", ch |-> Quote, v |-> e.v]>>
    [] e.k = "quoted sum" -> <<[t |-> "con", ch |-> Quote, v |-> e.v], T("plus", 43), [t |-> "live", ch |-> 96 + e.n, vs |-> <<1000 + e.n>>]>>
    [] e.k = "sum" -> <<[t |-> "live", ch |-> 96 + e.n, vs |-> <<1000 + e.n>>], T("plus", 43), ConToken(e.v)>>
    [] e.k = "reg" -> <<[t |-> "reg", ch |-> 114, v |-> e.v]>>
    [] e.k = "imm" -> <<T("pound", 35), ConToken(e.v)>>
Joined(seqs) == FoldLeftDomain(LAMBDA acc, i : acc \o (IF i = 1 THEN <<>> ELSE <<Comma>>) \o seqs[i], <<>>, seqs)
InParens(params) == <<T("left", 40)>> \o Joined([i \in DOMAIN params |-> E(params[i])]) \o <<T("right", 41)>>
CmdToken(cmd) == [t |-> "cmd", ch |-> 117, v |-> cmd]
Item(i) ==
  CASE i.k = "text" -> Joined([j \in DOMAIN i.chars |-> <<[t |-> "con", ch |-> i.chars[j], v |-> i.chars[j]]>>])
    [] i.k = "chr" -> E(i.e)
    [] i.k = "cmd" -> <<CmdToken(i.cmd)>> \o InParens(i.params)
    [] i.k \in {"if", "ifnot"} -> <<T(i.k, 105)>> \o InParens(<<i.e>>)
    [] i.k = "last" -> <<CmdToken(i.cmd)>> \o InParens(<<i.e>>)
    [] i.k = "short" -> <<T(i.by, 36)>> \o InParens(i.params)
    [] i.k = "cz" -> <<CmdToken(DcCZPre)>>
    [] i.k = "paren" -> InParens(i.params)
    [] i.k = "hash" -> <<T("pound", 35)>> \o InParens(i.params)
TextTokens(chars) ==
  [i \in DOMAIN chars |-> CASE chars[i] = 40 -> T("left", 40) [] chars[i] = 41 -> T("right", 41)
                            [] chars[i] = 32 -> T("space", 32) [] chars[i] = 39 -> T("quote", 39) [] OTHER -> T("other", chars[i])]
Tick == T("tick", 96)
RECURSIVE Line(_)
Line(w) ==
  CASE w.k = "bare" -> <<>>
    [] w.k = "stray" -> Line(w.of) \o <<T("other", 120)>>
    [] w.k = "items" -> <<T("left", 40)>> \o Joined([i \in DOMAIN w.items |-> Item(w.items[i])]) \o <<T("right", 41)>>
    [] w.k = "tick" -> <<T("left", 40), Tick>> \o TextTokens(w.text)
                       \o FlattenSeq([i \in DOMAIN w.ins |-> <<Tick>> \o Item(w.ins[i].item) \o TextTokens(w.ins[i].text)])
                       \o <<T("right", 41)>>
----------------------------------------------------------------------------
(* What is displayed.                                                      *)

\* an expression that begins with a constant in quotes is named by the constant alone
Named(e) == IF e.k = "quoted sum" THEN <<Quote>> ELSE [i \in DOMAIN E(e) |-> E(e)[i].ch]
Values(e) ==
  CASE e.k \in {"con", "quoted"} -> <<e.v>>
    [] e.k = "live" -> e.vs
    [] e.k \in {"sum", "quoted sum"} -> <<1000 + e.n + e.v>>
    [] OTHER -> <<<<e.k, e.v>>>>
AllValues(params) == FlattenSeq([i \in DOMAIN params |-> Values(params[i])])
\* [name, vals] for each value or pair that a command displays
Shown(cmd, params) ==
  LET all == AllValues(params)
      each == IF Bit(cmd, 4) THEN 2 ELSE 1
      starts(j) == {i \in DOMAIN params : Len(AllValues(SubSeq(params, 1, i - 1))) = j - 1}
      name(j) == IF Bit(cmd, 1) \/ starts(j) = {} THEN <<>> ELSE Named(params[CHOOSE i \in starts(j) : TRUE])
  IN  [n \in 1..(Len(all) \div each) |->
         LET j == each * (n - 1) + 1 IN [name |-> name(j), vals |-> SubSeq(all, j, j + each - 1)]]
\* m.after says whether a value was displayed last: the next is set off by a comma
ShowEach(m, cmd, shown, plain) ==
  [out |-> m.out \o [n \in DOMAIN shown |->
             [do |-> "arg", cmd |-> cmd \div 4,
              comma |-> IF n = 1 THEN m.after /\ ~plain ELSE TRUE, name |-> shown[n].name, vals |-> shown[n].vals]],
   after |-> TRUE]
Show(m, cmd, params, plain) == ShowEach(m, cmd, Shown(cmd, params), plain)
Tell(m, what, after) == [out |-> Append(m.out, what), after |-> after]
ShorthandOf == [ternary |-> 34, dot |-> 46, dollar |-> 162, percent |-> 194]
MeantBy(m, i) ==
  CASE i.k = "text" -> Tell(m, [do |-> "str", text |-> i.chars], FALSE)
    [] i.k = "chr" -> IF i.e.k = "con" /\ i.e.v \in 1..255 THEN Tell(m, [do |-> "str", text |-> <<i.e.v>>], FALSE)
                      ELSE Tell(m, [do |-> "chr", v |-> Values(i.e)[1]], FALSE)
    [] i.k = "cmd" -> Show(m, i.cmd, i.params, FALSE)
    [] i.k \in {"if", "ifnot"} -> Tell(m, [do |-> i.k, v |-> Values(i.e)[1]], m.after)
    [] i.k = "cz" -> Tell(m, [do |-> "c_z", comma |-> m.after], TRUE)
    [] i.k = "last" -> Tell(m, [do |-> "last", cmd |-> i.cmd, v |-> Values(i.e)[1]], m.after)
    [] i.k = "short" -> Show(m, ShorthandOf[i.by], i.params, TRUE)
    [] i.k = "paren" -> Show(m, 98, i.params, TRUE)
    [] i.k = "hash" -> [out |-> m.out \o [j \in DOMAIN i.params |-> [do |-> "chr", v |-> Values(i.params[j])[1]]], after |-> FALSE]
Piece(m, text) == IF text = <<>> THEN m ELSE Tell(m, [do |-> "str", text |-> text], FALSE)
Quiet == [out |-> <<>>, after |-> FALSE]
\* (of a statement that is accepted)
Meaning(w) ==
  LET cog(m) == Tell(m, [do |-> "cog"], m.after)
      conditional == w.items[1].k \in {"if", "ifnot"}
  IN  CASE w.k = "bare" -> <<>>
        [] w.k = "items" /\ w.items = <<>> -> <<>>
        [] w.k = "items" /\ w.items # <<>> ->
             FoldLeft(MeantBy, IF conditional THEN cog(MeantBy(Quiet, w.items[1])) ELSE cog(Quiet),
                      IF conditional THEN Tail(w.items) ELSE w.items).out
        [] w.k = "tick" -> FoldLeft(LAMBDA m, i : Piece(MeantBy(m, i.item), i.text), Piece(Quiet, <<96>> \o w.text), w.ins).out
\* strings that follow each other are one
RECURSIVE Merged(_)
Merged(out) ==
  IF Len(out) < 2 THEN out
  ELSE IF out[1].do = "str" /\ out[2].do = "str"
       THEN Merged(<<[do |-> "str", text |-> out[1].text \o out[2].text]>> \o SubSeq(out, 3, Len(out)))
       ELSE <<out[1]>> \o Merged(Tail(out))
----------------------------------------------------------------------------
(* What the compiler has to accept.                                        *)

Items(w) == CASE w.k = "items" -> w.items [] w.k = "tick" -> [i \in DOMAIN w.ins |-> w.ins[i].item] [] OTHER -> <<>>
Pairs(params) ==   \* no call reaches over the end of a pair
  \A i \in 1..Len(params) : Len(AllValues(SubSeq(params, 1, i - 1))) % 2 = 1 => Len(Values(params[i])) = 1
Params(i) ==
  CASE i.k \in {"cmd", "short", "paren", "hash"} -> i.params
    [] i.k \in {"chr", "if", "ifnot", "last"} -> <<i.e>>
    [] OTHER -> <<>>
GoodItem(i) ==
  LET n == Len(AllValues(Params(i)))
  IN  /\ i.k \in {"if", "ifnot", "last", "chr"} => n = 1
      /\ i.k = "cmd" => n > 0
      /\ i.k = "cmd" /\ Bit(i.cmd, 4) => n % 2 = 0 /\ (Bit(i.cmd, 1) \/ Pairs(i.params))
      /\ \A j \in DOMAIN Params(i) : Params(i)[j].k = "reg" => Params(i)[j].v <= 1023
TakesValue(i) == i.k \notin {"text", "chr", "cz"} \/ (i.k = "chr" /\ ~(i.e.k = "con" /\ i.e.v \in 1..255))
Longs(w) == FoldLeft(LAMBDA sum, i : sum + (IF TakesValue(i) THEN Len(AllValues(Params(i))) ELSE 0), 0, Items(w))
Good(w, pasm) ==
  /\ w.k # "stray"
  /\ \A i \in DOMAIN Items(w) : GoodItem(Items(w)[i]) /\ (Items(w)[i].k = "last" => i = Len(Items(w)))
  /\ pasm \/ Longs(w) <= 31
----------------------------------------------------------------------------
a == Live(1)
b == Live(2)
ab == Both(3, 4)
SpinItems ==
  {Text(<<65, 66>>), Chr(a), Chr(Sum(1, 5)), Chr(Con(0)), Cmd(64, <<a>>), Cmd(64, <<ab, b>>), Cmd(66, <<a, ab>>),
   Cmd(92, <<a, Con(3), b, Con(7)>>), Cmd(92, <<ab, a, b>>), Cmd(92, <<a, ab>>), Cmd(94, <<a, ab, b>>), Cmd(94, <<a, ab>>),
   Cmd(66, <<>>), Cmd(64, <<Quoted(67), b, QuotedSum(65, 1)>>), Chr(ab), CZ, If(a), Ifnot(b), If(ab), Final(DcDly, b), Final(DcPcKey, a)}
PasmItems ==
  {Text(<<65, 66>>), Chr(Reg(511)), Chr(Imm(65)), Cmd(64, <<Reg(0), Imm(16383)>>), Cmd(66, <<Imm(16384), Reg(1023)>>),
   Cmd(64, <<Reg(1024)>>), Cmd(92, <<Imm(2147483647), Reg(256), Reg(5), Imm(255)>>), Cmd(94, <<Reg(7), Imm(0)>>),
   If(Reg(3)), Ifnot(Imm(0)), Final(DcDly, Imm(250)), Final(DcPcMouse, Reg(9))}
\* a run of characters ends where a constant stands that is none, which is then refused
RunEnds(items) == \E i \in 1..(Len(items) - 1) : items[i].k = "text" /\ items[i + 1] = Chr(Con(0))
UpTo(n, set) == UNION {[1..m -> set] : m \in 0..n}
Filled(n) == [i \in 1..n |-> Live(i)]
Long == {<<Cmd(66, Filled(n))>> : n \in {30, 31, 32}} \cup {<<Cmd(64, Filled(15)), Cmd(94, Filled(m))>> : m \in {16, 18}}
Blank == <<32>>
Ins(item, text) == [item |-> item, text |-> text]
InsertsOf(live) ==
  {Paren(<<live>>), Paren(<<live, live>>), Hash(<<live, live>>), Cmd(66, <<live>>), Cmd(64, <<live, live>>), If(live),
   Cmd(94, <<live, live>>)} \cup {Short(t, <<live>>) : t \in DOMAIN ShorthandOf}
TickLines(live) ==
  {[k |-> "tick", text |-> <<120>>, ins |-> <<>>]}
  \cup {[k |-> "tick", text |-> t, ins |-> <<Ins(i, x)>>] : t \in {<<120>>, <<>>}, i \in InsertsOf(live), x \in {<<>>, <<32, 39, 121, 39>>}}
  \cup {[k |-> "tick", text |-> Blank, ins |-> <<Ins(i, x), Ins(j, <<>>)>>] :
          i \in InsertsOf(live), j \in InsertsOf(live) \cup {Final(DcDly, live)}, x \in {<<>>, Blank}}
ItemLines(set, n) == {[k |-> "items", items |-> items] : items \in {q \in UpTo(n, set) : ~RunEnds(q)}}

Written(w, pasm, first) ==
  /\ written = w
  /\ debug = [line |-> Line(w), pasm |-> pasm, first |-> first, on |-> TRUE, bit |-> {}, maskDefined |-> FALSE, mask |-> {}]
  /\ entered = [done |-> FALSE]
MCInit ==
  \/ \E w \in {[k |-> "bare"]} \cup ItemLines(SpinItems, 3) \cup {[k |-> "items", items |-> l] : l \in Long} : Written(w, FALSE, TRUE)
  \/ \E w \in ItemLines(PasmItems, 3) : Written(w, TRUE, FALSE)
  \/ \E w \in TickLines(a) : Written(w, FALSE, TRUE)
  \/ \E w \in TickLines(Reg(6)) : Written(w, TRUE, TRUE)
  \/ \E w \in {[k |-> "bare"]} \cup ItemLines({Text(<<65>>), Cmd(66, <<a>>)}, 1), pasm \in BOOLEAN :
       Written([k |-> "stray", of |-> w], pasm, TRUE)
  \/ \E on \in BOOLEAN, bit \in {0, 31, 32}, mask \in {{}, {0}, {31}, {0, 31}}, defined \in BOOLEAN :
       /\ written = [k |-> "items", items |-> <<Text(<<65>>)>>]
       /\ debug = [line |-> Line(written), pasm |-> FALSE, first |-> TRUE, on |-> on, bit |-> {bit},
                   maskDefined |-> defined, mask |-> IF defined THEN mask ELSE {}]
       /\ entered = [done |-> FALSE]
MCNext == Next /\ UNCHANGED written
----------------------------------------------------------------------------
Recorded == entered.done /\ entered.on /\ entered.err = "" /\ entered.rec # <<>>
Read == Debugger(entered)

\* The debugger displays what the statement says: every string, character and value with its
\* own name and command, in the order of the statement, with a comma in front of a value
\* exactly when a value was displayed before it (spinResolver.ts:6809, 6905).
ShownAsWritten == Recorded => Merged(Read.out) = Merged(Meaning(written))

\* The bytecode pushes one long for each value that the record makes the debugger take, and
\* the DEBUG bytecode takes exactly those from the stack, as one byte says (spinResolver.ts:6649).
ValuesTaken == Recorded => Read.taken = Len(entered.code) /\ Popped(entered) = 4 * Len(entered.code) /\ Popped(entered) < 128

\* A statement that is enabled is refused exactly when its bit is none of the mask's, when more
\* stands on its line, or when its values do not fit: none, or an odd one for an array, more than
\* 31, a register that is none, or anything behind a delay (spinResolver.ts:2580, 6745, 6661).
RefusedRightly ==
  entered.done /\ debug.on =>
    (entered.err = "" <=> Good(written, debug.pasm) /\ debug.bit \subseteq 0..31 /\ (debug.bit # {} => debug.maskDefined))

=============================================================================
