--------------------------- MODULE MCDeclarations ---------------------------
(***************************************************************************)
(* CON blocks of three constants in every form, of chains of five, and of  *)
(* names that are defined twice; the reference reads the declarations as   *)
(* equations, whatever their order.  Objects with a VAR line of up to      *)
(* three items, a method with any header of a few items, or blocks that    *)
(* share names.                                                            *)
(***************************************************************************)
EXTENDS Constants, Declarations, SequencesExt, TLC

MCLongBits == 4
MCImported == ("obj" :> 3)
----------------------------------------------------------------------------
Sum(refs, k) == [refs |-> refs, k |-> k]
Decl(t, name, exp) == [t |-> t, name |-> name, exp |-> exp, step |-> NoExp, stepped |-> FALSE]
Enum(start, step) == [Decl("enum", "", start) EXCEPT !.step = step, !.stepped = TRUE]
NewBlock == Decl("block", "", NoExp)

Others(name) == {"a", "b", "c"} \ {name}
Forms(name) ==
  {Decl("set", name, Sum(<<o>>, k)) : o \in Others(name), k \in {0, 9}}
  \cup {Decl("set", name, Sum(<<>>, 7)), Decl("set", name, Sum(<<"obj">>, 0)), Decl("plain", name, NoExp)}
  \cup {Decl("skip", name, Sum(<<o>>, 0)) : o \in Others(name)}
Before == {<<>>, <<NewBlock>>} \cup {<<[Decl("enum", "", Sum(<<r>>, 0)) EXCEPT !.stepped = FALSE]>> : r \in {"a", "c"}}
          \cup {<<Enum(Sum(<<>>, -1), Sum(<<"c">>, 0))>>, <<Enum(Sum(<<>>, 2), Sum(<<>>, -1))>>}
Triples == {<<x>> \o p \o <<y, z>> : x \in Forms("a"), p \in Before, y \in Forms("b"), z \in Forms("c")}

Chain == <<"p", "q", "r", "s", "t">>
Neighbour(i, way) == IF i + way \in DOMAIN Chain THEN Sum(<<Chain[i + way]>>, 1) ELSE Sum(<<>>, 1)
Chains ==
  {[i \in 1..5 |-> Decl("set", Chain[i], IF way[i] = 0 THEN Sum(<<>>, i) ELSE Neighbour(i, way[i]))]
     \o <<Decl("struct", "st", Sum(<<"r">>, 1)), Decl("struct", "su", Sum(<<"obj">>, 0))>> : way \in [1..5 -> {-1, 0, 1}]}
  \cup {[i \in 1..6 |-> IF i = 1 THEN Decl("struct", "st", Sum(<<"p">>, 0))
                        ELSE Decl("set", Chain[i - 1], Neighbour(i - 1, 1))]}
Twice == {<<x, Decl("plain", "d", NoExp), y>> : x \in Forms("a"), y \in Forms("a") \cup {Decl("set", "d", Sum(<<"a">>, 0))}}

ConsInit ==
  /\ ConstantsInit
  /\ \/ items \in Triples \cup Chains \cup Twice /\ overrides = <<>>
     \/ items \in {t \in Triples : t[1] = Decl("set", "a", Sum(<<>>, 7))} \cup Twice /\ overrides = ("a" :> 5)
----------------------------------------------------------------------------
(* The declarations as equations.                                          *)

IndexOf(name) == Min({i \in DOMAIN items : Declares(i) /\ items[i].name = name})
RunStart(i) == Max({0} \cup {j \in 1..i : items[j].t \in {"enum", "block"}})

RECURSIVE TotalOf(_), SumOf(_, _), StepsTo(_, _)
Meaning(name) ==
  LET i == IndexOf(name)
      start == RunStart(i)
      opens == start > 0 /\ items[start].t = "enum"
      step == IF opens /\ items[start].stepped THEN TotalOf(items[start].step) ELSE 1
  IN  IF name \in DOMAIN Imported THEN Imported[name]
      ELSE IF name \in DOMAIN overrides THEN overrides[name]
      ELSE IF items[i].t = "set" THEN TotalOf(items[i].exp)
      ELSE (IF opens THEN TotalOf(items[start].exp) ELSE 0) + (step * StepsTo(start + 1, i))
TotalOf(exp) == (exp.k + SumOf(exp.refs, 1)) % (2 ^ LongBits)
SumOf(refs, i) == IF i > Len(refs) THEN 0 ELSE Meaning(refs[i]) + SumOf(refs, i + 1)
StepsTo(j, i) == IF j >= i THEN 0
                 ELSE (CASE items[j].t = "plain" -> 1 [] items[j].t = "skip" -> TotalOf(items[j].exp) [] OTHER -> 0)
                      + StepsTo(j + 1, i)

(* Declarations that are accepted have a meaning each, which follows from  *)
(* the declarations alone.                                                 *)
HaveMeanings ==
  /\ Inputs
  /\ Done => \A name \in DOMAIN symbols : symbols[name] % (2 ^ LongBits) = Meaning(name) % (2 ^ LongBits)
-----------------------------------------------------------------------------
Declared(base, ptr, size, align, count) ==
  [base |-> base, ptr |-> ptr, id |-> size, size |-> size, align |-> align, name |-> "?", count |-> count, first |-> FALSE]
Plain == Declared("none", FALSE, 0, 0, -1)
Sized(base, align, count) == Declared(base, FALSE, 0, align, count)
Struct(size, align, count) == Declared("struct", FALSE, size, align, count)
Pointer(base, size, count) == Declared(base, TRUE, size, 0, count)
Align(mask) == [Plain EXCEPT !.align = mask, !.name = Nameless]

VarItems == {Plain, Declared("none", FALSE, 0, 0, 3), Sized("byte", 0, -1), Sized("word", 0, 3), Struct(3, 0, -1), Struct(6, 0, 2),
             Pointer("word", 0, -1), Pointer("struct", 6, -1), Align(1), Align(3)}
Values == {Plain, Struct(3, 0, -1), Struct(6, 0, -1), Pointer("struct", 6, -1)}
Locals == {Plain, Sized("byte", 0, 3), Sized("word", 1, -1), Struct(3, 3, 2), Pointer("byte", 0, -1), Pointer("byte", 0, 2)}

UpTo(n, set) == UNION {[1..m -> set] : m \in 0..n}
Named(list, names) == [k \in DOMAIN list |-> IF list[k].name = Nameless THEN list[k] ELSE [list[k] EXCEPT !.name = names[k]]]
Names(of) == [var |-> <<"v1", "v2", "v3">>, param |-> <<"p1", "p2">>, result |-> <<"r1", "r2">>, local |-> <<"l1", "l2">>][of]
OfLine(list) == [j \in DOMAIN list |-> [list[j] EXCEPT !.first = j = 1]]
Var(lines) == [kind |-> "var", items |-> FlattenSeq([a \in DOMAIN lines |-> OfLine(lines[a])])]
Dat(name) == [kind |-> "dat", name |-> name, size |-> 5]
Sub(kind, name, params, results, locals) ==
  [kind |-> kind, name |-> name, params |-> params, results |-> results, locals |-> locals, size |-> 7]
Obj == [kind |-> "obj", count |-> 3]
Con == [kind |-> "con"]
Of(name) == [Plain EXCEPT !.name = name]

BlocksInit ==
  /\ \/ \E line \in UpTo(3, VarItems) \ {<<>>} :
          blocks = <<Sub("pub", "go", <<>>, <<>>, <<>>), Var(<<Named(line, Names("var")), <<Of("w")>>>>)>>
     \/ \E p \in UpTo(2, Values), r \in UpTo(1, Values) \cup {<<Plain, Plain>>}, l \in UpTo(2, Locals) :
          blocks = <<Sub("pri", "do", <<>>, <<>>, <<>>), Obj,
                     Sub("pub", "go", Named(p, Names("param")), Named(r, Names("result")), Named(l, Names("local"))), Dat("d")>>
     \/ \E v \in {"go", "x", "a"}, d \in {"x", "y", "b"}, m \in {"y", "c"}, q \in {"go", "x", "e"}, p1, p2 \in {"x", "y", "z"}, l \in {"x", "z"} :
          blocks = <<Var(<<<<Of(v)>>>>), Sub("pri", q, <<>>, <<>>, <<Of(l)>>), Sub("pub", "go", <<Of(p1), Of(p2)>>, <<>>, <<>>),
                     Dat(d), Sub("pub", m, <<>>, <<Of("z")>>, <<>>)>>
     \/ \E n \in 3..6, k \in 1..3 :
          blocks = [i \in 1..n |-> Sub(IF i = k THEN "pri" ELSE "pub", <<"a", "b", "c", "d", "e", "f">>[i], <<>>, <<>>, <<>>)]
     \/ \E b \in UpTo(3, {Con, Dat("d"), Sub("pub", "go", <<>>, <<>>, <<>>), Sub("pri", "do", <<>>, <<>>, <<>>)}) : blocks = b
  /\ mainSymbols = NoSymbols /\ Idle
=============================================================================
