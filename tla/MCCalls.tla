------------------------------ MODULE MCCalls -------------------------------
(***************************************************************************)
(* Lines made of calls within calls.  A line is given as a tree; Elements  *)
(* writes it as the source has it, Meaning says what running it evaluates, *)
(* calls, sends and assigns; the bytecode is run by the rules of the       *)
(* interpreter (ext/Spin2_interpreter.spin2).                              *)
(***************************************************************************)
EXTENDS Calls, FiniteSets

VARIABLE said   \* the trees of the lines compiled so far

Con(v) == [k |-> "con", v |-> v]
Live(v) == [k |-> "live", v |-> v]
Sum(a, b) == [k |-> "sum", a |-> a, b |-> b]
M(id, params, results) == [id |-> id, params |-> params, results |-> results]
F(id, params, results, pins) == [id |-> id, params |-> params, results |-> results, pins |-> pins]
Var(v, idx) == [k |-> "var", v |-> v, idx |-> idx, longs |-> 1]
Struct(v, longs) == [k |-> "var", v |-> v, idx |-> <<>>, longs |-> longs]
Call(m, args) == [k |-> "call", m |-> m, args |-> args]
Obj(o, idx, m, args) == [k |-> "obj", o |-> o, idx |-> idx, m |-> m, args |-> args]
Ptr(v, idx, args, results) == [k |-> "ptr", var |-> Var(v, idx), args |-> args, results |-> results]
Recv == [k |-> "recv"]
Flex(f, args) == [k |-> "flex", f |-> f, args |-> args]
Pins(hi, lo) == [k |-> "pins", hi |-> hi, lo |-> lo]
Trying(call) == [k |-> "try", call |-> call]
Lookup(zero, down, target, items) == [k |-> "look", zero |-> zero, down |-> down, target |-> target, items |-> items]
Range2(e, f) == [k |-> "range", e |-> e, f |-> f]
Address(callee) == [k |-> "at", of |-> callee]
Spin(task, cog, callee, stack) == [k |-> "spin", task |-> task, cog |-> cog, callee |-> callee, stack |-> stack]
Change(how, var, e) == [k |-> "change", how |-> how, var |-> var, e |-> e]
Compare(v, w) == [k |-> "compare", v |-> v, w |-> w]
Text(chars, escapes) == [k |-> "text", chars |-> chars, escapes |-> escapes]
Data(head, items) == [k |-> "data", head |-> head, items |-> items]
Multi(targets, values) == [k |-> "multi", targets |-> targets, values |-> values]
Skipped(longs) == [k |-> "skip", longs |-> longs]
SendOf(items) == [k |-> "send", items |-> items]
StructOp(op, v, operand) == [k |-> "structop", op |-> op, v |-> v, operand |-> operand]
ReturnOf(values) == [k |-> "return", values |-> values]
AbortOf(values) == [k |-> "abort", values |-> values]
----------------------------------------------------------------------------
(* The source.                                                             *)

T(t) == [t |-> t]
Token(v, longs, reg) == [t |-> "var", v |-> v, longs |-> longs, reg |-> reg, long |-> TRUE]
Comma == [t |-> "comma", mid |-> FALSE]
MidComma == [t |-> "comma", mid |-> TRUE]
Joined(seqs, sep) == FoldLeftDomain(LAMBDA acc, i : acc \o (IF i = 1 THEN <<>> ELSE <<sep>>) \o seqs[i], <<>>, seqs)
Chars(cs) == [i \in DOMAIN cs |-> <<[t |-> "con", v |-> cs[i]]>>]
RECURSIVE El(_)
Paren(trees) == <<T("left")>> \o Joined([i \in DOMAIN trees |-> El(trees[i])], Comma) \o <<T("right")>>
IndexEl(idx) == IF idx = <<>> THEN <<>> ELSE <<T("leftb")>> \o El(idx[1]) \o <<T("rightb")>>
Colon(n) == IF n = 0 THEN <<>> ELSE <<T("colon"), [t |-> "con", v |-> n]>>
Callee(c) ==
  CASE c.k = "call" -> <<[t |-> "method", m |-> c.m]>>
    [] c.k = "obj" -> <<[t |-> "obj", v |-> c.o]>> \o IndexEl(c.idx) \o <<T("dot"), [t |-> "pub", m |-> c.m]>>
    [] c.k = "ptr" -> El(c.var)
    [] c.k = "var" -> El(c)
Behind(how) == CASE how = "write" -> "assign" [] how = "swap" -> "back" [] OTHER -> how
El(t) ==
  CASE t.k = "con" -> <<[t |-> "con", v |-> t.v]>>
    [] t.k = "live" -> <<[t |-> "exp", v |-> t.v]>>
    [] t.k = "sum" -> El(t.a) \o <<T("add")>> \o El(t.b)
    [] t.k = "var" -> <<Token(t.v, t.longs, "")>> \o IndexEl(t.idx)
    [] t.k \in {"call", "obj"} -> Callee(t) \o Paren(t.args)
    [] t.k = "ptr" -> Callee(t) \o Paren(t.args) \o Colon(t.results)
    [] t.k = "recv" -> <<Token(0, 1, "recv"), T("left"), T("right")>>
    [] t.k = "flex" -> <<[t |-> "flex", flex |-> t.f]>> \o Paren(t.args)
    [] t.k = "pins" -> El(t.hi) \o <<T("dotdot")>> \o El(t.lo)
    [] t.k = "range" -> El(t.e) \o <<T("dotdot")>> \o El(t.f)
    [] t.k = "try" -> <<T("back")>> \o El(t.call)
    [] t.k = "look" -> <<[t |-> "look", zero |-> t.zero, down |-> t.down], T("left")>> \o El(t.target) \o <<T("colon")>> \o Tail(Paren(t.items))
    [] t.k = "at" -> <<T("at")>> \o Callee(t.of)
    [] t.k = "spin" -> <<[t |-> "spin", task |-> t.task]>> \o
          <<T("left")>> \o El(t.cog) \o <<Comma>> \o Callee(t.callee) \o Paren(t.callee.args) \o <<Comma>> \o El(t.stack) \o <<T("right")>>
    [] t.k = "change" -> CASE t.how \in {"preinc", "predec"} -> <<T(IF t.how = "preinc" THEN "inc" ELSE "dec")>> \o El(t.var)
                           [] t.how = "add" -> El(t.var) \o <<T("add"), T("equal")>> \o El(t.e)
                           [] t.how \in {"swap", "write"} -> El(t.var) \o <<T(Behind(t.how))>> \o El(t.e)
                           [] OTHER -> El(t.var) \o <<T(t.how)>>
    [] t.k = "compare" -> El(t.v) \o <<T("compare")>> \o El(t.w)
    [] t.k = "text" -> <<T("at")>> \o (IF t.escapes THEN <<T("back")>> ELSE <<>>) \o Joined(Chars(t.chars), MidComma)
    [] t.k = "data" -> <<t.head, T("left")>> \o
          Joined([i \in DOMAIN t.items |-> (IF t.items[i].size = 0 THEN <<>> ELSE <<[t |-> "size", size |-> t.items[i].size]>>)
                                           \o <<[t |-> "con", v |-> t.items[i].v]>>], Comma) \o <<T("right")>>
    [] t.k = "skip" -> IF t.longs = 1 THEN <<T("under")>> ELSE <<T("under"), T("leftb"), [t |-> "con", v |-> t.longs], T("rightb")>>
    [] t.k = "multi" -> Joined([i \in DOMAIN t.targets |-> El(t.targets[i])], Comma) \o <<T("assign")>> \o
                        Joined([i \in DOMAIN t.values |-> El(t.values[i])], Comma)
    [] t.k = "structop" -> El(t.v) \o <<T(t.op)>> \o (IF t.operand.k = "con" THEN <<>> ELSE El(t.operand))
    [] t.k = "send" -> <<Token(0, 1, "send")>> \o Paren(t.items)
    [] t.k \in {"return", "abort"} -> <<T(t.k)>> \o Joined([i \in DOMAIN t.values |-> El(t.values[i])], Comma)
----------------------------------------------------------------------------
(* The meaning: the values a tree leaves, what it does, and the variable   *)
(* expressions it evaluates.                                               *)

Yields(vals, did, lives) == [vals |-> vals, did |-> did, lives |-> lives]
Nothing == Yields(<<>>, <<>>, <<>>)
Then(a, b) == Yields(a.vals \o b.vals, a.did \o b.did, a.lives \o b.lives)
Does(m, event, vals) == [m EXCEPT !.vals = vals, !.did = Append(@, event)]
Results(event, n) == [i \in 1 .. n |-> [k |-> "result", of |-> event, i |-> i]]
Event(do, what, args, index) == [k |-> "event", do |-> do, what |-> what, args |-> args, index |-> index]
Plain == [k |-> "plain"]
PinsOf(hi, lo) == IF hi.k = "con" /\ lo.k = "con" THEN Con((lo.v % 64) + (64 * ((hi.v - lo.v) % 32)))
                  ELSE [k |-> "pins", lo |-> lo, more |-> [k |-> "less", a |-> hi, b |-> lo]]
Decoded(cs) ==
  LET step(acc, i) ==
        CASE acc.skip > 0 -> [acc EXCEPT !.skip = @ - 1]
          [] acc.skip = 0 /\ cs[i] = 92 /\ cs[i + 1] = 120 -> [out |-> Append(acc.out, 65), skip |-> 3]
          [] acc.skip = 0 /\ cs[i] = 92 /\ cs[i + 1] # 120 ->
               [out |-> Append(acc.out, CASE cs[i + 1] = 110 -> 10 [] cs[i + 1] = 97 -> 7 [] OTHER -> 92), skip |-> 1]
          [] OTHER -> [out |-> Append(acc.out, cs[i]), skip |-> 0]
  IN  FoldLeftDomain(step, [out |-> <<>>, skip |-> 0], cs).out
LittleEndian(items, size) ==
  FlattenSeq([i \in DOMAIN items |-> BytesOf(IF items[i].size = 0 THEN size ELSE items[i].size, items[i].v)])

RECURSIVE Meaning(_), MeaningOf(_)
MeaningOf(trees) == FoldLeft(LAMBDA m, t : Then(m, Meaning(t)), Nothing, trees)
IndexValue(idx) == IF idx = <<>> THEN Plain ELSE Meaning(idx[1]).vals[1]
\* the operand first, then the index of the variable
OnVariable(do, var, operands) ==
  Does(Then(operands, MeaningOf(var.idx)), Event(do, var.v, operands.vals, IndexValue(var.idx)), <<>>)
DoOf(how) == CASE how \in {"preinc", "inc"} -> "inc" [] how \in {"predec", "dec"} -> "dec" [] how \in {"til", "tiltil", "swap"} -> "write" [] OTHER -> how
OperandsOf(t) ==
  CASE t.how \in {"swap", "write", "add"} -> Meaning(t.e)
    [] t.how = "til" -> Yields(<<Con(0)>>, <<>>, <<>>)
    [] t.how = "tiltil" -> Yields(<<Con(-1)>>, <<>>, <<>>)
    [] OTHER -> Nothing
Value(k, event) == [k |-> k, of |-> event]
OldOrNew(how) == IF how \in {"inc", "dec", "swap", "til", "tiltil"} THEN "old" ELSE "new"
VarOf(c) == IF c.k = "ptr" THEN c.var ELSE c
CallOf(t) ==
  LET args == MeaningOf(t.args)
      idx == IF t.k = "call" THEN <<>> ELSE IF t.k = "obj" THEN t.idx ELSE t.var.idx
      all == Then(args, MeaningOf(idx))
      what == CASE t.k = "call" -> [m |-> t.m.id] [] t.k = "obj" -> [m |-> t.m.id, obj |-> t.o] [] OTHER -> [ptr |-> t.var.v]
      e == Event("call", what, args.vals, IndexValue(idx))
      n == IF t.k = "ptr" THEN t.results ELSE t.m.results
  IN  Does(all, e, Results(e, n))
StructValues(t) == [i \in 1 .. t.longs |-> [k |-> "long", v |-> t.v, i |-> i, index |-> IndexValue(t.idx)]]
AddressOf(c) ==
  CASE c.k = "call" -> [k |-> "address", of |-> [m |-> c.m.id], index |-> Plain]
    [] c.k = "obj" -> [k |-> "address", of |-> [m |-> c.m.id, obj |-> c.o], index |-> IndexValue(c.idx)]
    [] c.k = "ptr" -> StructValues(c.var)[1]
    [] OTHER -> [k |-> "address", of |-> [var |-> c.v], index |-> IndexValue(c.idx)]
IndexLives(c) == [MeaningOf(CASE c.k = "call" -> <<>> [] c.k = "obj" -> c.idx [] OTHER -> VarOf(c).idx) EXCEPT !.vals = <<>>]
Slices(targets, vals) ==
  [i \in DOMAIN targets |->
     LET before == FoldLeft(LAMBDA n, t : n + t.longs, 0, SubSeq(targets, 1, i - 1))
     IN  SubSeq(vals, before + 1, before + targets[i].longs)]
Meaning(t) ==
  CASE t.k = "con" -> Yields(<<t>>, <<>>, <<>>)
    [] t.k = "live" -> Yields(<<t>>, <<>>, <<t.v>>)
    [] t.k = "sum" -> LET m == Then(Meaning(t.a), Meaning(t.b))
                          c == t.a.k = "con" /\ t.b.k = "con"
                      IN  [m EXCEPT !.vals = <<IF c THEN Con(t.a.v + t.b.v) ELSE Sum(@[1], @[2])>>]
    [] t.k = "var" -> [MeaningOf(t.idx) EXCEPT !.vals = StructValues(t)]
    [] t.k \in {"call", "obj", "ptr"} -> CallOf(t)
    [] t.k = "recv" -> Does(Nothing, Event("recv", 0, <<>>, Plain), <<[k |-> "received"]>>)
    [] t.k = "flex" -> LET m == MeaningOf(t.args)
                           e == Event("call", [flex |-> t.f.id], m.vals, Plain)
                       IN  Does(m, e, Results(e, t.f.results))
    [] t.k = "pins" -> LET m == Then(Meaning(t.hi), Meaning(t.lo)) IN [m EXCEPT !.vals = <<PinsOf(@[1], @[2])>>]
    [] t.k = "range" -> LET m == Then(Meaning(t.e), Meaning(t.f)) IN [m EXCEPT !.vals = <<[k |-> "range", a |-> @[1], b |-> @[2]]>>]
    [] t.k = "try" -> [CallOf(t.call) EXCEPT !.vals = <<[k |-> "trapped", of |-> Last(CallOf(t.call).did)]>>]
    [] t.k = "look" -> LET m == Then(Meaning(t.target), MeaningOf(t.items))
                       IN  [m EXCEPT !.vals = <<[k |-> "looked", target |-> Head(@), items |-> Tail(@), down |-> t.down, from |-> IF t.zero THEN 0 ELSE 1]>>]
    [] t.k = "at" -> [IndexLives(t.of) EXCEPT !.vals = <<AddressOf(t.of)>>]
    [] t.k = "spin" -> LET args == MeaningOf(t.callee.args)
                           m == FoldLeft(Then, Meaning(t.cog), <<args, IndexLives(t.callee), Meaning(t.stack)>>)
                           e == Event("call", [task |-> t.task], Meaning(t.cog).vals \o args.vals \o <<AddressOf(t.callee)>> \o Meaning(t.stack).vals, Plain)
                       IN  Does(m, e, Results(e, 1))
    [] t.k = "change" -> LET m == OnVariable(DoOf(t.how), t.var, OperandsOf(t))
                         IN  [m EXCEPT !.vals = <<Value(OldOrNew(t.how), Last(m.did))>>]
    [] t.k = "compare" -> Yields(<<[k |-> "same", a |-> t.v.v, b |-> t.w.v, longs |-> t.v.longs]>>, <<>>, <<>>)
    [] t.k = "text" -> LET cs == IF t.escapes THEN Decoded(t.chars) ELSE t.chars
                       IN  Yields(<<[k |-> "text", length |-> Len(cs) + 1, bytes |-> Append(cs, 0)]>>, <<>>, <<>>)
    [] t.k = "data" -> LET bytes == LittleEndian(t.items, IF t.head.t = "size" THEN t.head.size ELSE 1)
                           all == CASE t.head.t = "constr" -> Append(bytes, 0) [] t.head.t = "conlstr" -> <<Len(bytes)>> \o bytes [] OTHER -> bytes
                       IN  Yields(<<[k |-> "text", length |-> Len(all), bytes |-> all]>>, <<>>, <<>>)
    [] t.k = "multi" -> LET m == MeaningOf(t.values)
                            slices == Slices(t.targets, m.vals)
                            store(acc, i) == LET var == t.targets[Len(t.targets) + 1 - i]
                                                 slice == slices[Len(t.targets) + 1 - i]
                                             IN  IF var.k = "skip" THEN acc
                                                 ELSE Then(acc, OnVariable("write", var, Yields(slice, <<>>, <<>>)))
                        IN  [FoldLeftDomain(store, m, t.targets) EXCEPT !.vals = <<>>]
    [] t.k = "structop" ->
         LET of == IF t.operand.k = "con" THEN t.operand ELSE AddressOf(t.operand)
             do == CASE t.op = "assign" -> "bytemove" [] t.op = "swap" -> "byteswap" [] OTHER -> "bytefill"
         IN  Does(Nothing, Event(do, 0, <<AddressOf(t.v), of, Con(t.v.longs)>>, Plain), <<>>)
    [] t.k = "send" -> LET send(acc, e) == LET m == Meaning(e)
                                           IN  Then(acc, IF m.vals = <<>> THEN m ELSE Does(m, Event("send", 0, m.vals, Plain), <<>>))
                       IN  FoldLeft(send, Nothing, t.items)
    [] t.k \in {"return", "abort"} -> LET m == MeaningOf(t.values) IN Does(m, Event(t.k, 0, m.vals, Plain), <<>>)
----------------------------------------------------------------------------
(* The interpreter.                                                        *)

Floor == [i \in 1 .. 24 |-> [k |-> "floor", i |-> i]]
Machine == [stack |-> Floor, did |-> <<>>, lives |-> <<>>, ok |-> TRUE]
Top(k, n) == k.stack[Len(k.stack) - n]
Pop(k, n) == [k EXCEPT !.stack = SubSeq(@, 1, Len(@) - n)]
Tops(k, n) == SubSeq(k.stack, Len(k.stack) - n + 1, Len(k.stack))
PushAll(k, vs) == [k EXCEPT !.stack = @ \o vs]
Push(k, v) == PushAll(k, <<v>>)
Do(k, event) == [k EXCEPT !.did = Append(@, event)]
Effects ==
  LET effect(do, operand, push) == [do |-> do, operand |-> operand, push |-> push]
  IN  [inc |-> effect("inc", 0, "no"), dec |-> effect("dec", 0, "no"), lognot |-> effect("lognot", 0, "no"),
       bitnot |-> effect("bitnot", 0, "no"), add |-> effect("add", 1, "no"),
       postinc_push |-> effect("inc", 0, "old"), postdec_push |-> effect("dec", 0, "old"),
       preinc_push |-> effect("inc", 0, "new"), predec_push |-> effect("dec", 0, "new"),
       lognot_push |-> effect("lognot", 0, "new"), bitnot_push |-> effect("bitnot", 0, "new"),
       var_swap |-> effect("write", 1, "old"), write_push |-> effect("write", 1, "new"), add_push |-> effect("add", 1, "new")]
ApplyEffect(k, c, index) ==
  LET f == Effects[c.as]
      e == Event(f.do, c.v, Tops(k, f.operand), index)
      done == Do(Pop(k, f.operand), e)
  IN  IF f.push = "no" THEN done ELSE Push(done, Value(f.push, e))
\* a call takes everything above the last anchor
Invoke(k, what, index, results) ==
  LET at == CHOOSE i \in DOMAIN k.stack : /\ k.stack[i].k \in {"anchor", "floor"}
                                          /\ \A j \in DOMAIN k.stack : j > i => k.stack[j].k \notin {"anchor", "floor"}
      e == Event("call", what, SubSeq(k.stack, at + 1, Len(k.stack)), index)
      done == Do([k EXCEPT !.stack = SubSeq(@, 1, at - 1)], e)
  IN  CASE k.stack[at].k = "floor" -> [k EXCEPT !.ok = FALSE]
        [] k.stack[at].k = "anchor" /\ k.stack[at].drop = "push" -> PushAll(done, Results(e, results))
        [] k.stack[at].k = "anchor" /\ k.stack[at].drop = "trap_push" -> Push(done, [k |-> "trapped", of |-> e])
        [] OTHER -> done
Flexed(k, f) ==
  LET e == Event("call", [flex |-> f.id], Tops(k, f.params), Plain)
  IN  PushAll(Do(Pop(k, f.params), e), Results(e, f.results))
Spun(k, c) ==
  LET e == Event("call", [task |-> c.task], Tops(k, c.params + 3), Plain)
      done == Do(Pop(k, c.params + 3), e)
  IN  IF c.how = "push" THEN PushAll(done, Results(e, 1)) ELSE done
Looked(k, c) ==
  LET v == IF c.range THEN [k |-> "range", a |-> Top(k, 1), b |-> Top(k, 0)] ELSE Top(k, 0)
      p == Pop(k, IF c.range THEN 2 ELSE 1)
      b == Top(p, 0)
  IN  Push(Pop(p, 1), [k |-> "base", v |-> b.v, items |-> IF b.k = "con" THEN <<v>> ELSE Append(b.items, v), down |-> c.down])
LookDone(k, i) ==
  LET b == Top(k, 0)
  IN  [Push(Pop(k, 3), [k |-> "looked", target |-> Top(k, 1), items |-> b.items, down |-> b.down, from |-> b.v])
       EXCEPT !.ok = @ /\ Top(k, 2) = [k |-> "to", to |-> i]]
Execute(k, c, i) ==
  LET indexed == "indexed" \in DOMAIN c /\ c.indexed
      index == IF indexed THEN Top(k, 0) ELSE Plain
      x == IF indexed THEN Pop(k, 1) ELSE k
      a == Top(k, 1)
      b == Top(k, 0)
      got(do, n) == Do(Pop(k, n), Event(do, 0, Tops(k, n), Plain))
  IN  CASE c.op = "con" -> Push(k, Con(c.v))
        [] c.op = "live" -> Push([k EXCEPT !.lives = Append(@, c.v)], Live(c.v))
        [] c.op = "add" -> Push(Pop(k, 2), Sum(a, b))
        [] c.op = "drop" -> Push(k, [k |-> "anchor", drop |-> c.drop])
        [] c.op = "call" -> Invoke(k, [m |-> c.m.id], Plain, c.m.results)
        [] c.op = "call_obj" -> Invoke(x, [m |-> c.m.id, obj |-> c.obj], index, c.m.results)
        [] c.op = "call_ptr" -> Invoke(Pop(k, 1), [ptr |-> b.v], b.index, c.results)
        [] c.op = "mptr" -> Push(k, [k |-> "address", of |-> [m |-> c.m.id], index |-> Plain])
        [] c.op = "mptr_obj" -> Push(x, [k |-> "address", of |-> [m |-> c.m.id, obj |-> c.obj], index |-> index])
        [] c.op = "read" -> PushAll(x, [j \in 1 .. c.longs |-> [k |-> "long", v |-> c.v, i |-> j, index |-> index]])
        [] c.op = "write" -> Do(Pop(x, c.longs), Event("write", c.v, Tops(x, c.longs), index))
        [] c.op = "assign" /\ c.as = "get_addr" -> Push(x, [k |-> "address", of |-> [var |-> c.v], index |-> index])
        [] c.op = "assign" /\ c.as # "get_addr" -> ApplyEffect(x, c, index)
        [] c.op = "bitrange" -> PushAll(Pop(k, 2), <<b, [k |-> "less", a |-> a, b |-> b]>>)
        [] c.op = "addpins" -> Push(Pop(k, 2), [k |-> "pins", lo |-> a, more |-> b])
        [] c.op = "flex" -> Flexed(k, c.flex)
        [] c.op = "address" -> Push(k, [k |-> "to", to |-> c.to])
        [] c.op = "look_value" -> Looked(k, c)
        [] c.op = "look_done" -> LookDone(k, i)
        [] c.op = "send" -> got("send", 1)
        [] c.op = "send_bytes" -> FoldLeft(LAMBDA m, v : Do(m, Event("send", 0, <<Con(v)>>, Plain)), k, c.bytes)
        [] c.op = "recv" -> Push(Do(k, Event("recv", 0, <<>>, Plain)), [k |-> "received"])
        [] c.op = "spin" -> Spun(k, c)
        [] c.op = "string" -> Push(k, [k |-> "text", length |-> c.length, bytes |-> c.bytes])
        [] c.op = "bytecomp" -> Push(Pop(k, 3), [k |-> "same", a |-> Top(k, 2).of.var, b |-> a.of.var, longs |-> b.v])
        [] c.op = "pop" -> Pop(k, c.bytes \div 4)
        [] c.op = "pop_rfvar" -> Pop(k, (c.rfvar \div 4) + 1)
        [] c.op \in {"return_results", "abort_0"} -> got(IF c.op = "abort_0" THEN "abort" ELSE "return", 0)
        [] c.op = "return_args" -> got("return", SubResults)
        [] c.op = "abort_arg" -> got("abort", 1)
        [] OTHER -> got(c.op, 3)
Execution(code) == FoldLeftDomain(LAMBDA k, i : Execute(k, code[i], i), Machine, code)
----------------------------------------------------------------------------
(* What the compiler must refuse: a line in which some count is not right. *)

RECURSIVE Width(_), Good(_)
Width(t) ==
  CASE t.k \in {"call", "obj"} -> t.m.results
    [] t.k = "flex" -> t.f.results
    [] t.k = "ptr" -> t.results
    [] t.k = "var" -> t.longs
    [] t.k = "send" -> 0
    [] OTHER -> 1
Widths(ts) == FoldLeft(LAMBDA n, t : n + Width(t), 0, ts)
One(t) == Good(t) /\ Width(t) = 1
AllGood(ts) == \A i \in DOMAIN ts : Good(ts[i]) /\ Width(ts[i]) > 0
Opt(idx) == \A i \in DOMAIN idx : One(idx[i])
Good(t) ==
  CASE t.k = "sum" -> One(t.a) /\ One(t.b)
    [] t.k = "call" -> AllGood(t.args) /\ Widths(t.args) = t.m.params
    [] t.k = "obj" -> AllGood(t.args) /\ Widths(t.args) = t.m.params /\ Opt(t.idx)
    [] t.k = "ptr" -> AllGood(t.args) /\ Widths(t.args) <= ParamsLimit /\ t.results <= ResultsLimit /\ Opt(t.var.idx)
    [] t.k = "flex" -> AllGood(t.args) /\ Widths(t.args) = t.f.params
    [] t.k = "pins" -> One(t.hi) /\ One(t.lo) /\ (t.hi.k = "con" /\ t.lo.k = "con" => SamePort(t.hi.v, t.lo.v))
    [] t.k = "try" -> Good(t.call)
    [] t.k = "look" -> One(t.target) /\ \A i \in DOMAIN t.items : One(t.items[i])
    [] t.k = "spin" -> One(t.cog) /\ Good(t.callee) /\ One(t.stack)
    [] t.k = "multi" -> AllGood(t.values) /\ Widths(t.values) = FoldLeft(LAMBDA n, x : n + x.longs, 0, t.targets)
    [] t.k = "structop" -> t.operand.k = "con" \/ t.operand.longs = t.v.longs
    [] t.k = "send" -> t.items # <<>> /\ \A i \in DOMAIN t.items : Good(t.items[i]) /\ Width(t.items[i]) <= 1
    [] t.k = "return" -> AllGood(t.values) /\ (t.values = <<>> \/ Widths(t.values) = SubResults)
    [] t.k = "change" /\ t.how \in {"write", "add", "swap"} -> One(t.e)
    [] OTHER -> TRUE
Instruction(t) == CASE t.k = "flex" -> t.f.results = 0
                    [] t.k = "recv" -> FALSE
                    [] OTHER -> TRUE
----------------------------------------------------------------------------
(* Lines.                                                                  *)

Item(size, v) == [size |-> size, v |-> v]
\* [a-n], [\\ x 4 1 ! \\ n \\ a] as character codes
PlainText == <<104, 105, 33>>
EscapedText == <<65, 92, 120, 52, 49, 33, 92, 110, 92, 97, 92, 92>>
Arguments ==
  {Con(7), Live(1), Sum(Con(1), Live(2)), Sum(Con(4), Con(5)), Recv, Struct(8, 3), Var(3, <<Live(3)>>),
   Call(M(1, 0, 1), <<>>), Call(M(2, 1, 2), <<Live(4)>>), Call(M(3, 0, 0), <<>>), Call(M(4, 2, 1), <<Call(M(2, 1, 2), <<Live(1)>>)>>),
   Obj(1, <<Live(5)>>, M(5, 1, 1), <<Live(6)>>), Obj(1, <<Live(5)>>, M(6, 0, 2), <<>>),
   Ptr(4, <<Live(7)>>, <<Live(8), Con(2)>>, 1), Ptr(4, <<>>, <<>>, 2), Ptr(4, <<Live(7)>>, <<Struct(8, 3), Live(2)>>, 1),
   Flex(F(1, 1, 1, FALSE), <<Live(9)>>), Flex(F(2, 1, 2, FALSE), <<Call(M(1, 0, 1), <<>>)>>),
   Flex(F(3, 1, 1, TRUE), <<Pins(Con(6), Con(2))>>), Flex(F(3, 1, 1, TRUE), <<Pins(Live(6), Con(2))>>), Flex(F(3, 1, 1, TRUE), <<Live(6)>>),
   Trying(Call(M(3, 0, 0), <<>>)), Trying(Ptr(4, <<Live(7)>>, <<Live(8)>>, 0)), Trying(Obj(2, <<>>, M(5, 1, 1), <<Con(6)>>)),
   Lookup(TRUE, FALSE, Live(6), <<Con(1), Range2(Live(2), Con(9)), Lookup(FALSE, TRUE, Con(3), <<Live(4)>>)>>),
   Address(Call(M(1, 0, 1), <<>>)), Address(Obj(1, <<Live(5)>>, M(5, 1, 1), <<>>)), Address(Var(3, <<Live(3)>>)),
   Change("inc", Var(3, <<Live(5)>>), Con(0)), Change("predec", Var(3, <<>>), Con(0)), Change("swap", Var(3, <<Live(5)>>), Call(M(1, 0, 1), <<>>)),
   Change("tiltil", Var(3, <<Live(5)>>), Con(0)), Change("write", Var(3, <<>>), Live(6)), Change("add", Var(3, <<Live(2)>>), Sum(Live(7), Con(1))),
   Compare(Struct(8, 3), Struct(9, 3)), Spin(FALSE, Con(16), Call(M(5, 1, 1), <<Live(9)>>), Live(10)),
   Text(PlainText, FALSE), Text(EscapedText, TRUE),
   Data([t |-> "constr"], <<Item(0, 72), Item(0, 1)>>), Data([t |-> "conlstr"], <<Item(0, 0), Item(0, 255), Item(0, 9)>>),
   Data([t |-> "size", size |-> 1], <<Item(0, 513), Item(2, 513), Item(4, -2)>>)}
Ones(args) == {<<a>> : a \in args}
Few == {Con(7), Live(1), Struct(8, 3), Call(M(2, 1, 2), <<Live(4)>>), Call(M(3, 0, 0), <<>>), Ptr(4, <<Live(7)>>, <<Live(8), Con(2)>>, 1)}
Takes(args) ==
  {Call(M(11, 2, 0), args), Call(M(12, 3, 1), args), Obj(3, <<Live(20)>>, M(13, 2, 0), args), Ptr(6, <<Live(20)>>, args, 0),
   Flex(F(11, 2, 0, FALSE), args), Flex(F(12, 2, 0, TRUE), args), Trying(Call(M(12, 3, 1), args)), SendOf(args), ReturnOf(args),
   Multi(<<Var(1, <<Live(20)>>), Var(2, <<>>)>>, args), Multi(<<Struct(8, 3), Var(1, <<Live(20)>>)>>, args),
   Multi(<<Skipped(1), Var(1, <<>>)>>, args), Multi(<<Var(2, <<>>), Skipped(3)>>, args),
   Spin(FALSE, Live(21), Obj(3, <<Live(20)>>, M(13, 2, 0), args), Live(22)), Spin(TRUE, Live(21), Ptr(6, <<Live(20)>>, args, 0), Live(22))}
Sends == {SendOf(items) : items \in UNION {[1 .. n -> {Con(1), Con(2), Con(300), Live(3), Call(M(3, 0, 0), <<>>)}] : n \in 0 .. 4}}
PinUses == {Flex(F(13, n, 0, TRUE), <<Pins(hi, lo)>> \o others) :
              n \in 1 .. 2, others \in {<<>>, <<Live(9)>>}, hi, lo \in {Con(3), Con(9), Con(35), Live(4), Con(38), Call(M(1, 0, 1), <<>>)}}
Changes == {Change(how, Var(3, idx), Live(2)) : how \in {"inc", "dec", "preinc", "predec", "lognot", "bitnot", "til", "tiltil", "add"},
              idx \in {<<>>, <<Live(5)>>, <<Call(M(1, 0, 1), <<>>)>>}}
StructOps == {StructOp("assign", Struct(8, 16), Struct(9, n)) : n \in {16, 17}} \cup {StructOp("swap", Struct(8, 3), Struct(9, n)) : n \in {3, 2}}
             \cup {StructOp("til", Struct(8, 3), Con(0)), StructOp("tiltil", Struct(8, 16), Con(-1))}
Others ==
  StructOps \cup {Change("add", Var(3, <<>>), a) : a \in Arguments} \cup
  Sends \cup PinUses \cup Changes \cup {Multi(<<Var(1, <<Live(20)>>)>>, args) : args \in Ones(Arguments)}
  \cup {AbortOf(args) : args \in Ones({a \in Arguments : Width(a) = 1}) \cup {<<>>}} \cup {ReturnOf(<<>>)}
\* a sum that begins with a byte ends the run of bytes before SEND has its ")"; it is refused
Sendable(t) == t.k = "send" => \A i \in DOMAIN t.items : t.items[i].k # "sum"
LineOf(t) == Sendable(t) /\ said = t /\ lines = <<El(t)>> /\ emitted = <<>>
MCInit ==
  \/ \E a \in Arguments, b \in Few : \E t \in Takes(<<a, b>>) \cup Takes(<<b, a>>) : LineOf(t)
  \/ \E t \in Others : LineOf(t)
MCNext == Next /\ UNCHANGED said
----------------------------------------------------------------------------
(* Properties.                                                             *)

Done == Len(emitted) = 1
Compiled == Done /\ emitted[1].err = ""
Ran == Execution(emitted[1].code)
Meant == Meaning(said)
CallsOf(did) == SelectSeq(did, LAMBDA e : e.do \in {"call", "recv", "return", "abort"})
Stores(did) == LET s == SelectSeq(did, LAMBDA e : e.do \notin {"call", "recv", "send", "return", "abort"}) IN s
Count(s, x) == Len(SelectSeq(s, LAMBDA y : y = x))

\* Every method, built-in instruction and task is called with exactly the arguments that are
\* written between its parentheses, in their order, also when one argument is a call with
\* several results or a whole structure (spinResolver.ts:7521), and the object or pointer
\* that it is called through is the one in front of it (8148, 8203).
ArgumentsDelivered == Compiled => CallsOf(Ran.did) = CallsOf(Meant.did)

\* What is compiled twice, for trial and for good, or left and come back to (spinResolver.ts:7343,
\* 7891, 8319), is evaluated once.
EvaluatedOnce == Compiled => \A v \in Range(Ran.lives) \cup Range(Meant.lives) : Count(Ran.lives, v) = Count(Meant.lives, v)

\* An instruction leaves the stack as it was: what calls, terms and values push is taken by
\* those they are for, or dropped, also where "_" and "_[n]" take nothing (spinResolver.ts:6020),
\* and a lookup jumps behind its last value.
StackKept == Compiled => Ran.stack = Floor /\ Ran.ok

\* Variables receive the values that stand at their place in a list of assignments though
\* they are popped from the last to the first (spinResolver.ts:6005).
AssignedInTurn == Compiled => Stores(Ran.did) = Stores(Meant.did)

\* SEND hands over its parameters in their order, whether they are sent as a run of bytes or one
\* by one, and calls the methods without results between them (spinResolver.ts:6267).
SentInOrder ==
  LET sent(did) == SelectSeq(did, LAMBDA e : e.do \in {"send", "call"})
  IN  Compiled /\ said.k = "send" => sent(Ran.did) = sent(Meant.did)

\* A line is refused exactly when the number of values it hands over is not the number that
\* is taken: parameters, results, operands, pins of one port (spinResolver.ts:7511, 8327).
CountsRefused == Done => (emitted[1].err = "" <=> Good(said))
=============================================================================
