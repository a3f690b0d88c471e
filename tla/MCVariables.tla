---------------------------- MODULE MCVariables ----------------------------
(***************************************************************************)
(* Variables and structures on declarations with nested structures,        *)
(* arrays, bitfields and a member without a name, and on every shape of    *)
(* variable with constant and runtime indexes.  The reference is a layout  *)
(* computed from the declarations and what the elements of a use say; the  *)
(* bytecode is run by the rules of ext/Spin2_interpreter.spin2.            *)
(***************************************************************************)
EXTENDS Variables, FiniteSets, TLC

MCCapacity == 2048
MCHubLimit == 1048575
----------------------------------------------------------------------------
(* Declarations.                                                           *)

A == <<65>>
B == <<66>>
E == <<69>>
XY == <<88, 89>>
Member(name, type, of, count, bits) == [name |-> name, type |-> type, of |-> of, count |-> count, bits |-> bits]
Field(name, type, count) == Member(name, type, 0, count, <<>>)
Nested(name, of, count) == Member(name, MT_STRUCT, of, count, <<>>)
Bit(name, hi, lo) == [name |-> name, hi |-> hi, lo |-> lo]
Def(members) == [kind |-> "def", members |-> members]

Point == Def(<<Member(A, 0, 0, 1, <<Bit(A, 0, 0), Bit(E, 7, 2)>>), Field(B, 1, 2), Member(XY, 2, 0, 3, <<Bit(B, 31, 4)>>)>>)
Shape == Def(<<Field(A, 0, 1), Nested(B, 0, 2), Field(E, 2, 1)>>)
Flags == Def(<<Member(<<>>, 1, 0, 1, <<Bit(A, 0, 0), Bit(B, 12, 3)>>)>>)
Deep == Def(<<Nested(A, 1, 2), Field(XY, 1, 2)>>)
Declared == <<Point, Shape, Flags, [kind |-> "same", of |-> 1], Deep>>
----------------------------------------------------------------------------
(* The layout, from the declarations.                                      *)

RECURSIVE SizeOf(_, _), MembersSize(_, _)
SizeOf(ds, id) == IF ds[id + 1].kind = "same" THEN SizeOf(ds, ds[id + 1].of) ELSE MembersSize(ds, ds[id + 1].members)
OneSize(ds, m) == IF m.type = MT_STRUCT THEN SizeOf(ds, m.of) ELSE CASE m.type = 0 -> 1 [] m.type = 1 -> 2 [] OTHER -> 4
MembersSize(ds, ms) == IF ms = <<>> THEN 0 ELSE (Head(ms).count * OneSize(ds, Head(ms))) + MembersSize(ds, Tail(ms))
RECURSIVE MembersOf(_, _)
MembersOf(ds, id) == IF ds[id + 1].kind = "same" THEN MembersOf(ds, ds[id + 1].of) ELSE ds[id + 1].members

Place(a, type, size, bits) == [addr |-> a, word |-> type, size |-> size, bits |-> bits]
Behind(es) == IF Has(es, 1, "index") THEN Tail(es) ELSE es
Factor(es) == IF Has(es, 1, "index") THEN es[1].v ELSE 0
BitsSaid(es, named) ==
  CASE es = <<>> -> -1
    [] Has(es, 1, "member") -> LET b == CHOOSE i \in DOMAIN named : named[i].name = es[1].name
                               IN  named[b].lo + (32 * (named[b].hi - named[b].lo))
    [] Has(es, 1, "bits") /\ es[1].range -> es[1].lo.v + (32 * (es[1].hi.v - es[1].lo.v))
    [] OTHER -> es[1].hi.v
RECURSIVE PlaceOf(_, _, _, _)
PlaceOf(ds, id, es, a) ==
  LET ms == MembersOf(ds, id)
      here == a + (Factor(es) * SizeOf(ds, id))
      path == Behind(es)
      nameless == ms[1].name = <<>>
      k == IF nameless THEN 1 ELSE CHOOSE i \in DOMAIN ms : ms[i].name = path[1].name
      there == here + MembersSize(ds, SubSeq(ms, 1, k - 1))
      beyond == IF nameless THEN path ELSE Tail(path)
      size == OneSize(ds, ms[k])
  IN  IF ~nameless /\ path = <<>> THEN Place(here, MT_STRUCT, SizeOf(ds, id), -1)
      ELSE IF ms[k].type = MT_STRUCT THEN PlaceOf(ds, ms[k].of, beyond, there)
      ELSE Place(there + (Factor(beyond) * size), ms[k].type, size, BitsSaid(Behind(beyond), ms[k].bits))
PlainPlace(e, es, a) ==
  LET sized == Has(es, 1, "size")
      w == IF sized THEN es[1].w ELSE e.size
      path == IF sized THEN Tail(es) ELSE es
      counted == e.base \in {"register", "reg", "field"}
      at == a + (Factor(path) * (IF counted THEN 1 ELSE 2 ^ w))
      word == IF counted THEN 2 ELSE w
  IN  Place(at, word, 2 ^ word, BitsSaid(Behind(path), <<>>))

\* what a use touches: the pointer first if there is one, then the variable
PointedAt(e) == 8192 + (16 * e.addr)
Touch(how, space, place, step) == [how |-> how, space |-> space, place |-> place, step |-> step]
Said(ds, use) ==
  LET es == use.es
      pre == Has(es, 1, "pre")
      e == IF pre THEN es[2] ELSE IF Has(es, 1, "value") THEN es[1].of ELSE es[1]
      post == Has(es, 2, "post")
      path == SubSeq(es, IF pre \/ post THEN 3 ELSE 2, Len(es))
      how == IF use.operation = "assign" THEN use.assign ELSE use.operation
      mod == IF pre THEN es[1].op ELSE IF post THEN es[2].op ELSE "read"
      unit == IF e.struct THEN SizeOf(ds, e.id) ELSE IF Has(path, 1, "size") THEN 2 ^ path[1].w ELSE 2 ^ e.size
      by(h) == IF h \in IncDec THEN unit ELSE 1
      to == CASE mod = "preinc_push" -> PointedAt(e) + unit
              [] mod = "predec_push" -> PointedAt(e) - unit
              [] OTHER -> PointedAt(e)
      itself(h) == Touch(h, e.base, Place(e.addr, 2, 4, -1), by(h))
      target(a) == IF e.struct THEN PlaceOf(ds, e.id, path, a) ELSE PlainPlace(e, path, a)
  IN  CASE Has(es, 1, "value") -> <<itself(how)>>
        [] ~Has(es, 1, "value") /\ e.ptr -> <<itself(mod), Touch(how, "hub", target(to), 1)>>
        [] e.base = "reg" -> <<Touch(how, "register", PlainPlace(e, Tail(path), path[1].v), 1)>>
        [] e.base = "size" -> <<Touch(how, "hub", PlainPlace(e, Tail(path), path[1].v), 1)>>
        [] e.base = "field" -> <<Touch(how, "field", PlainPlace(e, Tail(path), path[1].v), 1)>>
        [] OTHER -> <<Touch(how, e.base, target(e.addr), 1)>>
Expressions(es) ==
  {es[i] : i \in {j \in DOMAIN es : es[j].t = "index"}} \cup
  UNION {{es[i].hi} \cup (IF es[i].range THEN {es[i].lo} ELSE {}) : i \in {j \in DOMAIN es : es[j].t = "bits"}}
----------------------------------------------------------------------------
(* The interpreter.                                                        *)

Machine == [stack |-> <<"written">>, at |-> [space |-> "none"], by |-> 1, touched |-> <<>>, lives |-> <<>>]
Top(k, n) == k.stack[Len(k.stack) - n]
Pop(k, n) == [k EXCEPT !.stack = SubSeq(@, 1, Len(@) - n)]
PushOn(k, v) == [k EXCEPT !.stack = Append(@, v)]
Aim(k, space, a, w) == [k EXCEPT !.at = [space |-> space, place |-> Place(a, w, IF w = 3 THEN 0 ELSE 2 ^ w, -1)]]
Value(k, how) ==
  LET a == 8192 + (16 * k.at.place.addr)
  IN  CASE how = "preinc_push" -> a + k.by [] how = "predec_push" -> a - k.by [] OTHER -> a
Done(k, how) ==
  LET touched == [k EXCEPT !.touched = Append(@, Touch(how, k.at.space, k.at.place, k.by)), !.by = 1]
  IN  CASE how \in {"read", "preinc_push", "predec_push", "postinc_push", "postdec_push", "get_addr"} ->
             PushOn(touched, Value(k, how))
        [] how = "write" -> Pop(touched, 1)
        [] OTHER -> touched
DotProduct(k, sizes) == FoldLeftDomain(LAMBDA acc, i : acc + (sizes[i] * Top(k, i - 1)), 0, sizes)
Execute(k, c) ==
  LET sized == [k EXCEPT !.at.place.bits = IF c.op = "bits" THEN c.d ELSE Top(k, 0)]
      base == IF c.base = "pop" THEN Pop(k, 1) ELSE k
  IN  CASE c.op = "push" -> PushOn([k EXCEPT !.lives = IF c.live THEN Append(@, c.v) ELSE @], c.v)
        [] c.op = "setup_pa" -> Aim(Pop(k, 1), "hub", Top(k, 0), c.word)
        [] c.op = "setup_pb_pi" -> Aim(Pop(k, 2), "hub", Top(k, 1) + (Top(k, 0) * 2 ^ c.word), c.word)
        [] c.op = "setup_field_p" -> Aim(Pop(k, 1), "field", Top(k, 0), 2)
        [] c.op = "setup_field_pi" -> Aim(Pop(k, 2), "field", Top(k, 0) + Top(k, 1), 2)
        [] c.op \in {"setup", "near"} -> Aim(k, c.base, c.addr, c.word)
        [] c.op = "setup_pi" -> Aim(Pop(k, 1), c.base, c.addr + (Top(k, 0) * 2 ^ c.word), c.word)
        [] c.op = "setup_reg" -> Aim(k, "register", c.reg, 2)
        [] c.op = "setup_reg_pi" -> Aim(Pop(k, 1), "register", c.reg + Top(k, 0), 2)
        [] c.op = "read_local" -> Done(Aim(k, "loc", c.addr, 2), "read")
        [] c.op = "write_local" -> Done(Aim(k, "loc", c.addr, 2), "write")
        [] c.op = "struct" ->
             Aim(Pop(base, Len(c.sizes)), IF c.base = "pop" THEN "hub" ELSE c.base,
                 (IF c.base = "pop" THEN Top(k, 0) ELSE 0) + c.offset + DotProduct(base, c.sizes), c.word)
        [] c.op = "bits" -> IF c.for \in {"read", "write"} THEN Done(sized, c.for) ELSE sized
        [] c.op = "bits_pop" -> IF c.for \in {"read", "write"} THEN Done(Pop(sized, 1), c.for) ELSE Pop(sized, 1)
        [] c.op = "bitrange" -> PushOn(PushOn(Pop(k, 2), Top(k, 0)), (Top(k, 1) - Top(k, 0)) % 32)
        [] c.op = "addbits" -> PushOn(Pop(k, 2), (32 * Top(k, 0)) + Top(k, 1))
        [] c.op = "incdec" -> [k EXCEPT !.by = c.by]
        [] c.op = "assign" -> Done(k, c.as)
        [] c.op = "address" -> Done(k, "get_addr")
        [] c.op = "transfer" -> Done([k EXCEPT !.at.place.size = c.size], c.for)
        [] c.op \in {"read", "write"} -> Done(k, c.op)
Execution(code) == FoldLeft(Execute, Machine, code)
----------------------------------------------------------------------------
(* Uses.                                                                   *)

Base(base, ptr, struct, word, a, id) == [t |-> "base", base |-> base, ptr |-> ptr, struct |-> struct, size |-> word, addr |-> a, id |-> id]
Exp(con, v) == [t |-> "index", con |-> con, v |-> v]
Bits(hi, lo, range) == [t |-> "bits", hi |-> hi, lo |-> lo, range |-> range]
Dot(name) == [t |-> "member", name |-> name]
Index(k) == {<<>>, <<Exp(TRUE, 1)>>, <<Exp(FALSE, 2 + k)>>}
SomeBits == {<<>>, <<Bits(Exp(TRUE, 5), Exp(TRUE, 0), FALSE)>>, <<Bits(Exp(TRUE, 7), Exp(TRUE, 4), TRUE)>>,
             <<Bits(Exp(FALSE, 21), Exp(TRUE, 0), FALSE)>>, <<Bits(Exp(FALSE, 22), Exp(TRUE, 6), TRUE)>>,
             <<Bits(Exp(TRUE, 24), Exp(FALSE, 9), TRUE)>>}
Sizes == {<<>>, <<[t |-> "size", w |-> 0]>>, <<[t |-> "size", w |-> 2]>>}
Pre(op) == [t |-> "pre", op |-> op]
Post(op) == [t |-> "post", op |-> op]

Operations == {<<"read", "">>, <<"write", "">>, <<"assign", "inc">>, <<"assign", "postdec_push">>}
Plain == {Base(b, FALSE, FALSE, x[1], x[2], 0) : b \in {"loc", "var", "dat"}, x \in {<<0, 5>>, <<1, 8>>, <<2, 0>>, <<2, 60>>, <<2, 62>>, <<2, 64>>}}
         \cup {Base("hub", FALSE, FALSE, 2, 68, 0)}
Pointers == {Base(b, TRUE, FALSE, w, a, 0) : b \in {"loc", "var"}, w \in 0 .. 2, a \in {4, 64}}
Structured == {Base(b, FALSE, TRUE, 0, a, id) : b \in {"loc", "var", "dat"}, a \in {0, 100}, id \in {0, 2, 3, 4}}
Pointing == {Base(b, TRUE, TRUE, 0, 4, id) : b \in {"loc", "var"}, id \in {0, 2, 4}}
Registers == {Base("register", FALSE, FALSE, 2, n, 0) : n \in {0, 300, PrxRegs, PrxRegs + 7, 504}}
Endings == {s \o i \o b : s \in Sizes, i \in Index(1), b \in SomeBits}
Around(e, path) ==
  {<<e>> \o path, <<Pre("preinc_push"), e>> \o path, <<Pre("predec_push"), e>> \o path, <<e, Post("postinc_push")>> \o path}

InPoint(k) == {<<>>} \cup {<<Dot(A)>> \o i \o b : i \in Index(k), b \in SomeBits \cup {<<Dot(A)>>, <<Dot(E)>>}}
              \cup {<<Dot(B)>> \o i : i \in Index(k)} \cup {<<Dot(XY)>> \o i \o b : i \in Index(k), b \in {<<>>, <<Dot(B)>>}}
InShape(k) == {<<>>, <<Dot(A)>>, <<Dot(E)>>} \cup {<<Dot(B)>> \o i \o p : i \in Index(k), p \in InPoint(k + 1)}
Within(id, k) ==
  CASE id = 0 -> {i \o p : i \in Index(k), p \in InPoint(k + 1)}
    [] id \in {1, 3} -> {i \o p : i \in Index(k), p \in InShape(k + 1)}
    [] id = 2 -> {i \o j \o b : i \in Index(k), j \in {<<>>}, b \in {<<>>, <<Dot(A)>>, <<Dot(B)>>, <<Bits(Exp(TRUE, 3), Exp(TRUE, 1), TRUE)>>}}
    [] id = 4 -> {i \o <<Dot(XY)>> \o j : i \in Index(k), j \in Index(k + 1)} \cup
                 {i \o <<Dot(A)>> \o j \o <<Dot(B)>> \o m \o p :
                    i \in {<<>>, <<Exp(TRUE, 1)>>}, j \in Index(k + 1), m \in Index(k + 2), p \in {<<>>, <<Dot(B)>>, <<Dot(XY), Exp(FALSE, 9), Dot(B)>>}}

Use(kind, es, o) == [kind |-> kind, es |-> es, operation |-> o[1], assign |-> o[2]]
WholeStructure(use) == LET e == IF Has(use.es, 1, "pre") THEN use.es[2] ELSE use.es[1]
                       IN  e.t = "base" /\ e.struct /\ LET s == Last(Said(Declared, use)) IN s.place.word = MT_STRUCT
Allowed(use) == WholeStructure(use) => (use.operation = "assign" \/ Last(Said(Declared, use)).place.size <= 60)
OfWhole(use) == IF WholeStructure(use) /\ use.operation = "assign" THEN [use EXCEPT !.assign = "get_addr"] ELSE use

VariableUses(bases, suffixes) == {<<e>> \o s : e \in bases, s \in suffixes}
Sources ==
  VariableUses(Plain, Endings) \cup VariableUses(Registers, {i \o b : i \in Index(1), b \in SomeBits})
  \cup {<<Base("reg", FALSE, FALSE, 2, 0, 0), Exp(TRUE, 33)>> \o i \o b : i \in Index(1), b \in SomeBits}
  \cup {<<Base("field", FALSE, FALSE, 2, 0, 0), Exp(FALSE, 34)>> \o i : i \in Index(1)}
  \cup {<<Base("size", FALSE, FALSE, w, 0, 0), Exp(FALSE, 35)>> \o i \o b : w \in 0 .. 2, i \in Index(1), b \in SomeBits}
  \cup UNION {Around(e, s) : e \in Pointers, s \in {t \in Endings : Len(t) < 3}}
  \cup UNION {{<<e>> \o p : p \in Within(e.id, 0)} : e \in Structured}
  \cup UNION {UNION {Around(e, p) : p \in Within(e.id, 0)} : e \in Pointing}
Values == {[kind |-> "variable", es |-> <<[t |-> "value", of |-> e]>>, operation |-> "assign", assign |-> a] :
             e \in Pointers \cup Pointing, a \in {"preinc_push", "postdec_push", "swap"}}
Copies == {[kind |-> "copy", es |-> <<Base("var", FALSE, TRUE, 0, 40, 4)>>, other |-> o, operation |-> "bytemove"] :
             o \in {<<Base("loc", TRUE, TRUE, 0, 4, 4), Post("postinc_push")>>, <<Base("dat", FALSE, TRUE, 0, 8, 4), Exp(FALSE, 2)>>,
                    <<Base("dat", FALSE, TRUE, 0, 8, 0)>>}}
Fills == {[kind |-> "fill", es |-> es, fill |-> f] :
            f \in {0, -1}, es \in {<<Base("dat", FALSE, TRUE, 0, 8, 4), Exp(FALSE, 2), Dot(A), Exp(TRUE, 1)>>, <<Pre("preinc_push"), Base("var", TRUE, TRUE, 0, 4, 3)>>}}

Built == FoldLeft(LAMBDA z, d : IF d.kind = "def" THEN BuildStructureRecord(z, d) ELSE EnterRecord(z, ReadRecord(z, d.of)), NoStructs, Declared)
Offsets == {[kind |-> "offset", id |-> id, es |-> i \o p] : id \in {1, 3}, i \in {<<>>, <<Exp(TRUE, 1)>>},
                 p \in {<<>>, <<Dot(A)>>, <<Dot(B)>>, <<Dot(B), Exp(TRUE, 1)>>, <<Dot(B), Exp(TRUE, 1), Dot(A)>>, <<Dot(E)>>}}
           \cup {[kind |-> "offset", id |-> 4, es |-> <<Dot(XY)>> \o i] : i \in {<<>>, <<Exp(TRUE, 1)>>}}

Fresh ==
  /\ declarations = Declared /\ compiled = <<>>
  /\ \/ structs = NoStructs /\ \E u \in Copies \cup Fills : uses = <<u>>
     \/ structs = Built /\ \E u \in Values \cup Offsets : uses = <<u>>
     \/ /\ structs = Built
        /\ \E es \in Sources, o \in Operations :
             /\ Len(es) > 2 => o[1] \in {"read", "assign"}
             /\ Allowed(Use("variable", es, o))
             /\ uses = <<OfWhole(Use("variable", es, o))>>
Unused == declarations = <<>> /\ structs = NoStructs /\ compiled = <<>> /\ uses = <<>>
vars == <<declarations, structs, uses, compiled>>
----------------------------------------------------------------------------
(* Properties.                                                             *)

NoSize(t) == IF t.how = "get_addr" THEN [t EXCEPT !.place.size = 0] ELSE t
Results(kind) == {r \in Range(compiled) : r.use.kind = kind}
Pushes(use) == (IF use.operation = "read" \/ use.assign \in {"get_addr", "postdec_push", "preinc_push"} THEN 1 ELSE 0)
               - (IF use.operation = "write" THEN 1 ELSE 0)

\* The bytecode of a variable reads, writes or changes exactly the bytes and bits that its
\* elements denote in the declared layout, whichever short form the compiler chose for it
\* (near slot, folded index, structure reduced to its base), and for a pointer goes
\* through it once; the walk that only looked (spinResolver.ts:9896) and the walk that
\* emits (spinResolver.ts:9294) end at the same element.
AddressesDenoted ==
  \A r \in Results("variable") :
    /\ r.err = "" /\ r.end = Len(r.use.es) + 1
    /\ [i \in DOMAIN Execution(r.code).touched |-> [NoSize(Execution(r.code).touched[i]) EXCEPT !.step = 1]]
       = [i \in DOMAIN Said(declarations, r.use) |-> [NoSize(Said(declarations, r.use)[i]) EXCEPT !.step = 1]]

\* A ++ or -- on a pointer, before it, behind it or as [ptr]++, moves it by the size of what
\* it points to: the byte, word or long of the access, the whole structure (the comments
\* at spinResolver.ts:9967 and 9994).
PointersStep ==
  \A r \in Results("variable") :
    [i \in DOMAIN Execution(r.code).touched |-> Execution(r.code).touched[i].step]
    = [i \in DOMAIN Said(declarations, r.use) |-> Said(declarations, r.use)[i].step]

\* Every expression of a use is evaluated once however often its elements were walked over
\* (the skipped walks take their bytes back, spinResolver.ts:10960), and only what the use
\* yields is left on the stack.
EvaluatesOnce ==
  \A r \in Results("variable") :
    LET k == Execution(r.code)
        expected == {e.v : e \in {x \in Expressions(r.use.es) : ~x.con}}
    IN  /\ Range(k.lives) = expected /\ Len(k.lives) = Cardinality(expected)
        /\ Len(k.stack) = 1 + Pushes(r.use)

\* The structure operations hand the hub routine the addresses and the common size of the
\* two structures (spinResolver.ts:10344, 10365, 10385), and structures of two sizes
\* are refused.
WholeStructures ==
  LET whole(es) == Last(Said(declarations, Use("variable", es, <<"assign", "get_addr">>))).place
      Addressed(k, es) == k.place.addr = whole(es).addr /\ k.how = "get_addr"
  IN  /\ \A r \in Results("copy") :
           LET k == Execution(Front(r.code))
               reached == SelectSeq(k.touched, LAMBDA t : t.how = "get_addr")
           IN  IF whole(r.use.es).size # whole(r.use.other).size THEN r.err # ""
               ELSE /\ Len(reached) = 2 /\ Addressed(reached[1], r.use.es) /\ Addressed(reached[2], r.use.other)
                    /\ Len(k.stack) = 4 /\ Top(k, 0) = whole(r.use.es).size
      /\ \A r \in Results("fill") :
           LET k == Execution(Front(r.code))
           IN  /\ Addressed(Last(k.touched), r.use.es) /\ Len(k.stack) = 4
               /\ Top(k, 1) = r.use.fill /\ Top(k, 0) = whole(r.use.es).size

\* OFFSETOF with constant indexes gives the offset that the layout gives, through nested
\* structures and arrays, where no member before has bitfields (spinResolver.ts:3443).
OffsetsLaidOut ==
  \A r \in Results("offset") :
    r.err = "" /\ Last(r.code).v = PlaceOf(declarations, r.use.id, r.use.es, 0).addr

\* A member is reached by every form of access that the comments document: its offset by
\* OFFSETOF (spinResolver.ts:3445, "Returns the byte offset of a member within a structure
\* definition") and its contents by structname[address].member (spinResolver.ts:10414).
MembersReached ==
  \A r \in Results("offset") \cup Results("variable") :
    /\ r.err = ""
    /\ r.use.kind = "offset" =>
         Last(r.code).v = PlaceOf(declarations, r.use.id, r.use.es, 0).addr

\* OFFSETOF(Point.XY), whose members before it have bitfields, and Point[40].B := x
FormsFresh ==
  /\ declarations = Declared /\ structs = Built /\ compiled = <<>>
  /\ \E first \in {TRUE, FALSE} :
       LET offset == [kind |-> "offset", id |-> 0, es |-> <<Dot(XY)>>]
           named == Use("variable", <<Base("name", FALSE, TRUE, 0, 0, 0), Exp(TRUE, 40), Dot(B)>>, <<"write", "">>)
       IN  uses = IF first THEN <<offset, named>> ELSE <<named, offset>>
FormsSpec == FormsFresh /\ [][Next]_vars
=============================================================================
