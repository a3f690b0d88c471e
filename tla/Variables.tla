----------------------------- MODULE Variables ------------------------------
(***************************************************************************)
(* Variables of the Spin2 language as the resolver compiles them.  Each    *)
(* use is read twice: CheckVariable walks over the elements to learn what  *)
(* the variable is and where it ends, CompileVariable goes back and walks  *)
(* them again to emit the bytecode.  An element is a base, an index        *)
(* [exp], .size, .name, .[bits], [++] behind a pointer or [++] before it;  *)
(* an expression is a value, known to the compiler or not.                 *)
(***************************************************************************)
EXTENDS Structures

VARIABLES uses,     \* the statements that are still to be compiled
          compiled  \* what was emitted for those before

At(es, p) == IF p \in DOMAIN es THEN es[p] ELSE [t |-> "end"]
Has(es, p, t) == At(es, p).t = t
IsPtr(e) == e.t = "base" /\ e.ptr
IncDec == {"inc", "dec", "preinc_push", "predec_push", "postinc_push", "postdec_push"}

CompileExpression(exp) == <<[op |-> "push", v |-> exp.v, live |-> ~exp.con]>>
Setup(op, v) == <<[op |-> op, word |-> v.word]>>
----------------------------------------------------------------------------
(* Structures: s is the walk along a path, in record r, at element p.      *)

Fault(s, e) == [s EXCEPT !.err = e]
HandleStructureIndex(s, es, size) ==
  LET e == At(es, s.p)
      moved == [s EXCEPT !.p = @ + 1]
  IN  CASE s.err # "" \/ e.t # "index" -> s
        [] e.t = "index" /\ size > 65535 -> Fault(s, "indexed structure")
        [] e.t = "index" /\ e.con /\ e.v \notin 0 .. 65535 -> Fault(s, "structure index")
        [] e.t = "index" /\ e.con /\ s.offset + (size * e.v) > HubLimit -> Fault(s, "hub range")
        [] e.t = "index" /\ ~e.con /\ Len(s.live) >= 3 -> Fault(s, "three runtime indexes")
        [] e.con -> [moved EXCEPT !.offset = @ + (size * e.v)]
        [] OTHER -> [moved EXCEPT !.live = Append(@, [exp |-> e, size |-> size])]

\* a bitfield of the declaration is looked up, and left for the second walk
ResolveBits(s, es, next) ==
  LET d == FindBits(s.r, next, At(es, s.p).name)
  IN  CASE s.err # "" \/ ByteAt(s.r, next) # 2 \/ ~Has(es, s.p, "member") -> s
        [] d = -1 -> Fault(s, "no such member")
        [] OTHER -> [s EXCEPT !.bits = d]

OnElement(s, es, type, next) ==
  LET i == HandleStructureIndex(s, es, 2 ^ type)
      mode == (4 * Len(s.live)) + Len(i.live)
      at == [i EXCEPT !.bwl = TRUE, !.size = 2 ^ type, !.word = type, !.mode = mode,
                      !.from = IF mode = 1 THEN s.p ELSE i.p]
  IN  ResolveBits(at, es, next)

RECURSIVE WalkStructure(_, _, _)
OnMember(s, es, m) ==
  IF m.type = MT_STRUCT THEN WalkStructure([s EXCEPT !.r = RecordWithin(s.r, m.sub)], es, FALSE)
  ELSE OnElement(s, es, m.type, m.next)
IntoMember(s, es, found) ==
  IF found.err # "" THEN Fault(s, found.err)
  ELSE OnMember([s EXCEPT !.p = @ + 1, !.offset = @ + found.member.offset], es, found.member)
InRecord(s, es, nameless) ==
  CASE s.err # "" -> s
    [] s.err = "" /\ nameless -> OnElement(s, es, ByteAt(s.r, 10), 12)
    [] s.err = "" /\ ~nameless /\ ~Has(es, s.p, "member") -> s
    [] OTHER -> IntoMember(s, es, FindMember(s.r, FirstMember, At(es, s.p).name))
WalkStructure(s, es, nameless) ==
  LET whole == LongAt(s.r, 2)
  IN  IF Len(s.r) < FirstMember THEN Fault(s, "bad read offset")
      ELSE InRecord([HandleStructureIndex(s, es, whole) EXCEPT !.size = whole], es, nameless)

\* structname[address] never reads a record, nor does it get one
CompileStructSetup(z, v, es, p) ==
  LET r == IF v.base = "name" THEN <<>> ELSE ReadRecord(z, v.id)
      s == [r |-> r, p |-> p, offset |-> IF v.base = "name" \/ v.ptr THEN 0 ELSE v.addr,
            live |-> <<>>, size |-> 0, word |-> MT_STRUCT, bwl |-> FALSE, mode |-> 0, from |-> p,
            bits |-> -1, err |-> ""]
  IN  WalkStructure(s, es, v.base # "name" /\ FirstIsNameless(r))

StructCode(v, s, pointer) ==
  FlattenSeq([i \in DOMAIN s.live |-> CompileExpression(s.live[i].exp)]) \o pointer \o
  <<[op |-> "struct", base |-> IF v.ptr THEN "pop" ELSE v.base, word |-> s.word, offset |-> s.offset,
     sizes |-> Reverse([i \in DOMAIN s.live |-> s.live[i].size])]>>
----------------------------------------------------------------------------
(* The first walk.                                                         *)

CheckSizeOverride(v, es) ==
  IF Has(es, v.end, "size") THEN [v EXCEPT !.sor = TRUE, !.word = es[v.end].w, !.end = @ + 1] ELSE v
CheckIndex(v, es) == IF Has(es, v.end, "index") THEN [v EXCEPT !.index = TRUE, !.end = @ + 1] ELSE v
CheckBitfield(v, es) ==
  LET e == At(es, v.end)
      known == e.hi.con /\ (e.range => e.lo.con)
  IN  CASE e.t = "member" -> [v EXCEPT !.err = "expected ["]
        [] e.t = "bits" -> [v EXCEPT !.bits = IF known THEN "con" ELSE "run", !.end = @ + 1]
        [] OTHER -> v

Walked(v, s, es) ==
  LET after == [v EXCEPT !.end = s.p, !.bwl = s.bwl, !.size = s.size, !.err = s.err]
  IN  CASE s.err # "" \/ ~s.bwl -> after
        [] s.err = "" /\ s.bits >= 0 -> [after EXCEPT !.bits = "struct", !.descriptor = s.bits, !.end = @ + 1]
        [] OTHER -> CheckBitfield(after, es)
CheckStruct(z, v, es) == Walked(v, CompileStructSetup(z, v, es, v.next), es)

CheckTail(v, es) ==
  LET sized == IF v.base \in {"loc", "var", "dat", "hub"} THEN CheckSizeOverride(v, es) ELSE v
      indexed == CheckIndex(sized, es)
  IN  IF v.base = "field" THEN indexed ELSE CheckBitfield(indexed, es)

\* REG[n], FIELD[x] and BYTE[x] have an expression of their own first
CheckBase(v, es) ==
  LET e == At(es, v.end)
      past == [v EXCEPT !.end = @ + 1]
  IN  CASE v.base = "reg" /\ (e.t # "index" \/ ~e.con \/ e.v \notin 0 .. 511) -> [v EXCEPT !.err = "0 to 511"]
        [] v.base = "reg" -> [past EXCEPT !.base = "register", !.addr = e.v, !.next = v.end + 1]
        [] v.base \in {"field", "size"} /\ e.t = "index" -> past
        [] v.base \in {"field", "size"} /\ e.t # "index" -> [v EXCEPT !.err = "expected ["]
        [] OTHER -> v

CheckVariable(z, es) ==
  LET pre == Has(es, 1, "pre")
      value == Has(es, 1, "value")
      e == IF pre THEN At(es, 2) ELSE IF value THEN es[1].of ELSE At(es, 1)
      post == ~pre /\ ~value /\ IsPtr(e) /\ Has(es, 2, "post")
      next == IF pre \/ post THEN 3 ELSE 2
      v == [base |-> e.base, ptr |-> e.ptr, struct |-> e.struct, value |-> value, addr |-> e.addr,
            id |-> e.id, word |-> e.size, next |-> next, end |-> next, sor |-> FALSE,
            index |-> FALSE, bits |-> "none", descriptor |-> 0, bwl |-> FALSE, size |-> 0, err |-> "",
            modifier |-> IF pre THEN es[1].op ELSE IF post THEN es[2].op ELSE "",
            operation |-> "", assign |-> ""]
      based == CheckBase(v, es)
  IN  CASE (pre \/ value) /\ ~IsPtr(e) -> [v EXCEPT !.err = "expected pointer"]
        [] value /\ IsPtr(e) -> v
        [] ~value /\ e.struct -> CheckStruct(z, v, es)
        [] based.err # "" -> based
        [] OTHER -> CheckTail(based, es)
----------------------------------------------------------------------------
(* The second walk.                                                        *)

ReadWriteAssign(v) ==
  CASE v.bits # "none" /\ v.operation \in {"read", "write"} -> <<>>
    [] v.operation = "assign" -> <<[op |-> "assign", as |-> v.assign]>>
    [] OTHER -> <<[op |-> v.operation]>>

BitRange(first, second) == (32 * ((first - second) % 32)) + (second % 32)
Bitfield(v, es, p) ==
  LET e == At(es, p)
      fixed == IF v.bits = "struct" THEN v.descriptor
               ELSE IF e.range THEN BitRange(e.hi.v, e.lo.v) ELSE e.hi.v % 1024
  IN  CASE v.bits = "none" -> <<>>
        [] v.bits # "none" /\ e.t # (IF v.bits = "struct" THEN "member" ELSE "bits") -> <<[op |-> "lost"]>>
        [] v.bits = "run" -> <<[op |-> "bits_pop", for |-> v.operation]>>
        [] OTHER -> <<[op |-> "bits", d |-> fixed, for |-> v.operation]>>
Finish(v, es, p) == Bitfield(v, es, p) \o ReadWriteAssign(v)

\* the expressions of a bitfield are pushed before anything of the variable is
PastVariable(z, v, es) ==
  IF v.struct THEN CompileStructSetup(z, v, es, v.next).p
  ELSE v.next + (IF v.base = "size" THEN 1 ELSE 0) + (IF v.sor THEN 1 ELSE 0) + (IF v.index THEN 1 ELSE 0)
BitNumbers(e) ==
  CompileExpression(e.hi) \o
  (IF e.range THEN CompileExpression(e.lo) \o <<[op |-> "bitrange"], [op |-> "addbits"]>> ELSE <<>>)
RuntimeBits(z, v, es) == IF v.bits = "run" THEN BitNumbers(At(es, PastVariable(z, v, es))) ELSE <<>>

NearLong(v) == v.word = 2 /\ v.addr % 4 = 0 /\ v.addr < 64 /\ ~v.index
\* loc, var, dat and hub variables, with p behind the size override
CompileHub(v, es, p) ==
  LET e == At(es, p)
      next == IF v.index THEN p + 1 ELSE p
      folded == v.index /\ e.con
      direct(a, how) == <<[op |-> how, base |-> v.base, word |-> v.word, addr |-> a]>>
      address == <<[op |-> "push", v |-> v.addr, live |-> FALSE]>>
      slot == 4 * (v.addr \div 4)
      stored == [op |-> IF v.operation = "write" THEN "write_local" ELSE "read_local", addr |-> slot]
  IN  CASE NearLong(v) /\ (v.base = "var" \/ (v.base = "loc" /\ (v.bits # "none" \/ v.operation = "assign"))) ->
             direct(slot, "near") \o Finish(v, es, p)
        [] NearLong(v) /\ v.base = "loc" /\ v.bits = "none" /\ v.operation # "assign" -> <<stored>>
        [] v.base = "hub" /\ v.index -> address \o CompileExpression(e) \o Setup("setup_pb_pi", v) \o Finish(v, es, next)
        [] v.base = "hub" /\ ~v.index -> address \o Setup("setup_pa", v) \o Finish(v, es, next)
        [] folded /\ v.base # "hub" -> direct(v.addr + (e.v * 2 ^ v.word), "setup") \o Finish(v, es, next)
        [] ~folded /\ v.index /\ v.base # "hub" -> CompileExpression(e) \o direct(v.addr, "setup_pi") \o Finish(v, es, next)
        [] OTHER -> direct(v.addr, "setup") \o Finish(v, es, next)

\* the pointer itself: ++ and -- step by the size of what it points to
\* a slip: structure pointers step like those to elements
PointerStepOfElement(z, v) == IF v.operation # "assign" \/ v.assign \notin IncDec THEN 1 ELSE 2 ^ v.word

PointerStep(z, v) ==
  CASE v.operation # "assign" \/ v.assign \notin IncDec -> 1
    [] v.struct -> StructureSize(z, v.id)
    [] OTHER -> 2 ^ v.word
SteppedBy(step, code) == IF step = 1 THEN code ELSE Front(code) \o <<[op |-> "incdec", by |-> step], Last(code)>>
CompilePtrValue(z, v) ==
  SteppedBy(PointerStep(z, v),
            CompileHub([v EXCEPT !.word = 2, !.sor = FALSE, !.index = FALSE, !.bits = "none"], <<>>, 1))
Pointer(z, v) ==
  CompilePtrValue(z, [v EXCEPT !.operation = IF v.modifier = "" THEN "read" ELSE "assign", !.assign = v.modifier])

\* BYTE, WORD and LONG members of a structure at a known place are like other variables
IsPlain(v, s) == s.bwl /\ ~v.ptr /\ s.mode <= 1
Transfer(v, s) ==
  IF v.operation = "assign" THEN <<[op |-> "address"]>>
  ELSE <<[op |-> "transfer", size |-> s.size, for |-> v.operation]>>
CompileWalked(z, v, es, s) ==
  CASE IsPlain(v, s) ->
         CompileHub([v EXCEPT !.word = s.word, !.addr = s.offset, !.index = (s.mode = 1)], es, s.from)
    [] ~s.bwl /\ v.operation = "assign" /\ v.assign # "get_addr" -> <<[op |-> "only @"]>>
    [] ~s.bwl /\ v.operation # "assign" /\ s.size > 60 -> <<[op |-> "15 longs"]>>
    [] OTHER -> StructCode(v, s, IF v.ptr THEN Pointer(z, v) ELSE <<>>) \o
                (IF s.bwl THEN Finish(v, es, s.p) ELSE Transfer(v, s))
CompileStruct(z, v, es) == CompileWalked(z, v, es, CompileStructSetup(z, v, es, v.next))

PrxRegs == 472
NearRegister(v) == ~v.index /\ (v.addr \in PrxRegs .. PrxRegs + 7 \/ v.addr \in 504 .. 511)
CompileRegister(v, es) ==
  LET e == At(es, v.next)
      past == IF v.index THEN v.next + 1 ELSE v.next
      reg(op, n) == <<[op |-> op, reg |-> n % 512]>>
      setup == CASE NearRegister(v) -> reg("setup_reg", v.addr)
                 [] v.index /\ e.con -> reg("setup_reg", v.addr + e.v)
                 [] v.index /\ ~e.con -> CompileExpression(e) \o reg("setup_reg_pi", v.addr)
                 [] OTHER -> reg("setup_reg", v.addr)
  IN  setup \o Finish(v, es, past)

\* FIELD[x], BYTE[x] and pointers: an address on the stack, perhaps an index
CompilePopped(v, es, p, address) ==
  LET kind == IF v.base = "field" THEN "setup_field_p" ELSE "setup_pa"
      indexed == IF v.base = "field" THEN "setup_field_pi" ELSE "setup_pb_pi"
  IN  IF v.index THEN address \o CompileExpression(At(es, p)) \o Setup(indexed, v) \o Finish(v, es, p + 1)
      ELSE address \o Setup(kind, v) \o Finish(v, es, p)

PastSize(v) == IF v.sor THEN v.next + 1 ELSE v.next
CompileVariable(z, v, es) ==
  RuntimeBits(z, v, es) \o
  (CASE v.value -> CompilePtrValue(z, v)
     [] ~v.value /\ v.struct -> CompileStruct(z, v, es)
     [] ~v.value /\ ~v.struct /\ v.ptr -> CompilePopped(v, es, PastSize(v), Pointer(z, v))
     [] v.base \in {"field", "size"} -> CompilePopped(v, es, v.next + 1, CompileExpression(At(es, v.next)))
     [] v.base = "register" -> CompileRegister(v, es)
     [] OTHER -> CompileHub(v, es, PastSize(v)))
----------------------------------------------------------------------------
(* The statements.                                                         *)

With(v, operation, assign) == [v EXCEPT !.operation = operation, !.assign = assign]
GetAddress(z, v, es) == CompileVariable(z, With(v, "assign", "get_addr"), es)
Constant(n) == <<[op |-> "push", v |-> n, live |-> FALSE]>>

Result(use, code, end, err) == [use |-> use, code |-> code, end |-> end, err |-> err]

\* a read, a write or an assignment; what is written is on the stack before
CompileChecked(z, use, v) ==
  Result(use, IF v.err = "" THEN CompileVariable(z, With(v, use.operation, use.assign), use.es) ELSE <<>>,
         v.end, v.err)
CompileUse(z, use) == CompileChecked(z, use, CheckVariable(z, use.es))

\* struct := struct, :=:, ==, ~: the addresses, the size and a hub routine
CompileCopy(z, use, v, w) ==
  IF v.size # w.size THEN Result(use, <<>>, v.end, "not same size")
  ELSE Result(use, GetAddress(z, v, use.es) \o GetAddress(z, w, use.other) \o
                   Constant(v.size) \o <<[op |-> use.operation]>>, v.end, v.err)
CompileStructCopy(z, use) == CompileCopy(z, use, CheckVariable(z, use.es), CheckVariable(z, use.other))
CompileFill(z, use, v) ==
  Result(use, GetAddress(z, v, use.es) \o Constant(use.fill) \o Constant(v.size) \o <<[op |-> "bytefill"]>>,
         v.end, v.err)
CompileStructFill(z, use) == CompileFill(z, use, CheckVariable(z, use.es))

Emit(r) == compiled' = Append(compiled, r) /\ uses' = Tail(uses)
Ready(kind) == structs.err = "" /\ Len(structs.offsets) = Len(declarations) /\ uses # <<>> /\ Head(uses).kind = kind
UseVariable == Ready("variable") /\ Emit(CompileUse(structs, Head(uses))) /\ UNCHANGED <<declarations, structs>>
CopyStructure == Ready("copy") /\ Emit(CompileStructCopy(structs, Head(uses))) /\ UNCHANGED <<declarations, structs>>
FillStructure == Ready("fill") /\ Emit(CompileStructFill(structs, Head(uses))) /\ UNCHANGED <<declarations, structs>>
TakenOffset(use, o) == Result(use, Constant(o.offset), Len(use.es) + 1, o.err)
TakeOffset ==
  /\ Ready("offset")
  /\ Emit(TakenOffset(Head(uses), OffsetOf(structs, Head(uses).id, Head(uses).es)))
  /\ UNCHANGED <<declarations, structs>>

Next == (Declare /\ UNCHANGED <<uses, compiled>>) \/ UseVariable \/ CopyStructure \/ FillStructure \/ TakeOffset
=============================================================================
