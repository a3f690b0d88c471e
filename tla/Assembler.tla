----------------------------- MODULE Assembler ------------------------------
(***************************************************************************)
(* The assembler of DAT blocks and of inline code.  The lines are read     *)
(* twice: the first pass finds the labels, the second knows them.  It      *)
(* counts three places at once, in the image, in the cog and in the hub.   *)
(* Fields of an instruction are kept apart instead of packed.              *)
(***************************************************************************)
EXTENDS Integers, Sequences, FiniteSets

CONSTANTS SBits,     \* bits of a source or destination field (9)
          ABits,     \* bits of an address (20)
          CogLimit,  \* longs for code below the last registers ($1F8)
          LutBase,   \* first long that is not in the cog ($200)
          HubBase,   \* first address that is in the hub ($400), as cogs count longs
          HubLimit,  \* bytes of the hub
          ObjLimit   \* what an address in the hub is compared with ($1800000)

ASSUME AssemblerAssumption == {SBits, ABits, CogLimit, LutBase, HubBase, HubLimit, ObjLimit} \subseteq Nat

VARIABLES listing,   \* the lines of the DAT blocks, or of the inline block
          asm        \* the pass, everything it counts, and the setting: PASM-only program or not,
                     \* inline or not, where the image starts
assembling == <<listing, asm>>

Fine == "none"       \* no error so far
Nameless == "none"
NoLabel == [name |-> Nameless, local |-> FALSE]
NoDitto == [on |-> FALSE, index |-> 0, count |-> 0, at |-> 0, offset |-> 0]
Pointers == {"pa", "pb", "ptra", "ptrb"}
Settings == [pasm : BOOLEAN, inline : {"no", "org", "orgh"}, start : Nat, clk : Nat, inlineOrg : Nat, inlineLimit : Nat]
Inline(s) == s.setting.inline # "no"

StartPass(setting, pass, labels) ==
  LET inlined == [base |-> setting.inlineOrg * 4, limit |-> setting.inlineLimit * 4, hub |-> setting.inline = "orgh",
                  hubOrg |-> HubBase]
      block == [base |-> 0, limit |-> CogLimit * 4, hub |-> TRUE, hubOrg |-> IF setting.pasm THEN setting.start ELSE HubBase]
      o == IF setting.inline # "no" THEN inlined ELSE block
  IN  [setting |-> setting, pass |-> pass, at |-> 1, offset |-> setting.start, hub |-> o.hub, cogOrg |-> o.base, cogLimit |-> o.limit,
       hubOrg |-> o.hubOrg, hubLimit |-> HubLimit, orghOffset |-> o.hubOrg - setting.start,
       scope |-> 0, word |-> 0, ditto |-> NoDitto, labels |-> labels, image |-> <<>>, sites |-> {}, length |-> 0, err |-> Fine]
----------------------------------------------------------------------------
(* The three places.                                                       *)

Fail(s, e) == IF s.err = Fine THEN [s EXCEPT !.err = e] ELSE s
Check(s, ok, e) == IF ok THEN s ELSE Fail(s, e)
Must(s) == s.pass = 2
Here(s) == IF s.hub THEN s.hubOrg ELSE s.cogOrg

Advance(s, n) ==
  LET moved == IF s.hub THEN [s EXCEPT !.hubOrg = @ + n] ELSE [s EXCEPT !.cogOrg = @ + n]
  IN  Check(moved, Here(moved) <= IF s.hub THEN s.hubLimit ELSE s.cogLimit, "limit")
EnterData(s, what, n) ==
  IF n <= 0 \/ s.err # Fine THEN s
  ELSE Advance([s EXCEPT !.offset = @ + n,
                         !.image = Append(@, [line |-> s.at, scope |-> s.scope, what |-> what, size |-> n,
                                              offset |-> s.offset, org |-> Here(s), hub |-> s.hub])], n)
\* back to an earlier place; what is written from there on is overwritten
Before(s, offset) ==
  [s EXCEPT !.offset = offset, !.image = SubSeq(@, 1, Cardinality({x \in DOMAIN @ : @[x].offset < offset}))]
\* a slip: the breaks of what is taken back are kept
SetOffsetKeepingSites(s, offset) == Before(s, offset)
SetOffset(s, offset) == [Before(s, offset) EXCEPT !.sites = {at \in @ : at < offset}]

AdvanceToNextCogLong(s) == IF s.hub THEN s ELSE EnterData(s, [op |-> "pad"], (-s.cogOrg) % 4)
----------------------------------------------------------------------------
(* Labels.  A local one belongs to the last label before it that is not.   *)

Key(s, name, local) == <<name, IF local THEN s.scope ELSE -1>>
Known(s, key) == key \in DOMAIN s.labels
Begin(s, line) ==
  LET scoped == IF line.label.name # Nameless /\ ~line.label.local THEN [s EXCEPT !.scope = @ + 1] ELSE s
  IN  Check(scoped, Must(s) \/ ~Known(scoped, Key(scoped, line.label.name, line.label.local)), "defined")
EnterDatSymbol(s, line, size) ==
  LET key == Key(s, line.label.name, line.label.local)
      label == [hub |-> s.hub, offset |-> s.offset, cog |-> s.cogOrg \div 4, size |-> size]
  IN  IF line.label.name = Nameless \/ Known(s, key) \/ s.err # Fine THEN [s EXCEPT !.word = size]
      ELSE IF ~s.hub /\ s.cogOrg % 4 # 0 THEN Fail(s, "unaligned")
      ELSE [s EXCEPT !.word = size, !.labels = [k \in DOMAIN @ \cup {key} |-> IF k = key THEN label ELSE @[k]]]
ErrorIfSymbol(s, line) == Check(s, line.label.name = Nameless \/ Known(s, Key(s, line.label.name, line.label.local)), "label")

\* an expression: a label, $, the index of the DITTO or nothing, plus a number
IsName(e) == e.ref \notin {"number", "origin", "index"}
Defined(s, e) == ~IsName(e) \/ Known(s, Key(s, e.ref, e.local))
Address(s, l, at) == IF at THEN l.offset
                     ELSE IF l.hub THEN l.offset + (IF s.setting.pasm THEN 0 ELSE s.orghOffset) ELSE l.cog
Value(s, e) ==
  CASE e.ref = "number" -> e.k
    [] e.ref = "origin" -> (IF s.hub THEN s.hubOrg ELSE s.cogOrg \div 4) + e.k
    [] e.ref = "index" -> s.ditto.index + e.k
    [] OTHER -> IF Defined(s, e) THEN Address(s, s.labels[Key(s, e.ref, e.local)], e.at) + e.k ELSE 0
GetValue(s, e, must) == Check(s, Defined(s, e) \/ ~must, "undefined")
InHub(s, e, v) ==
  v >= HubBase \/ (IsName(e) /\ ~e.at /\ Defined(s, e) /\ s.labels[Key(s, e.ref, e.local)].hub)
----------------------------------------------------------------------------
(* Operands.  p is the state, advanced by what the operands put before the *)
(* instruction, and the fields of the instruction so far.                  *)

RegMax == (2 ^ SBits) - 1
AddressMax == (2 ^ ABits) - 1
Low(v) == v % (2 ^ SBits)
Signed(v, bits) == v \in -(2 ^ (bits - 1))..(2 ^ (bits - 1)) - 1
\* bytes from here to the address an operand names
Span(s, v) == IF s.hub THEN v - s.hubOrg ELSE (v * 4) - s.cogOrg

CondOfAug(cond) == IF cond = "ret" THEN "always" ELSE cond
EmitAug(p, field, v) ==
  [p EXCEPT !.s = EnterData(@, [op |-> "aug", field |-> field, cond |-> CondOfAug(p.i.cond), bits |-> v \div (2 ^ SBits)], 4)]

Got(p, o) == [p EXCEPT !.s = GetValue(@, o.exp, Must(@))]
ValueReg(p, o) == [Got(p, o) EXCEPT !.s = Check(@, Value(p.s, o.exp) \in 0..RegMax, "register")]
ValueCon(p, o) == [Got(p, o) EXCEPT !.s = Check(@, Value(p.s, o.exp) \in 0..RegMax, "constant")]
Immediate(p, o, field) ==
  IF o.k = "aug" THEN EmitAug(Got(p, o), field, Value(p.s, o.exp)) ELSE ValueCon(p, o)

TryD(p, o) == [ValueReg(p, o) EXCEPT !.i.d = Value(p.s, o.exp)]
TryDImmediate(p, o) ==
  IF o.k = "reg" THEN TryD(p, o)
  ELSE [Immediate(p, o, "d") EXCEPT !.i.d = Low(Value(p.s, o.exp)), !.i.dimm = TRUE]
TryS(p, o) == [ValueReg(p, o) EXCEPT !.i.s = Value(p.s, o.exp)]
TrySImmediate(p, o) ==
  IF o.k = "reg" THEN TryS(p, o)
  ELSE [Immediate(p, o, "s") EXCEPT !.i.s = Low(Value(p.s, o.exp)), !.i.simm = TRUE]

\* a slip: the prefix before the instruction is forgotten
SpanOfFarNear(s, v) == Span(s, v) - 4
SpanOfFar(s, v) == Span(s, v) - 8
TrySRel(p, o) ==
  LET v == Value(p.s, o.exp)
      crossing == Check(Got(p, o).s, ~Must(p.s) \/ (p.s.hub <=> v >= HubBase), "crossing")
      bytes == IF ~Must(p.s) THEN 0 ELSE IF o.k = "aug" THEN SpanOfFar(p.s, v) ELSE Span(p.s, v) - 4
      aligned == Check(crossing, bytes % 4 = 0, "unaligned")
      far == (bytes \div 4) % (2 ^ (ABits - 2))
      q == [p EXCEPT !.s = aligned, !.i.simm = TRUE, !.i.rel = TRUE]
  IN  IF o.k = "reg" THEN TryS(p, o)
      ELSE IF o.k = "aug" THEN [EmitAug(q, "s", far) EXCEPT !.i.s = Low(far)]
      ELSE [q EXCEPT !.s = Check(aligned, Signed(bytes \div 4, SBits), "range"), !.i.s = Low(bytes \div 4)]

\* ++ptra, ptra--, ptra[index] and ptra++[##index]; o.inc is 1, -1 or 0
PtrIndex(o, v) == IF o.inc = 0 THEN v % 64 ELSE IF o.inc = 1 THEN v % 16 ELSE (-v) % 32
TryPtraPtrb(p, o) ==
  LET v == Value(p.s, o.exp)
      stated == o.index # "none"
      ranged == Check(Got(p, o).s, IF o.inc = 0 THEN v \in -32..31 ELSE v \in 1..16, "range")
      pointer(n) == [ptr |-> o.ptr, update |-> o.update, n |-> n]
      far == (IF o.inc = -1 THEN -v ELSE v) % (2 ^ ABits)
  IN  CASE o.k # "ptr" -> TrySImmediate(p, o)
        [] o.k = "ptr" /\ ~stated -> [p EXCEPT !.i.s = pointer(o.inc % 32), !.i.simm = TRUE]
        [] o.k = "ptr" /\ o.index = "near" -> [p EXCEPT !.s = ranged, !.i.s = pointer(PtrIndex(o, v)), !.i.simm = TRUE]
        [] o.k = "ptr" /\ o.index = "aug" -> [EmitAug(Got(p, o), "s", far) EXCEPT !.i.s = pointer(Low(far)), !.i.simm = TRUE]

RepCount(s, v) == (Span(s, v) \div 4) - 1
RepBlock(p, o) ==
  LET n == RepCount(p.s, Value(p.s, o.exp))
  IN  IF ~Must(p.s) THEN p
      ELSE [p EXCEPT !.s = Check(Check(@, Span(@, Value(@, o.exp)) % 4 = 0, "unaligned"), n \in 0..RegMax, "range"),
                     !.i.d = n, !.i.dimm = TRUE]
Rep(p, os) == IF os[1].k = "at" THEN RepBlock(TrySImmediate(Got(p, os[1]), os[2]), os[1])
              ELSE TrySImmediate(TryDImmediate(p, os[1]), os[2])
----------------------------------------------------------------------------
(* Branches with an address of their own.                                  *)

AddressOk(p, o) == [Got(p, o) EXCEPT !.s = Check(@, Value(p.s, o.exp) \in 0..AddressMax, "address")]
IsRelative(s, o, v) == o.k # "abs" /\ (s.hub <=> v >= HubBase)
Branch(p, o) ==
  LET v == Value(p.s, o.exp)
      rel == IsRelative(p.s, o, v)
  IN  IF o.k = "reg" THEN [TryD(p, o) EXCEPT !.i.allows = {"c", "z"}]
      ELSE [AddressOk(p, o) EXCEPT !.i.rel = rel, !.i.far = TRUE,
                                   !.i.a = (IF rel THEN Span(p.s, v) - 4 ELSE v) % (2 ^ ABits)]

\* the short form has a destination of its choice, the long one a pointer;
\* in the hub the long one counts bytes, in the cog longs
Calld(p, d, o) ==
  LET v == Value(p.s, o.exp)
      bytes == Span(p.s, v) - 4
      reaches == bytes % 4 = 0 /\ Signed(bytes \div 4, SBits)
      wide == IF p.s.hub THEN bytes ELSE bytes \div 4
      q == AddressOk(ValueReg(p, d), o)
      pointed == [q EXCEPT !.s = Check(@, d.reg \in Pointers, "pointer"), !.i.far = TRUE, !.i.d = d.reg]
      rel == IsRelative(p.s, o, v)
  IN  CASE o.k = "reg" -> [TryS(TryD(p, d), o) EXCEPT !.i.allows = {"c", "z"}]
        [] o.k # "reg" /\ ~Must(p.s) -> q
        [] o.k # "reg" /\ Must(p.s) /\ rel /\ reaches ->
             [q EXCEPT !.i.d = Value(p.s, d.exp), !.i.s = Low(bytes \div 4), !.i.simm = TRUE, !.i.rel = TRUE, !.i.allows = {"c", "z"}]
        [] o.k # "reg" /\ Must(p.s) /\ rel /\ ~reaches -> [pointed EXCEPT !.i.rel = TRUE, !.i.a = wide % (2 ^ ABits)]
        [] OTHER -> [pointed EXCEPT !.i.a = v]

LocIsRelative(s, o, v) == o.k # "abs" /\ (InHub(s, o.exp, v) <=> s.hub)
Loc(p, d, o) ==
  LET v == Value(p.s, o.exp)
      rel == LocIsRelative(p.s, o, v)
      away == IF p.s.hub THEN v - (p.s.hubOrg + 4) ELSE v - ((p.s.cogOrg \div 4) + 1)
      q == AddressOk(ValueReg(p, d), o)
  IN  [q EXCEPT !.s = Check(@, ~Must(@) \/ d.reg \in Pointers, "pointer"),
                !.i.d = d.reg, !.i.far = TRUE, !.i.rel = rel, !.i.a = (IF rel THEN away ELSE v) % (2 ^ ABits)]
----------------------------------------------------------------------------
(* The classes of instructions, by what their operands are.                *)

Slots(class) ==
  CASE class \in {"ds", "bitx", "testb", "du", "duii", "duiz"} -> <<"D", "S">>
    [] class \in {"sel", "selget"} -> <<"D", "S", "N">>
    [] class = "dsj" -> <<"D", "R">>
    [] class = "ls" -> <<"L", "S">>
    [] class = "lsj" -> <<"L", "R">>
    [] class = "dsp" -> <<"D", "P">>
    [] class = "lsp" -> <<"L", "P">>
    [] class \in {"jmp", "call"} -> <<"B">>
    [] class = "jpoll" -> <<"R">>
    [] class = "aug" -> <<"A">>
    [] class \in {"d", "de", "pop"} -> <<"D">>
    [] class \in {"l", "getbrk", "pinop", "testp", "push"} -> <<"L">>
    [] class = "akpin" -> <<"S">>
    [] OTHER -> <<>>

Operand(slot, p, o) ==
  CASE slot = "D" -> TryD(p, o)
    [] slot = "L" -> TryDImmediate(p, o)
    [] slot = "S" -> TrySImmediate(p, o)
    [] slot = "R" -> TrySRel(p, o)
    [] slot = "P" -> TryPtraPtrb(p, o)
    [] slot = "B" -> Branch(p, o)
    [] slot = "N" -> [Got(p, o) EXCEPT !.s = Check(@, Value(p.s, o.exp) \in 0..p.i.most, "selector"), !.i.n = Value(p.s, o.exp)]
    [] slot = "A" -> [Got(p, o) EXCEPT !.i.a = Value(p.s, o.exp) \div (2 ^ SBits)]

\* the source that is left out
Defaulted(class, i) ==
  CASE class = "du" -> [i EXCEPT !.s = i.d]
    [] class = "duii" -> [i EXCEPT !.s = "inverse", !.simm = TRUE]
    [] class = "duiz" -> [i EXCEPT !.s = 0, !.simm = TRUE]
    [] class = "de" -> [i EXCEPT !.dimm = (i.d = "none")]
    [] OTHER -> i
Operands(p, line) ==
  LET slots == IF line.class = "sel" /\ Len(line.ops) = 1 THEN <<"S">> ELSE Slots(line.class)
      n == IF Len(line.ops) < Len(slots) THEN Len(line.ops) ELSE Len(slots)
      q[x \in 0..n] == IF x = 0 THEN p ELSE Operand(slots[x], q[x - 1], line.ops[x])
  IN  IF n < Len(slots) THEN [q[n] EXCEPT !.i = Defaulted(line.class, @)] ELSE q[n]

EffectAllowed(eff, allows) == eff = {} \/ (eff \cap allows # {} /\ (eff = {"c", "z"} => allows = eff))
Assembled(p, line) ==
  LET s == Check(p.s, EffectAllowed(line.eff, p.i.allows), "effect")
  IN  EnterData(s, p.i, 4)

\* ASMCLK sets the clock in up to three instructions with a prefix each
Under(p, cond) == [p EXCEPT !.i.cond = cond]
Long(p, cond, op) == [p EXCEPT !.s = EnterData(@, [op |-> op, cond |-> cond], 4)]
Asmclk(p) ==
  LET cond == CondOfAug(p.i.cond)
      first == Long(EmitAug(Under(p, cond), "d", p.s.setting.clk), cond, "hubset")
      second == Long(EmitAug(first, "d", 200000), cond, "waitx")
  IN  IF p.s.setting.clk = 0 THEN p ELSE EmitAug(Under(second, p.i.cond), "d", p.s.setting.clk)

\* DEBUG: the opposite condition skips the BRK, which has none of its own
Conditional(cond) == cond \notin {"always", "ret"}
\* a slip: only the second pass makes room for the skip
DebugSkipLate(p) == Must(p.s) /\ Conditional(p.i.cond)
DebugSkip(p) == Conditional(p.i.cond)
Debug(s, p, line) ==
  LET skipped == IF DebugSkip(p) THEN EnterData(p.s, [op |-> "skip", cond |-> p.i.cond], 4) ELSE p.s
      brk == [p.i EXCEPT !.op = "debug", !.cond = IF DebugSkip(p) THEN "always" ELSE @, !.a = IF Must(s) THEN line.code ELSE 0]
      sited == IF Must(s) /\ line.code > 0 THEN [skipped EXCEPT !.sites = @ \cup {skipped.offset}] ELSE skipped
  IN  IF line.on THEN EnterData(sited, brk, 4) ELSE s

Instruction(s, line) ==
  LET blank == [op |-> line.op, cond |-> line.cond, d |-> "none", s |-> "none", dimm |-> FALSE, simm |-> FALSE,
                rel |-> FALSE, far |-> FALSE, a |-> 0, n |-> 0, most |-> line.most, allows |-> line.allows]
      p == [s |-> s, i |-> blank]
  IN  CASE line.class = "debug" -> Debug(s, p, line)
        [] line.class = "nop" -> EnterData(Check(s, line.cond = "always", "condition"), blank, 4)
        [] line.class = "rep" -> Assembled(Rep(p, line.ops), line)
        [] line.class = "calld" -> Assembled(Calld(p, line.ops[1], line.ops[2]), line)
        [] line.class = "loc" -> Assembled(Loc(p, line.ops[1], line.ops[2]), line)
        [] line.class = "asmclk" -> Assembled(Asmclk(p), line)
        [] OTHER -> Assembled(Operands(p, line), line)
----------------------------------------------------------------------------
(* The lines: an instruction has a class, operands and what it allows,     *)
(* data have a size, a value and a count each.                             *)

Exps == [ref : STRING, local : BOOLEAN, at : BOOLEAN, k : Int]
Opds == [k : {"reg", "imm", "aug", "abs", "at"}, exp : Exps, reg : STRING]
        \cup [k : {"ptr"}, exp : Exps, ptr : STRING, update : STRING, inc : -1..1, index : {"none", "near", "aug"}]
Fillers == {"pad", "fill"}
Lines ==
  [t : {"label", "data", "inst", "file", "struct", "ditto", "dittoend", "fit", "res", "orgf", "align", "org", "orgh", "end"},
   label : [name : STRING, local : BOOLEAN], w : 0..2, data : Seq([exp : Exps, w : 0..2, fit : BOOLEAN, count : Exps]),
   class : STRING, op : STRING \ (Fillers \cup {"debug"}), cond : STRING, ops : Seq(Opds), eff : SUBSET {"c", "z"},
   allows : SUBSET {"c", "z"}, most : Nat, code : Nat, on : BOOLEAN, n : Nat, exp : Exps, org : Seq(Exps)]
Written == listing \in Seq(Lines) /\ \A x \in DOMAIN listing : listing[x].t = "align" => listing[x].n > 0

Origin(s, e) == GetValue(s, e, TRUE)
ReadLabel(s, line) == EnterDatSymbol(Begin(s, line), line, s.word)

\* BYTE, WORD and LONG, with FIT and a count, which has to be known in both passes
Width(w) == IF w = 0 THEN 1 ELSE 2 * w
FitsIn(v, w) == w = 2 \/ v \in -(2 ^ ((8 * Width(w)) - 1))..(2 ^ (8 * Width(w))) - 1
Datum(s, x) ==
  LET v == Value(s, x.exp)
      n == Value(s, x.count)
      fits == Check(Origin(GetValue(s, x.exp, Must(s)), x.count), n > 0 /\ x.fit => FitsIn(v, x.w), "fit")
      written[c \in 0..n] == IF c = 0 THEN fits ELSE EnterData(written[c - 1], [op |-> "data", v |-> v, w |-> x.w], Width(x.w))
  IN  IF n > 0 THEN written[n] ELSE fits
ReadData(s, line) ==
  LET entered[k \in 0..Len(line.data)] ==
        IF k = 0 THEN EnterDatSymbol(Begin(s, line), line, line.w) ELSE Datum(entered[k - 1], line.data[k])
  IN  entered[Len(line.data)]
ReadInstruction(s, line) == Instruction(EnterDatSymbol(AdvanceToNextCogLong(Begin(s, line)), line, 2), line)
ReadFile(s, line) == EnterData(EnterDatSymbol(Begin(s, line), line, 0), [op |-> "file"], line.n)
\* a structure is entered by the second pass only
ReadStruct(s, line) ==
  LET b == Begin(s, line)
      new == line.label.name # Nameless /\ ~Known(b, Key(b, line.label.name, line.label.local))
      hub == Check(Check(b, b.hub, "mode"), new, "label")
  IN  IF Must(s) THEN [EnterDatSymbol(hub, line, "struct") EXCEPT !.word = s.word] ELSE b

\* DITTO n, and its END, which goes back to the line after DITTO
ReadDitto(s, line) ==
  LET b == EnterDatSymbol(Begin(s, line), line, 2)
      v == Value(b, line.exp)
      opened == [on |-> TRUE, index |-> 0, count |-> v, at |-> s.at + 1, offset |-> b.offset]
  IN  IF s.ditto.on THEN Fail(b, "end")
      ELSE [Check(Origin(b, line.exp), v >= 0, "count") EXCEPT !.ditto = opened]
\* a slip: one copy too many
DittoRepeatedOnce(s) == s.ditto.index + 1 <= s.ditto.count
DittoRepeated(s) == s.ditto.index + 1 < s.ditto.count
ReadDittoEnd(s, line) ==
  LET b == Begin(s, line)
      again == [b EXCEPT !.ditto.index = @ + 1, !.at = s.ditto.at - 1]
      dropped == IF s.ditto.count = 0 THEN SetOffset(b, s.ditto.offset) ELSE b
      closed == EnterDatSymbol([dropped EXCEPT !.ditto = NoDitto], line, 2)
  IN  IF ~s.ditto.on THEN Fail(b, "end")
      ELSE IF s.ditto.count > 0 /\ DittoRepeated(s) THEN again ELSE closed

ReadFit(s, line) ==
  LET limit == Value(s, line.exp) * (IF s.hub THEN 1 ELSE 4)
  IN  Check(Origin(ErrorIfSymbol(Begin(s, line), line), line.exp), Here(s) <= limit, "fit")
ReadRes(s, line) ==
  LET b == EnterDatSymbol(AdvanceToNextCogLong(Check(Begin(s, line), ~s.hub, "mode")), line, 2)
      moved == [Origin(b, line.exp) EXCEPT !.cogOrg = @ + (4 * Value(b, line.exp))]
  IN  Check(moved, moved.cogOrg <= b.cogLimit, "limit")
ReadOrgf(s, line) ==
  LET b == ErrorIfSymbol(Check(Begin(s, line), ~s.hub, "mode"), line)
      to == 4 * Value(b, line.exp)
      checked == Check(Check(Origin(b, line.exp), to <= b.cogLimit, "limit"), b.cogOrg <= to, "origin")
  IN  EnterData(checked, [op |-> "fill"], to - b.cogOrg)
ReadAlign(s, line) == EnterData(Check(Begin(s, line), ~Inline(s), "inline"), [op |-> "pad"], (-s.offset) % line.n)

\* ORG and ORGH, with an address and a limit or without; the mode changes before they are evaluated
ReadOrg(s, line) ==
  LET b == ErrorIfSymbol(Check(Check(Begin(s, line), ~Inline(s), "inline"), ~s.ditto.on, "ditto"), line)
      plain == [b EXCEPT !.hub = FALSE, !.cogOrg = 0, !.cogLimit = CogLimit * 4]
      base == Value(plain, line.org[1])
      based == [Check(Origin(plain, line.org[1]), base <= HubBase, "address")
                  EXCEPT !.cogOrg = base * 4, !.cogLimit = (IF base >= LutBase THEN HubBase ELSE LutBase) * 4]
      limit == Value(based, line.org[2])
      limited == [Check(Origin(based, line.org[2]), limit <= HubBase, "address") EXCEPT !.cogLimit = limit * 4]
  IN  IF line.org = <<>> THEN plain ELSE IF Len(line.org) = 1 THEN based ELSE limited
HubAt(s, base) == [s EXCEPT !.hub = TRUE, !.hubOrg = base, !.orghOffset = base - s.offset]
HubPlain(s) == [HubAt(s, IF s.setting.pasm THEN s.offset ELSE HubBase) EXCEPT !.hubLimit = HubLimit]
HubBased(s, e) ==
  LET base == Value(s, e)
      high == Check(Origin(s, e), s.setting.pasm \/ base >= HubBase, "low")
  IN  HubAt(Check(high, base <= ObjLimit, "address"), base)
HubLimited(s, e, base) ==
  LET limit == Value(s, e)
  IN  [Check(Origin(s, e), base <= limit /\ limit <= HubLimit, "address") EXCEPT !.hubLimit = limit]
FillUp(s, n) == EnterData([Check(s, n >= 0, "decreases") EXCEPT !.hubOrg = @ - n], [op |-> "fill"], n)
ReadOrgh(s, line) ==
  LET b == ErrorIfSymbol(Check(Begin(s, line), ~Inline(s), "inline"), line)
      plain == HubPlain(b)
      base == Value(plain, line.org[1])
      based == HubBased(plain, line.org[1])
      stated == IF Len(line.org) = 1 THEN based ELSE HubLimited(based, line.org[2], base)
  IN  IF line.org = <<>> THEN plain ELSE IF s.setting.pasm THEN FillUp(stated, base - b.offset) ELSE stated

\* the END of inline code appends a return
ReadEnd(s, line) ==
  EnterData(Check(Begin(s, line), Inline(s) /\ ~s.ditto.on, "end"), [op |-> "ret", cond |-> "always"], 4)
----------------------------------------------------------------------------
(* The passes.                                                             *)

StartFrom(setting) == Written /\ asm = StartPass(setting, 1, <<>>)
AssemblerInit == \E setting \in Settings : StartFrom(setting)

Assembling == asm.err = Fine /\ asm.pass < 3
AtLine(t) == Assembling /\ asm.at <= Len(listing) /\ listing[asm.at].t = t
Line == listing[asm.at]
NextLine(s) == asm' = [s EXCEPT !.at = IF s.err = Fine THEN @ + 1 ELSE @] /\ UNCHANGED listing
Label == AtLine("label") /\ NextLine(ReadLabel(asm, Line))
Data == AtLine("data") /\ NextLine(ReadData(asm, Line))
Instruct == AtLine("inst") /\ NextLine(ReadInstruction(asm, Line))
File == AtLine("file") /\ NextLine(ReadFile(asm, Line))
Struct == AtLine("struct") /\ NextLine(ReadStruct(asm, Line))
Ditto == AtLine("ditto") /\ NextLine(ReadDitto(asm, Line))
DittoEnd == AtLine("dittoend") /\ NextLine(ReadDittoEnd(asm, Line))
Fit == AtLine("fit") /\ NextLine(ReadFit(asm, Line))
Res == AtLine("res") /\ NextLine(ReadRes(asm, Line))
Orgf == AtLine("orgf") /\ NextLine(ReadOrgf(asm, Line))
Align == AtLine("align") /\ NextLine(ReadAlign(asm, Line))
Org == AtLine("org") /\ NextLine(ReadOrg(asm, Line))
Orgh == AtLine("orgh") /\ NextLine(ReadOrgh(asm, Line))
InlineEnd == AtLine("end") /\ NextLine([ReadEnd(asm, Line) EXCEPT !.at = Len(listing)])

\* the longs of inline code, with its padding
InlineLongs == (asm.offset - asm.setting.start + 3) \div 4
LengthField == IF asm.setting.inline = "org" THEN InlineLongs - 1 ELSE InlineLongs
Ended == listing # <<>> /\ listing[Len(listing)].t = "end"
EndPass ==
  /\ Assembling /\ asm.at > Len(listing)
  /\ asm' = IF asm.ditto.on THEN Fail(asm, "ditto")
            ELSE IF Inline(asm) /\ ~Ended THEN Fail(asm, "end")
            ELSE IF asm.pass = 1 THEN StartPass(asm.setting, 2, asm.labels) ELSE [asm EXCEPT !.pass = 3, !.length = IF Inline(asm) THEN LengthField ELSE 0]
  /\ UNCHANGED listing

AssemblerNext == Label \/ Data \/ Instruct \/ File \/ Struct \/ Ditto \/ DittoEnd \/ Fit \/ Res \/ Orgf \/ Align
                 \/ Org \/ Orgh \/ InlineEnd \/ EndPass
AssemblerSpec == AssemblerInit /\ [][AssemblerNext]_assembling
----------------------------------------------------------------------------
(* What an assembled program is.                                           *)

Finished == asm.pass = 3
EndOf(s) == IF s.image = <<>> THEN s.setting.start ELSE s.image[Len(s.image)].offset + s.image[Len(s.image)].size
Breaks(s) == {s.image[x].offset : x \in {y \in DOMAIN s.image : s.image[y].what.op = "debug" /\ s.image[y].what.a > 0}}

\* What is written follows on each other without holes, from the start of the image to the place
\* reached, whatever lines pad, fill or take back (spinResolver.ts:1535, 1604, 1716).  The recorded
\* breaks, which a cached object is patched at, are those of the image, at every moment.  And the
\* interpreter loads an inline block up to the return at its end and less than a long more
\* (6079): one long more than the length of an ORG block says, as many as that of an ORGH block.
ImageWhole ==
  asm.err = Fine =>
    /\ \A x \in DOMAIN asm.image :
         /\ asm.image[x].size > 0
         /\ asm.image[x].offset = IF x = 1 THEN asm.setting.start ELSE asm.image[x - 1].offset + asm.image[x - 1].size
    /\ asm.offset = EndOf(asm)
    /\ asm.sites = Breaks(asm)
    /\ Finished /\ Inline(asm) =>
         /\ asm.image[Len(asm.image)].what.op = "ret"
         /\ 4 * (IF asm.setting.inline = "org" THEN asm.length + 1 ELSE asm.length)
              \in asm.offset - asm.setting.start..asm.offset - asm.setting.start + 3

\* is x the first of what its line put into the image, apart from what was to align it?
FirstOfLine(x) ==
  /\ asm.image[x].what.op \notin Fillers
  /\ x > 1 => asm.image[x - 1].line # asm.image[x].line \/ asm.image[x - 1].what.op \in Fillers
Labelled == {"label", "data", "inst", "file", "res", "ditto"}
Stands(label, scope, offset, hub, org) ==
  LET key == <<label.name, IF label.local THEN scope ELSE -1>>
  IN  /\ key \in DOMAIN asm.labels
      /\ asm.labels[key].offset = offset /\ asm.labels[key].hub = hub
      /\ hub \/ asm.labels[key].cog * 4 = org

\* A label is where its line is, in both passes: in the image, and in the cog if it is in the cog.
\* The labels are entered by the first pass, which does not know those further down; the second
\* pass has to put every line at the same place, though it knows them all (spinResolver.ts:1342).
SymbolsStand ==
  asm.err = Fine =>
    /\ \A x \in DOMAIN asm.image :
         LET c == asm.image[x]
             line == listing[c.line]
         IN  FirstOfLine(x) /\ line.t \in Labelled /\ line.label.name # Nameless => Stands(line.label, c.scope, c.offset, c.hub, c.org)
    /\ asm.pass = 2 /\ asm.at <= Len(listing) /\ Line.t \in Labelled /\ Line.label.name # Nameless =>
         LET pad == IF ~asm.hub /\ Line.t \in {"inst", "res"} THEN (-asm.cogOrg) % 4 ELSE 0
         IN  Stands(Line.label, asm.scope, asm.offset + pad, asm.hub, Here(asm) + pad)
=============================================================================
