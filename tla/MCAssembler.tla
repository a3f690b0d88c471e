---------------------------- MODULE MCAssembler -----------------------------
(***************************************************************************)
(* The assembler on short programs: a branch of every kind between two     *)
(* labels with lines of every length between them, DITTO blocks, data,     *)
(* inline code.  Fields are 3 bits instead of 9 and the hub starts at 16   *)
(* instead of $400, so that a few lines reach every limit.  The references *)
(* read the program text, and the image as the processor does.             *)
(***************************************************************************)
EXTENDS Assembler, SequencesExt, FiniteSetsExt, TLC
----------------------------------------------------------------------------
(* Programs.                                                               *)

Num(n) == [ref |-> "number", local |-> FALSE, at |-> FALSE, k |-> n]
To(name) == [Num(0) EXCEPT !.ref = name]
ToLocal(name) == [To(name) EXCEPT !.local = TRUE]
Opd(k, e) == [k |-> k, exp |-> e, reg |-> "none"]
Reg(n) == Opd("reg", Num(n))
Pointer(n) == [Opd("reg", Num(n)) EXCEPT !.reg = "pa"]
Ptr(ptr, update, inc, index, n) == [k |-> "ptr", exp |-> Num(n), ptr |-> ptr, update |-> update, inc |-> inc, index |-> index]

Blank == [t |-> "label", label |-> NoLabel, w |-> 0, data |-> <<>>, class |-> "nop", op |-> "none", cond |-> "always", ops |-> <<>>,
          eff |-> {}, allows |-> {}, most |-> 0, code |-> 0, on |-> FALSE, n |-> 0, exp |-> Num(0), org |-> <<>>]
A(t) == [Blank EXCEPT !.t = t]
At(name, line) == [line EXCEPT !.label = [name |-> name, local |-> FALSE]]
Dot(name, line) == [line EXCEPT !.label = [name |-> name, local |-> TRUE]]
Inst(class, ops) == [A("inst") EXCEPT !.class = class, !.op = class, !.ops = ops]
When(cond, line) == [line EXCEPT !.cond = cond]
Bytes(es) == [A("data") EXCEPT !.data = [i \in DOMAIN es |-> [exp |-> es[i], w |-> 0, fit |-> FALSE, count |-> Num(1)]]]
Longs(e, count) == [A("data") EXCEPT !.w = 2, !.data = <<[exp |-> e, w |-> 2, fit |-> FALSE, count |-> Num(count)]>>]
Brk(code) == [A("inst") EXCEPT !.class = "debug", !.op = "brk", !.code = code, !.on = TRUE]
DittoOf(n) == [A("ditto") EXCEPT !.exp = Num(n)]
Nop == Inst("nop", <<>>)
OrgAt(t, ns) == [A(t) EXCEPT !.org = [i \in DOMAIN ns |-> Num(ns[i])]]
AlignL == [A("align") EXCEPT !.n = 4]

Branches(e) ==
  {Inst("dsj", <<Reg(1), Opd(k, e)>>) : k \in {"imm", "aug"}} \cup {Inst("jpoll", <<Opd("imm", e)>>)}
  \cup {Inst("lsj", <<Opd("aug", Num(100)), Opd(k, e)>>) : k \in {"imm", "aug"}}
  \cup {Inst("jmp", <<Opd(k, e)>>) : k \in {"imm", "abs"}} \cup {Inst("loc", <<Pointer(2), Opd(k, e)>>) : k \in {"imm", "abs"}}
  \cup {Inst("calld", <<d, Opd("imm", e)>>) : d \in {Reg(3), Pointer(3)}}
  \cup {Inst("rep", <<Opd("at", e), s>>) : s \in {Reg(5), Opd("aug", Num(50))}}
Noises ==
  {<<>>, <<Bytes(<<Num(1)>>)>>, <<Longs(Num(7), 3)>>, <<Bytes(<<Num(1), Num(2), Num(3)>>), AlignL>>,
   <<When("if_c", Inst("ls", <<Opd("aug", Num(77)), Opd("aug", Num(78))>>))>>, <<When("if_nc", Brk(3))>>,
   <<When("ret", Inst("asmclk", <<>>))>>, <<DittoOf(2), Longs([Num(1) EXCEPT !.ref = "index"], 1), A("dittoend")>>}
Origins == {<<A("org")>>, <<OrgAt("org", <<1, 14>>)>>, <<A("orgh")>>, <<>>}
Around(noises, after) ==
  {o \o <<At("a", Nop)>> \o n \o <<b>> \o m \o <<Dot("c", Nop), At("b", Nop)>> :
     o \in Origins, n \in noises, b \in Branches(To("a")) \cup Branches(To("b")) \cup Branches(ToLocal("c")), m \in after}
Reaching == Around(Noises, {<<>>, <<Longs(Num(9), 2)>>})

Scopes ==
  {<<At("a", Nop)>> \o <<Dot("x", Nop), Inst("jmp", <<Opd("imm", e)>>), At("b", A("label")), f, Inst("jmp", <<Opd("imm", g)>>)>> :
     e \in {ToLocal("x"), ToLocal("y"), To("b")}, g \in {ToLocal("x"), ToLocal("y"), To("a"), To("q")},
     f \in {Dot("y", Nop), Dot("x", Bytes(<<Num(5)>>)), At("q", Nop)}}

Constants == {Num(n) : n \in {0, 7, 8, 63, 500}}
Encoded ==
  {<<o, When(cond, Inst(class, <<d, s>>))>> :
     o \in {A("org"), A("orgh")}, cond \in {"always", "ret", "if_c"}, class \in {"ds", "ls"},
     d \in {Reg(4)} \cup {Opd(k, e) : k \in {"imm", "aug"}, e \in Constants}, s \in {Reg(4)} \cup {Opd(k, e) : k \in {"imm", "aug"}, e \in Constants}}
  \cup {<<When(cond, Inst("lsp", <<Reg(1), p>>))>> : cond \in {"ret", "if_c"},
        p \in {Ptr("ptra", "no", 0, index, n) : index \in {"none", "near", "aug"}, n \in {-33, -32, -1, 31, 60}}
              \cup {Ptr("ptrb", u, inc, index, n) : u \in {"pre", "post"}, inc \in {1, -1}, index \in {"none", "near", "aug"}, n \in {1, 15, 16, 17}}}

Dittos ==
  {<<o, At("a", Longs(Num(1), 1)), DittoOf(n)>> \o body \o <<A("dittoend"), At("b", Longs(Num(2), 1))>> :
     o \in {A("org"), A("orgh")}, n \in 0..3,
     body \in {<<Longs([Num(4) EXCEPT !.ref = "index"], 1)>>, <<Bytes(<<Num(6)>>)>>, <<Brk(2), Longs([Num(0) EXCEPT !.ref = "index"], 2)>>,
               <<Dot("x", Nop)>>, <<A("org")>>}}
Layouts ==
  {<<A("org"), At("a", Bytes([i \in 1..n |-> Num(i)]))>> \o l \o <<At("b", Longs(Num(3), 1)), A("orgh"), At("c", Nop)>> : n \in 1..3,
     l \in {<<>>, <<Nop>>, <<[A("res") EXCEPT !.exp = Num(2)]>>, <<[A("orgf") EXCEPT !.exp = Num(4)]>>, <<Brk(1), Brk(2)>>,
            <<[A("fit") EXCEPT !.exp = Num(1)]>>, <<At("r", [A("res") EXCEPT !.exp = Num(9)])>>, <<[A("file") EXCEPT !.n = 5], AlignL>>,
            <<A("orgh"), At("s", A("struct")), Nop, OrgAt("org", <<15>>)>>, <<DittoOf(0), Brk(5), A("dittoend"), Brk(4)>>,
            <<OrgAt("orgh", <<40>>), At("h", Nop)>>, <<OrgAt("orgh", <<40, 60>>), At("h", Longs(Num(8), 6))>>,
            <<[Bytes(<<Num(0)>>) EXCEPT !.data = <<[exp |-> Num(-129), w |-> 0, fit |-> TRUE, count |-> Num(2)]>>]>>}}
InlineBlocks ==
  {l \o <<b, At("z", Nop)>> \o m \o <<A("end")>> :
     l \in {<<>>, <<Bytes(<<Num(1)>>)>>, <<At("y", Nop), Dot("c", Nop)>>}, b \in {Inst("jmp", <<Opd("imm", To("z"))>>), When("if_c", Brk(9))},
     m \in {<<>>, <<Bytes(<<Num(1), Num(2)>>)>>, <<Longs(Num(4), 5)>>, <<Bytes(<<Num(3)>>)>>, <<A("org")>>, <<DittoOf(2), Nop>>}}

Dat(pasm, start) == [pasm |-> pasm, inline |-> "no", start |-> start, clk |-> 7, inlineOrg |-> 0, inlineLimit |-> 0]
NoProgram == listing = <<>> /\ StartFrom(Dat(FALSE, 8))
Inlined == {[Dat(FALSE, start) EXCEPT !.inline = i, !.inlineOrg = org, !.inlineLimit = limit] :
              start \in {5, 8}, i \in {"org", "orgh"}, org \in {0, 1}, limit \in {6, 12}}
MCInit ==
  \/ listing \in Reaching \cup Scopes \cup Encoded \cup Dittos \cup Layouts /\ StartFrom(Dat(FALSE, 8))
  \/ /\ listing \in Dittos \cup Layouts
                     \cup {<<OrgAt("orgh", <<20>>)>> \o p : p \in {q \in Around({<<>>, <<Brk(2)>>}, {<<>>}) : q[1].t = "inst"}}
     /\ StartFrom(Dat(TRUE, 0))
  \/ listing \in InlineBlocks /\ \E setting \in Inlined : StartFrom(setting)
----------------------------------------------------------------------------
(* The text: where a label is, which one a name means.                     *)

ScopeOf(i) == Cardinality({j \in 1..i : listing[j].label.name # Nameless /\ ~listing[j].label.local})
Places(ref, local, i) ==
  {j \in DOMAIN listing : listing[j].label.name = ref /\ listing[j].label.local = local /\ (local => ScopeOf(j) = ScopeOf(i))}
PlaceOf(e, i) == CHOOSE j \in Places(e.ref, e.local, i) : TRUE
OperandsOf(i) == {listing[i].ops[x] : x \in DOMAIN listing[i].ops}

\* what a line and those after it put into the image, without the padding
Of(i) == SelectSeq(asm.image, LAMBDA c : c.line >= i /\ c.what.op # "pad")
Words == {x \in DOMAIN asm.image : asm.image[x].size = 4 /\ asm.image[x].what.op \notin {"pad", "fill", "file"}}
IsInst(x) == x \in Words /\ "dimm" \in DOMAIN asm.image[x].what
----------------------------------------------------------------------------
(* The processor: what precedes an instruction completes its constants.    *)

IsAug(x, field) == x \in Words /\ asm.image[x].what.op = "aug" /\ asm.image[x].what.field = field
AugBefore(x, field) ==
  IF IsAug(x - 1, field) THEN x - 1 ELSE IF IsAug(x - 1, IF field = "s" THEN "d" ELSE "s") /\ IsAug(x - 2, field) THEN x - 2 ELSE 0
Completed(x, field, low) ==
  IF AugBefore(x, field) = 0 THEN low ELSE (asm.image[AugBefore(x, field)].what.bits * (2 ^ SBits)) + low
Extend(v, bits) == IF v >= 2 ^ (bits - 1) THEN v - (2 ^ bits) ELSE v

\* the address a relative branch goes to, in bytes of its memory
Target(x) ==
  LET c == asm.image[x]
      next == c.org + 4
      longs == c.what.op = "calld" \/ c.what.op = "loc"
      near == IF AugBefore(x, "s") = 0 THEN Extend(c.what.s, SBits) ELSE Extend(Completed(x, "s", c.what.s), ABits - 2)
  IN  IF c.what.far THEN next + (Extend(c.what.a, ABits) * (IF ~c.hub /\ longs THEN 4 ELSE 1))
      ELSE next + (4 * near)
RepEnd(x) == asm.image[x].org + 4 + (4 * (asm.image[x].what.d + 1))
----------------------------------------------------------------------------
(* A relative branch, of every form and in every place, goes to the label  *)
(* that is written in it, and a REP block ends in front of the label: the  *)
(* distance is counted from the instruction after the branch, whatever     *)
(* prefixes stand before it, in the units of the memory it runs from.      *)
BranchesReach ==
  Finished => \A x \in DOMAIN asm.image : IsInst(x) =>
    LET c == asm.image[x]
        o == Last(listing[c.line].ops)
        r == listing[c.line].ops[1]
    IN  /\ c.what.rel => (IsName(o.exp) /\ Target(x) = Head(Of(PlaceOf(o.exp, c.line))).org)
        /\ c.what.op = "rep" => RepEnd(x) = Head(Of(PlaceOf(r.exp, c.line))).org + 4

(* A name is undefined only if no label of it is in the program, or, for a *)
(* local one, none after the same label that is not local.                 *)
LabelsFound ==
  asm.err = "undefined" => \E i \in DOMAIN listing : \E o \in OperandsOf(i) : IsName(o.exp) /\ Places(o.exp.ref, o.exp.local, i) = {}

(* A constant of an operand reaches the processor whole: what its field    *)
(* cannot hold is in the prefix in front of the instruction, which runs    *)
(* under the same condition and never returns, and a pointer is moved by   *)
(* the index that is written.                                              *)
OperandsWhole ==
  Finished => \A x \in DOMAIN asm.image : IsInst(x) /\ listing[asm.image[x].line].class \in {"ds", "ls", "lsp"} =>
    LET c == asm.image[x]
        os == listing[c.line].ops
        cond == listing[c.line].cond
        p == c.what.s
        moved == IF p.update = "no" THEN Extend(p.n, 6) ELSE IF p.n = 0 THEN 16 ELSE Extend(p.n, 5)
        stated == IF os[2].index = "none" THEN os[2].inc ELSE IF os[2].inc = -1 THEN -os[2].exp.k ELSE os[2].exp.k
    IN  /\ c.what.cond = cond
        /\ \A f \in {"s", "d"} : AugBefore(x, f) # 0 =>
             asm.image[AugBefore(x, f)].what.cond = IF cond = "ret" THEN "always" ELSE cond
        /\ Completed(x, "d", c.what.d) = os[1].exp.k
        /\ IF os[2].k = "ptr" THEN stated = IF os[2].index = "aug" THEN Extend(Completed(x, "s", p.n), ABits) ELSE moved
           ELSE Completed(x, "s", p) = os[2].exp.k

\* the data of a program: every line of a DITTO block once for each index
DataOf(i, index) ==
  FlattenSeq([d \in DOMAIN listing[i].data |->
    LET x == listing[i].data[d] IN [c \in 1..x.count.k |-> x.exp.k + (IF x.exp.ref = "index" THEN index ELSE 0)]])
RECURSIVE Listing(_, _)
Listing(i, j) ==
  IF i > j THEN <<>>
  ELSE IF listing[i].t = "ditto" THEN
    LET e == Min({x \in i..Len(listing) : listing[x].t = "dittoend"})
        copy(n) == FlattenSeq([l \in 1..(e - i - 1) |-> DataOf(i + l, n)])
    IN  FlattenSeq([n \in 1..listing[i].exp.k |-> copy(n - 1)]) \o Listing(e + 1, j)
  ELSE DataOf(i, 0) \o Listing(i + 1, j)
IsData(c) == c.what.op = "data"
(* The image holds the data as it is listed, a DITTO block as often as its *)
(* count says with the index of the copy in it.                            *)
AsListed ==
  Finished => LET data == SelectSeq(asm.image, IsData)
              IN  [i \in DOMAIN data |-> data[i].what.v] = Listing(1, Len(listing))
----------------------------------------------------------------------------
\* after a DITTO block without copies
DittoDropped ==
  asm.err = Fine /\ asm.at > 1 /\ asm.at <= Len(listing) + 1 /\ listing[asm.at - 1].t = "dittoend" /\ ~asm.ditto.on
(* A DITTO block of count 0 produces no output: the next line is at the    *)
(* place at which the block is, in the image and in the cog or the hub.    *)
NothingOfZeroDitto ==
  DittoDropped =>
    LET start == Max({x \in 1..(asm.at - 1) : listing[x].t = "ditto"})
        last == Last(asm.image)
    IN  (listing[start].exp.k = 0 /\ last.line = start - 1 /\ listing[start - 1].t = "data") => Here(asm) = last.org + last.size
ZeroDittos == {l \in Dittos : l[3].exp.k = 0}
ZeroSpec == listing \in ZeroDittos /\ StartFrom(Dat(FALSE, 8)) /\ [][AssemblerNext]_assembling
=============================================================================
