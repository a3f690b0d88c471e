------------------------------- MODULE Blocks -------------------------------
(***************************************************************************)
(* The block compiler of the resolver: IF, CASE, CASE_FAST, REPEAT, NEXT   *)
(* and QUIT turned into bytecode with branches whose sizes depend on the   *)
(* distances they span.  A block is compiled again and again from the same *)
(* source position until its end stops moving; a branch of one pass uses   *)
(* the addresses of the pass before.                                       *)
(*                                                                         *)
(* A method is a sequence of source lines [col, kind, n, ...].  Straight   *)
(* code and expressions are n bytes.  The compiled method is a sequence of *)
(* items [at, op, to, line], and the interpreter that runs them takes      *)
(* every branch both ways.                                                 *)
(***************************************************************************)
EXTENDS Integers, Sequences, SequencesExt, FiniteSets

CONSTANTS IfLimit, CaseLimit, CaseFastLimit, \* 256 each in the code
          Start,                             \* offset of the method's code
          VarBytes,                          \* bytes of a variable's setup and operation
          PassBound                          \* passes after which a block counts as endless

BlocksAssumption ==
  /\ IfLimit \in Nat /\ CaseLimit \in Nat /\ CaseFastLimit \in Nat
  /\ Start \in Nat /\ VarBytes \in Nat \ {0} /\ PassBound \in Nat

VARIABLES lines,  \* the source lines of the method
          image,  \* what compileTopBlock left: items, offset, error
          pc,     \* offset of the next bytecode to run, -1 when not running
          stack,  \* the run-time stack, in longs: an address, 0 for a value,
                  \* Known for the count of a loop, which is not zero
          line    \* the last line of straight code that ran

vars == <<lines, image, pc, stack, line>>

Unset == 524287        \* 0x7ffff, farther than any branch
Undefined == -1        \* what an array holds behind its end
Known == 1
----------------------------------------------------------------------------
(* The block stack and the image under compilation.                        *)

\* BlockNestLevel.setValue lets an index equal to the size through
Frame(type, size) ==
  [type |-> type, post |-> FALSE, passes |-> 0,
   addr |-> [k \in 0 .. size |-> IF k < size THEN Unset ELSE Undefined]]

Push(s, type, size) == [s EXCEPT !.nest = Append(@, Frame(type, size))]
Pop(s) == [s EXCEPT !.nest = Front(@)]
Top(s) == Last(s.nest)
Write(s, k, v) == [s EXCEPT !.nest[Len(s.nest)].addr[k] = v]
WritePtr(s, k) == Write(s, k, s.off)
Retype(s, type) == [s EXCEPT !.nest[Len(s.nest)].type = type]

Fail(s, e) == IF s.err = "" THEN [s EXCEPT !.err = e] ELSE s
Skip(s) == [s EXCEPT !.next = @ + 1]
AtEnd(s) == s.err # "" \/ s.next > Len(lines)
Here(s) == lines[s.next]

Put(s, op, n, to, l) ==
  [s EXCEPT !.out = Append(@, [at |-> s.off, op |-> op, to |-> to, line |-> l]),
            !.off = @ + n]

\* setOffsetTo: what lies behind the offset is written over
Rewind(s, t) == [s EXCEPT !.out = t.out, !.off = t.off]

\* the signed and the unsigned variable length forms
RfvarsSize(v) == CASE v \in -64 .. 63 -> 1
                   [] v \in -8192 .. 8191 -> 2
                   [] v \in -1048576 .. 1048575 -> 3
                   [] OTHER -> 4
RfvarSize(v) == CASE v < 128 -> 1 [] v < 16384 -> 2 [] v < 2097152 -> 3 [] OTHER -> 4

CompileBranch(s, op, address) ==
  IF address = Undefined THEN Fail(s, "NaN")
  ELSE Put(s, op, 1 + RfvarsSize(address - (s.off + 1)), address, 0)
BstackBranch(s, k, op) == CompileBranch(s, op, Top(s).addr[k])
BstackAddress(s, k) ==
  LET a == Top(s).addr[k]
  IN  Put(s, "address", IF a > 65535 THEN 5 ELSE IF a > 255 THEN 3 ELSE 2, a, 0)

Expression(s, n) == Put(s, "value", n, 0, 0)
----------------------------------------------------------------------------
RECURSIVE CompileBlock(_, _), Statement(_), OptimizeBlock(_, _, _), IfArm(_, _, _),
          CaseMatches(_, _, _, _), CaseBodies(_, _, _),
          FastMatches(_, _, _, _), FastBodies(_, _, _, _), Outward(_, _, _, _, _)

\* compileBlock: the lines that are indented deeper than col
CompileBlock(s, col) ==
  IF AtEnd(s) \/ (~ AtEnd(s) /\ Here(s).col <= col) THEN s
  ELSE CompileBlock(Statement(s), col)

\* compiled for its errors and its length in source only
SkipBlock(s, col) == Rewind(CompileBlock(s, col), s)

\* cb_if @@comp_if: one condition and its block, then what follows on the
\* same column.  Slot 0 is the end, slot k the start of what comes after the
\* k-th block.
IfEnd(b, k) == WritePtr(WritePtr(b, k), 0)
IfNext(b, out, k, col) ==
  IF AtEnd(b) \/ (~ AtEnd(b) /\ Here(b).col < col) THEN IfEnd(b, k)
  ELSE IF Here(b).kind = "else" THEN IfEnd(CompileBlock(Skip(out), col), k + 1)
  ELSE IF Here(b).kind \notin {"elseif", "elseifnot"} THEN IfEnd(b, k)
  ELSE IF k + 1 = IfLimit + 2 THEN Fail(out, "loxee")
  ELSE IfArm(out, k + 1, col)
IfRest(b, k, col) == IfNext(b, WritePtr(BstackBranch(b, 0, "jmp"), k), k, col)
IfArm(s, k, col) ==
  LET c == Expression(Skip(s), Here(s).n)
      jump == IF Here(s).kind \in {"ifnot", "elseifnot"} THEN "jnz" ELSE "jz"
  IN  IfRest(CompileBlock(BstackBranch(c, k, jump), col), k, col)

\* cb_case, first pass over the matches: the comparisons; r = [s, n, other]
CaseMatches(s, col, n, other) ==
  IF AtEnd(s) \/ (~ AtEnd(s) /\ Here(s).col <= col) THEN [s |-> s, n |-> n, other |-> other]
  ELSE LET l == Here(s)
           Compare(t, v) ==
             IF v[1] = v[2] THEN BstackBranch(Expression(t, 1), n + 1, "case_value")
             ELSE BstackBranch(Expression(Expression(t, 1), 1), n + 1, "case_range")
       IN  IF other # 0 THEN [s |-> Fail(s, "omblc"), n |-> n, other |-> other]
           ELSE IF l.kind = "other"
           THEN CaseMatches(SkipBlock(Skip(s), l.col), col, n, s.next)
           ELSE IF n + 1 > CaseLimit THEN [s |-> Fail(s, "loxcase"), n |-> n, other |-> other]
           ELSE CaseMatches(SkipBlock(FoldLeft(Compare, Skip(s), l.vals), l.col),
                            col, n + 1, other)

\* second pass over the matches: the blocks
CaseBodies(s, col, n) ==
  IF AtEnd(s) \/ (~ AtEnd(s) /\ Here(s).col <= col) THEN s
  ELSE LET l == Here(s)
       IN  IF l.kind = "other" THEN CaseBodies(SkipBlock(Skip(s), l.col), col, n)
           ELSE CaseBodies(Put(CompileBlock(WritePtr(Skip(s), n + 1), l.col),
                               "case_done", 1, 0, 0), col, n + 1)

\* the block of OTHER stands behind the comparisons, then the others from the first match on
CaseOther(m) ==
  IF m.other = 0 THEN m.s ELSE CompileBlock([m.s EXCEPT !.next = m.other + 1], lines[m.other].col)
CaseCases(m, col, first) ==
  IF m.s.err # "" THEN m.s
  ELSE IF m.n < 1 THEN Fail(m.s, "nce")
  ELSE WritePtr(CaseBodies([Put(CaseOther(m), "case_done", 1, 0, 0) EXCEPT !.next = first],
                           col, 0), 0)

BlockCase(s, col) ==
  CaseCases(CaseMatches(Expression(BstackAddress(Skip(s), 0), Here(s).n), col, 0, 0),
            col, s.next + 1)
----------------------------------------------------------------------------
(* CASE_FAST: slots of its frame and its table of words.                   *)
FinalAddr == 0
TablePtr == 1
MinValue == 3
MaxValue == 4
TableAddr == 5

UpdateMinMax(s, v) ==
  LET a == Top(s).addr
      lo == IF v < a[MinValue] THEN v ELSE a[MinValue]
      hi == IF v > a[MaxValue] THEN v ELSE a[MaxValue]
      t == Write(Write(s, MinValue, lo), MaxValue, hi)
  IN  IF hi - lo > 255 THEN Fail(t, "cfvmbw") ELSE t

\* first pass: the least and the greatest value; r = [s, n, other]
FastMatches(s, col, n, other) ==
  IF AtEnd(s) \/ (~ AtEnd(s) /\ Here(s).col <= col) THEN [s |-> s, n |-> n, other |-> other]
  ELSE LET l == Here(s)
           Widen(t, v) == UpdateMinMax(UpdateMinMax(t, v[1]), v[2])
       IN  IF other THEN [s |-> Fail(s, "omblc"), n |-> n, other |-> other]
           ELSE IF l.kind = "other" THEN FastMatches(SkipBlock(Skip(s), l.col), col, n, TRUE)
           ELSE IF n + 1 > CaseFastLimit
           THEN [s |-> Fail(s, "loxcasef"), n |-> n, other |-> other]
           ELSE FastMatches(SkipBlock(FoldLeft(Widen, Skip(s), l.vals), l.col),
                            col, n + 1, other)

\* the words of one value or range, which are to be free
Fill(u, v, n, t) ==
  LET at == {x - Top(u).addr[MinValue] + 1 : x \in v[1] .. v[2]}
      w == u.out[t].to
  IN  IF \E j \in at : w[j] # Last(w) THEN Fail(u, "cfiinu")
      ELSE [u EXCEPT !.out[t].to = [j \in DOMAIN w |-> IF j \in at THEN n ELSE w[j]]]

FastNext(b, col, n, t) ==
  LET w == WritePtr(b, TableAddr + n)
  IN  IF b.err # "" THEN b
      ELSE IF w.off - Top(w).addr[TablePtr] > 65535 THEN Fail(w, "cfbex")
      ELSE FastBodies(Put(w, "fast_done", 1, 0, 0), col, n, t)

\* second pass: fills the table, whose free words hold the number of cases,
\* and compiles the blocks; t is the index of the table's item in out
FastBodies(s, col, n, t) ==
  IF AtEnd(s) \/ (~ AtEnd(s) /\ Here(s).col <= col) THEN s
  ELSE LET l == Here(s)
           Each(u, v) == Fill(u, v, n, t)
           f == IF l.kind = "other" THEN Skip(s) ELSE FoldLeft(Each, Skip(s), l.vals)
       IN  FastNext(CompileBlock(WritePtr(f, TableAddr + n), l.col), col, n + 1, t)

\* between the passes: the table, which no value has claimed yet
FastSpan(s) == Top(s).addr[MaxValue] - Top(s).addr[MinValue] + 1
FreeTable(m, first) ==
  [Put(m.s, "table", 2 * (FastSpan(m.s) + 1), [j \in 1 .. FastSpan(m.s) + 1 |-> m.n], first)
     EXCEPT !.next = first + 1]

\* at the end: the numbers of the cases become offsets from the table
FastOffsets(s, t) ==
  [s EXCEPT !.out[t].to =
     [j \in DOMAIN @ |-> Top(s).addr[TableAddr + @[j]] - Top(s).addr[TablePtr]]]
FastEnd(b, t) == IF b.err # "" THEN b ELSE FastOffsets(WritePtr(b, FinalAddr), t)

FastCases(m, col, first) ==
  IF m.s.err # "" THEN m.s
  ELSE IF m.n < 1 THEN Fail(m.s, "nce")
  ELSE FastEnd(FastBodies(FreeTable(m, first), col, 0, Len(m.s.out) + 1), Len(m.s.out) + 1)

BlockCaseFast(s, col) ==
  LET e == Expression(BstackAddress(Skip(s), FinalAddr), Here(s).n)
      \* bc_case_fast_init, a long and a word, then the table
      i == WritePtr(Put(e, "fast_init", 7, 0, 0), TablePtr)
      w == Write(Write(i, MinValue, 2147483647), MaxValue, -2147483647 - 1)
  IN  FastCases(FastMatches(w, col, 0, FALSE), col, s.next)
----------------------------------------------------------------------------
(* REPEAT: slot 0 is where NEXT goes, slot 1 where QUIT goes, 2 the loop.  *)
NextAddress == 0
QuitAddress == 1
LoopAddress == 2

\* a slip: without a condition below it the block is not repeated
BlockRepeatOnce(s, col) ==
  LET l == WritePtr(WritePtr(Skip(s), LoopAddress), NextAddress)
  IN  WritePtr(BstackBranch(CompileBlock(l, col), QuitAddress, "jmp"), QuitAddress)
\* the while or until below a plain REPEAT is known after the first pass only
RepeatEnd(b, col) ==
  LET below == ~ AtEnd(b) /\ Here(b).col = col /\ Here(b).kind \in {"while", "until"}
      c == [WritePtr(b, NextAddress) EXCEPT !.nest[Len(b.nest)].post = TRUE]
  IN  WritePtr(IF below
               THEN BstackBranch(Expression(Skip(c), Here(b).n), LoopAddress,
                                 IF Here(b).kind = "while" THEN "jnz" ELSE "jz")
               ELSE BstackBranch(b, LoopAddress, "jmp"), QuitAddress)
BlockRepeat(s, col) ==
  LET l == WritePtr(Skip(s), LoopAddress)
  IN  RepeatEnd(CompileBlock(IF Top(s).post THEN l ELSE WritePtr(l, NextAddress), col), col)

BlockRepeatPreWhileUntil(s, col) ==
  LET c == Expression(WritePtr(Skip(s), NextAddress), Here(s).n)
      out == BstackBranch(c, QuitAddress, IF Here(s).how = "while" THEN "jz" ELSE "jnz")
  IN  WritePtr(BstackBranch(CompileBlock(out, col), NextAddress, "jmp"), QuitAddress)

BlockRepeatCount(s, col) ==
  LET z == IF Here(s).how = "count"
           THEN BstackBranch(Expression(Skip(s), Here(s).n), QuitAddress, "tjz")
           ELSE Put(Skip(s), "value", Here(s).n, Known, 0)
  IN  IF Here(s).how = "never" THEN SkipBlock(Skip(s), col)
      ELSE WritePtr(BstackBranch(WritePtr(CompileBlock(WritePtr(z, LoopAddress), col), NextAddress),
                                 LoopAddress, "djnz"), QuitAddress)

\* REPEAT count WITH variable, REPEAT variable FROM a TO b {STEP c}
BlockRepeatVar(s, col) ==
  LET a == BstackAddress(Skip(s), LoopAddress)
      terms == [with |-> 1, from |-> 2, step |-> 3][Here(s).how]
      e == [k \in 0 .. terms |-> k * Here(s).n]
      i == Put([a EXCEPT !.out = @ \o [k \in 1 .. terms |->
                            [at |-> a.off + e[k - 1], op |-> "value", to |-> 0, line |-> 0]],
                         !.off = @ + e[terms]],
               "var_init", VarBytes, 3 - terms, 0)
  IN  WritePtr(Put(WritePtr(CompileBlock(WritePtr(i, LoopAddress), col), NextAddress),
                   "var_loop", VarBytes, 0, 0), QuitAddress)

RepeatType(how) == CASE how \in {"plain", "while", "until"} -> "repeat"
                     [] how \in {"count", "always", "never"} -> "repeat_count"
                     [] how = "with" -> "repeat_count_var"
                     [] OTHER -> "repeat_var"
----------------------------------------------------------------------------
\* optimizeBlock: passes from the same source and image position, s0, until
\* one ends where the one before it ended
Construct(p, l) ==
  CASE l.kind \in {"if", "ifnot"} -> IfArm(p, 1, l.col)
    [] l.kind = "case" -> BlockCase(p, l.col)
    [] l.kind = "case_fast" -> BlockCaseFast(p, l.col)
    [] l.kind = "repeat" ->
         CASE l.how = "plain" -> BlockRepeat(p, l.col)
           [] l.how \in {"while", "until"} -> BlockRepeatPreWhileUntil(p, l.col)
           [] l.how \in {"count", "always", "never"} -> BlockRepeatCount(p, l.col)
           [] OTHER -> BlockRepeatVar(p, l.col)
NextPass(s0, r, lastOffset) ==
  IF r.err # "" \/ r.off = lastOffset THEN r
  ELSE IF Top(r).passes = PassBound THEN Fail(r, "endless")
  ELSE OptimizeBlock(s0, r, r.off)
OptimizeBlock(s0, s, lastOffset) ==
  LET p == [Rewind(s, s0) EXCEPT !.next = s0.next, !.nest[Len(s.nest)].passes = @ + 1]
  IN  NextPass(s0, Construct(p, Here(s0)), lastOffset)

\* ci_next_quit: outward over the block stack; r = [j, pops, op, err].  pops is
\* in longs
Outward(s, j, left, pops, quit) ==
  IF j = 0 THEN [j |-> 0, pops |-> pops, op |-> "jmp", err |-> "nqinsn"]
  ELSE LET type == s.nest[j].type
           held == CASE type = "repeat_count" -> 1
                     [] type \in {"repeat_var", "repeat_count_var"} -> 4
                     [] type = "case" -> 2
                     [] type = "case_fast" -> 1
                     [] OTHER -> 0
           loop == type \in {"repeat", "repeat_count", "repeat_var", "repeat_count_var"}
       IN  IF ~ loop THEN Outward(s, j - 1, left, pops + held, quit)
           ELSE IF left > 0 THEN Outward(s, j - 1, left - 1, pops + held, quit)
           ELSE [j |-> j, err |-> "",
                 pops |-> pops + IF quit /\ held = 4 THEN 4 ELSE 0,
                 op |-> IF quit /\ type = "repeat_count" THEN "jnz" ELSE "jmp"]

Leave(s, quit, r) ==
  LET p == CASE r.pops = 0 -> s
             [] r.pops = 1 -> Put(s, "pop", 1, 1, 0)
             [] OTHER -> Put(s, "pop", 1 + RfvarSize(4 * r.pops - 4), r.pops, 0)
  IN  IF r.err # "" THEN Fail(s, r.err)
      ELSE CompileBranch(p, r.op, s.nest[r.j].addr[IF quit THEN QuitAddress ELSE NextAddress])

\* a slip: the levels of NEXT and QUIT are counted from the loop outside the inner one
NextQuitFromOne(s, quit, level) ==
  Leave(s, quit, Outward(s, Len(s.nest), IF level > 0 THEN level - 1 ELSE 0, 0, quit))
NextQuit(s, quit, level) ==
  IF level > 15 THEN Fail(s, "nqlcmb")
  ELSE Leave(s, quit, Outward(s, Len(s.nest), level, 0, quit))

BlockType(l) == CASE l.kind \in {"if", "ifnot"} -> "if"
                  [] l.kind = "repeat" -> RepeatType(l.how)
                  [] OTHER -> l.kind
BlockSize(type) == CASE type = "if" -> IfLimit + 1
                     [] type = "case" -> CaseLimit + 1
                     [] type = "case_fast" -> CaseFastLimit + 7
                     [] OTHER -> 3
Optimized(s) == Pop(OptimizeBlock(s, s, 0))
Statement(s) ==
  LET l == Here(s)
  IN  CASE l.kind \in {"if", "ifnot", "case", "case_fast", "repeat"} ->
             Optimized(Push(s, BlockType(l), BlockSize(BlockType(l))))
        [] l.kind \in {"next", "quit"} -> NextQuit(Skip(s), l.kind = "quit", l.level)
        [] l.kind = "return" -> Put(Skip(s), "return", 1, 0, s.next)
        [] OTHER -> Put(Skip(s), "code", l.n, 0, s.next)

----------------------------------------------------------------------------
Blank == [next |-> 1, off |-> Start, out |-> <<>>, nest |-> <<>>, err |-> ""]

\* compileTopBlock
CompileTopBlock ==
  /\ image = Blank
  /\ image' = [Put(CompileBlock(Blank, 0), "return", 1, 0, Len(lines) + 1)
                 EXCEPT !.next = Len(lines) + 1]
  /\ pc' = IF image'.err = "" THEN Start ELSE -1
  /\ UNCHANGED <<lines, stack, line>>

(* The bytecode interpreter, as far as the compiler counts on it: straight *)
(* code does nothing, a value that is tested is any value.                 *)
Item == CHOOSE x \in ToSet(image.out) : x.at = pc
NextAt(x) == LET j == CHOOSE k \in DOMAIN image.out : image.out[k] = x
             IN  image.out[j + 1].at
Held(n) == SubSeq(stack, 1, Len(stack) - n)
At(op) == /\ \E x \in ToSet(image.out) : x.at = pc
          /\ Item.op = op
Go(a, st) == pc' = a /\ stack' = st
Fixed == UNCHANGED <<lines, image, line>>

Straight ==
  /\ At("code")
  /\ line' = Item.line
  /\ Go(NextAt(Item), stack)
  /\ UNCHANGED <<lines, image>>

PushValue ==
  /\ At("value") \/ At("address")
  /\ Go(NextAt(Item), Append(stack, Item.to))
  /\ Fixed

Branch ==
  /\ \/ At("jmp") /\ Go(Item.to, stack)
     \/ /\ At("jz") \/ At("jnz")
        /\ \/ Go(Item.to, Held(1)) /\ (At("jz") => Last(stack) # Known)
           \/ Go(NextAt(Item), Held(1)) /\ (At("jnz") => Last(stack) # Known)
     \/ /\ At("tjz")
        /\ Go(Item.to, Held(1)) \/ Go(NextAt(Item), Append(Held(1), Known))
     \/ /\ At("djnz")
        /\ Go(Item.to, stack) \/ Go(NextAt(Item), Held(1))
  /\ Fixed

\* a match branches to its alternative below the target, or goes on to the next one
Compare(n) == (Go(Item.to, Held(n)) \/ Go(NextAt(Item), Held(n))) /\ Fixed
CaseValue == At("case_value") /\ Compare(1)
CaseRange == At("case_range") /\ Compare(2)

CaseDone == At("case_done") /\ Len(stack) > 1 /\ Go(stack[Len(stack) - 1], Held(2)) /\ Fixed
FastDone == At("fast_done") /\ Len(stack) > 0 /\ Go(Last(stack), Held(1)) /\ Fixed

\* the table is the item behind bc_case_fast_init; its words count from it
FastDispatch ==
  /\ At("fast_init")
  /\ LET t == CHOOSE x \in ToSet(image.out) : x.at = pc + 7
     IN  \E w \in ToSet(t.to) : Go(t.at + w, Held(1))
  /\ Fixed

VarInit ==
  /\ At("var_init")
  /\ Go(NextAt(Item), stack \o [k \in 1 .. Item.to |-> 0])
  /\ Fixed

VarLoop ==
  /\ At("var_loop")
  /\ \/ Len(stack) > 3 /\ Go(stack[Len(stack) - 3], stack)
     \/ Go(NextAt(Item), Held(4))
  /\ Fixed

PopLongs == At("pop") /\ Go(NextAt(Item), Held(Item.to)) /\ Fixed

Return ==
  /\ At("return")
  /\ line' = Item.line
  /\ Go(-1, <<>>)
  /\ UNCHANGED <<lines, image>>

Next == \/ CompileTopBlock \/ Straight \/ PushValue \/ Branch
        \/ CaseValue \/ CaseRange \/ CaseDone \/ FastDone \/ FastDispatch
        \/ VarInit \/ VarLoop \/ PopLongs \/ Return
=============================================================================
