------------------------- MODULE Preprocessor_proofs ------------------------
(***************************************************************************)
(* Theorems about Preprocessor, for all symbols and all sequences of lines *)
(* of any length, in any number of documents.                              *)
(***************************************************************************)
EXTENDS Preprocessor, SequenceTheorems, TLAPS

Fate == [is : {"kept", "dropped", "none", "included"}, as : Nat]

(* A conditional inside a branch that does not emit is closed for good:    *)
(* none of its own branches will.                                          *)
Shut(ls) ==
  \A i, j \in 1..Len(ls) :
    j < i /\ ~ThisSideEmits(ls[j]) => ls[i].skipThisIfDef

(* What replaceCurrent still holds waits for a directive that opens a      *)
(* branch, and that directive will overwrite it.                           *)
StaleIsHidden == outcome # "failed" /\ replaceCurrent # 0 => ~KeepsCode(levels)

(* Without a mistake the stack is as deep as the lines read say.           *)
DepthIsBalance ==
  /\ ~fatal /\ outcome # "failed" => balance = Len(levels)
  /\ outcome = "done" => ~fatal /\ levels = <<>>

(* The invariant, by what it is about.                                     *)
LineInv ==
  /\ fate \in Seq(Fate) /\ replaceCurrent \in 0..Len(fate) /\ linesRead \in Nat
  /\ EmittedAsWritten /\ StaleIsHidden

StackInv ==
  /\ levels \in Seq(PreProcState) /\ Shut(levels)
  /\ balance \in Int /\ fatal \in BOOLEAN /\ outcome \in {"reading", "done", "failed"}
  /\ DepthIsBalance

SymbolInv ==
  /\ defSymbols \subseteq Symbols /\ preProcSymbols \subseteq Symbols
  /\ preProcTextSymbols \subseteq Symbols /\ SubstitutedIsDefined
  /\ nest \in Int /\ inDoc \in BOOLEAN

PassInv == LineInv /\ StackInv /\ SymbolInv

-----------------------------------------------------------------------------
(* Lemmas about the stack of conditionals.                                 *)

(* A conditional is opened.                                                *)
LEMMA PushShut ==
  ASSUME NEW ls \in Seq(PreProcState), Shut(ls), NEW x \in PreProcState,
         ~KeepsCode(ls) => x.skipThisIfDef
  PROVE  /\ Append(ls, x) \in Seq(PreProcState)
         /\ Len(Append(ls, x)) = Len(ls) + 1
         /\ Shut(Append(ls, x))
<1>1. Append(ls, x) \in Seq(PreProcState) /\ Len(Append(ls, x)) = Len(ls) + 1
  OBVIOUS
<1> SUFFICES ASSUME NEW i \in 1..Len(ls) + 1, NEW j \in 1..Len(ls) + 1, j < i,
                    ~ThisSideEmits(Append(ls, x)[j])
             PROVE  Append(ls, x)[i].skipThisIfDef
  BY <1>1 DEF Shut
<1>2. j \in 1..Len(ls) /\ Append(ls, x)[j] = ls[j]
  OBVIOUS
<1>3. CASE i \in 1..Len(ls)
  BY <1>2, <1>3 DEF Shut
<1>4. CASE i = Len(ls) + 1
  <2>1. Append(ls, x)[i] = x
    BY <1>4
  <2>2. ~ThisSideEmits(ls[Len(ls)]) /\ ls # <<>>
    <3>1. CASE j = Len(ls)
      BY <3>1, <1>2
    <3>2. CASE j < Len(ls)
      BY <3>2, <1>2 DEF Shut, ThisSideEmits
    <3> QED
      BY <3>1, <3>2, <1>2
  <2> QED
    BY <2>1, <2>2 DEF KeepsCode
<1> QED
  BY <1>1, <1>3, <1>4

(* The innermost conditional is taken off.                                 *)
LEMMA PopShut ==
  ASSUME NEW ls \in Seq(PreProcState), Shut(ls), ls # <<>>
  PROVE  /\ SubSeq(ls, 1, Len(ls) - 1) \in Seq(PreProcState)
         /\ Len(SubSeq(ls, 1, Len(ls) - 1)) = Len(ls) - 1
         /\ \A i \in 1..Len(ls) - 1 : SubSeq(ls, 1, Len(ls) - 1)[i] = ls[i]
         /\ Shut(SubSeq(ls, 1, Len(ls) - 1))
<1>1. /\ SubSeq(ls, 1, Len(ls) - 1) \in Seq(PreProcState)
      /\ Len(SubSeq(ls, 1, Len(ls) - 1)) = Len(ls) - 1
      /\ \A i \in 1..Len(ls) - 1 : SubSeq(ls, 1, Len(ls) - 1)[i] = ls[i]
  <2>1. Len(ls) \in Nat \ {0}
    BY EmptySeq
  <2>2. 1 \in Int /\ Len(ls) - 1 \in Int /\ \A i \in 1..Len(ls) - 1 : ls[i] \in PreProcState
    BY <2>1, ElementOfSeq
  <2> DEFINE below == SubSeq(ls, 1, Len(ls) - 1)
             n == Len(ls) - 1
  <2>3. /\ below \in Seq(PreProcState)
        /\ Len(below) = IF 1 <= n THEN n - 1 + 1 ELSE 0
        /\ \A i \in 1..(n - 1 + 1) : below[i] = ls[1 + i - 1]
    BY <2>2, SubSeqProperties
  <2> HIDE DEF below
  <2>4. n \in Nat
    BY <2>1
  <2> HIDE DEF n
  <2>5. Len(below) = n /\ \A i \in 1..n : below[i] = ls[i]
    <3>1. n - 1 + 1 = n /\ \A i \in 1..n : 1 + i - 1 = i
      BY <2>4
    <3>2. Len(below) = IF 1 <= n THEN n ELSE 0
      BY <2>3, <3>1
    <3> QED
      BY <2>3, <2>4, <3>1, <3>2
  <2> QED
    BY <2>3, <2>5 DEF below, n
<1> QED
  BY <1>1 DEF Shut

(* The innermost conditional is replaced, and stays closed if it was.      *)
LEMMA ReplaceShut ==
  ASSUME NEW ls \in Seq(PreProcState), Shut(ls), ls # <<>>, NEW x \in PreProcState,
         ls[Len(ls)].skipThisIfDef => x.skipThisIfDef
  PROVE  LET new == Append(SubSeq(ls, 1, Len(ls) - 1), x)
         IN new \in Seq(PreProcState) /\ Len(new) = Len(ls) /\ Shut(new)
<1> DEFINE below == SubSeq(ls, 1, Len(ls) - 1)
<1>1. /\ below \in Seq(PreProcState) /\ Len(below) = Len(ls) - 1
      /\ \A i \in 1..Len(ls) - 1 : below[i] = ls[i]
      /\ Shut(below)
  BY PopShut
<1>2. ~KeepsCode(below) => x.skipThisIfDef
  <2> SUFFICES ASSUME ~KeepsCode(below) PROVE ls[Len(ls)].skipThisIfDef
    OBVIOUS
  <2>1. below # <<>> /\ ~ThisSideEmits(below[Len(below)])
    BY DEF KeepsCode
  <2>2. Len(ls) - 1 \in 1..Len(ls) /\ below[Len(below)] = ls[Len(ls) - 1]
    BY <1>1, <2>1
  <2> QED
    BY <2>1, <2>2 DEF Shut
<1> HIDE DEF below
<1>3. /\ Append(below, x) \in Seq(PreProcState) /\ Len(Append(below, x)) = Len(below) + 1
      /\ Shut(Append(below, x))
  BY <1>1, <1>2, PushShut
<1> QED
  BY <1>1, <1>3 DEF below

-----------------------------------------------------------------------------
(* Lemmas about the lines.                                                 *)

(* One more line is behind, and its fate is one.                           *)
LEMMA LineTyped ==
  ASSUME LineInv, NEW f \in Fate, Line(f)
  PROVE  /\ fate' \in Seq(Fate) /\ Len(fate') = Len(fate) + 1
         /\ \A n \in 1..Len(fate) : fate'[n] = fate[n]
         /\ fate'[Len(fate) + 1] = f
         /\ linesRead' \in Nat
<1>1. fate \in Seq(Fate) /\ linesRead \in Nat
  BY DEF LineInv
<1> QED
  BY <1>1 DEF Line

(* What EmitLine does, whatever the line is: the new fate is typed and     *)
(* text goes out as written, if what replaceCurrent held was either hidden *)
(* or belongs to a directive; and what it holds now is hidden.             *)
LEMMA EmitLineFacts ==
  ASSUME LineInv,
         NEW ls, NEW rc \in 0..Len(fate) + 1, NEW skip \in BOOLEAN, NEW force \in BOOLEAN,
         NEW is \in {"text", "none", "included"},
         EmitLine(ls, rc, skip, force, is),
         is = "text" => ~force /\ (rc # 0 => ~KeepsCode(ls)),
         skip /\ rc # 0 => ~KeepsCode(ls)
  PROVE  /\ fate' \in Seq(Fate) /\ replaceCurrent' \in 0..Len(fate') /\ linesRead' \in Nat
         /\ EmittedAsWritten'
         /\ replaceCurrent' # 0 => ~KeepsCode(ls)
<1> DEFINE out == ~skip /\ (KeepsCode(ls) \/ force)
           f == IF is # "text" THEN Became(is)
                ELSE IF out THEN Kept(IF rc = 0 THEN This ELSE rc)
                ELSE Became("dropped")
<1>1. Line(f) /\ replaceCurrent' = IF out THEN 0 ELSE rc
  BY DEF EmitLine
<1>2. Len(fate) \in Nat
  BY DEF LineInv
<1>3. f \in Fate
  BY <1>2, SMT DEF Fate, Kept, Became, This
<1>4. f.is = "kept" => f.as = Len(fate) + 1
  BY <1>2, SMT DEF Kept, Became, This
<1> HIDE DEF f
<1>5. /\ fate' \in Seq(Fate) /\ Len(fate') = Len(fate) + 1
      /\ \A n \in 1..Len(fate) : fate'[n] = fate[n]
      /\ fate'[Len(fate) + 1] = f
      /\ linesRead' \in Nat
  BY <1>1, <1>3, LineTyped
<1>0. EmittedAsWritten
  BY DEF LineInv
<1>6. EmittedAsWritten'
  <2> SUFFICES ASSUME NEW n \in 1..Len(fate) + 1, fate'[n].is = "kept"
               PROVE  fate'[n].as = n
    BY <1>5 DEF EmittedAsWritten
  <2>1. CASE n \in 1..Len(fate)
    BY <2>1, <1>0, <1>5 DEF EmittedAsWritten
  <2>2. CASE n = Len(fate) + 1
    BY <2>2, <1>4, <1>5
  <2> QED
    BY <2>1, <2>2, <1>2
<1> QED
  BY <1>1, <1>2, <1>5, <1>6

(* A line that leaves the conditionals alone keeps LineInv and StackInv.   *)
LEMMA QuietLine ==
  ASSUME LineInv, StackInv, outcome = "reading",
         NEW rc \in {replaceCurrent, This}, NEW skip \in BOOLEAN,
         NEW is \in {"text", "none", "included"},
         EmitLine(levels, rc, skip, FALSE, is),
         is = "text" \/ skip => rc = replaceCurrent,
         UNCHANGED <<levels, balance, outcome>>,
         fatal' = fatal \/ fatal' = TRUE
  PROVE  LineInv' /\ StackInv'
<1>1. rc \in 0..Len(fate) + 1
  BY DEF LineInv, This
<1>2. replaceCurrent # 0 => ~KeepsCode(levels)
  BY DEF LineInv, StaleIsHidden
<1>3. /\ fate' \in Seq(Fate) /\ replaceCurrent' \in 0..Len(fate') /\ linesRead' \in Nat
      /\ EmittedAsWritten'
      /\ replaceCurrent' # 0 => ~KeepsCode(levels)
  BY <1>1, <1>2, EmitLineFacts
<1>4. LineInv'
  BY <1>3 DEF LineInv, StaleIsHidden
<1> QED
  BY <1>4 DEF StackInv, DepthIsBalance

(* A directive about the conditionals keeps LineInv.                       *)
LEMMA ConditionalLine ==
  ASSUME LineInv, NEW force \in BOOLEAN, EmitLine(levels', This, FALSE, force, "none")
  PROVE  LineInv'
<1>1. This \in 0..Len(fate) + 1
  BY DEF LineInv, This
<1>2. /\ fate' \in Seq(Fate) /\ replaceCurrent' \in 0..Len(fate') /\ linesRead' \in Nat
      /\ EmittedAsWritten'
      /\ replaceCurrent' # 0 => ~KeepsCode(levels')
  BY <1>1, EmitLineFacts
<1> QED
  BY <1>2 DEF LineInv, StaleIsHidden

-----------------------------------------------------------------------------
(* The invariant.                                                          *)

LEMMA InitPassInv == Init => PassInv
<1> SUFFICES ASSUME Init PROVE PassInv
  OBVIOUS
<1>1. LineInv
  BY DEF Init, LineInv, EmittedAsWritten, StaleIsHidden
<1>2. StackInv
  <2>1. levels \in Seq(PreProcState) /\ Shut(levels) /\ Len(levels) = 0
    BY EmptySeq DEF Init, Shut
  <2>2. balance = 0 /\ balance \in Int /\ outcome = "reading"
    BY DEF Init
  <2>3. fatal \in BOOLEAN
    BY Zenon DEF Init
  <2>4. DepthIsBalance
    BY <2>1, <2>2 DEF DepthIsBalance
  <2> QED
    BY <2>1, <2>2, <2>3, <2>4 DEF StackInv
<1>3. SymbolInv
  <2>1. /\ defSymbols \subseteq Symbols /\ preProcSymbols \subseteq Symbols
        /\ preProcTextSymbols \subseteq Symbols /\ SubstitutedIsDefined
    BY SymbolAssumption, Zenon DEF Init, SubstitutedIsDefined
  <2>2. nest \in Int
    BY DEF Init
  <2>3. inDoc \in BOOLEAN
    BY Zenon DEF Init
  <2> QED
    BY <2>1, <2>2, <2>3 DEF SymbolInv
<1> QED
  BY <1>1, <1>2, <1>3 DEF PassInv

(* Symbols and comments.                                                   *)
LEMMA NextSymbolInv == PassInv /\ [Next]_vars => SymbolInv'
<1> SUFFICES ASSUME PassInv, [Next]_vars PROVE SymbolInv'
  OBVIOUS
<1> USE DEF PassInv, SymbolInv, SubstitutedIsDefined
<1>1. ASSUME UNCHANGED <<defSymbols, table, comment>> PROVE SymbolInv'
  BY <1>1 DEF table, comment
<1>2. CASE Text \/ Warn \/ Malformed \/ Unknown \/ Error
  BY <1>1, <1>2 DEF Text, Warn, Malformed, Unknown, Error, Directive, comment, table
<1>9. CASE Include \/ IncludeThrows
  <2>1. PICK new \in SUBSET (Symbols \ Undefs) : defSymbols' = defSymbols \cup new
    BY <1>9 DEF Include, IncludeThrows, ExportsOfIncluded
  <2>2. UNCHANGED <<table, comment>>
    BY <1>9 DEF Include, IncludeThrows, Directive
  <2> QED
    BY <2>1, <2>2 DEF table, comment
<1>3. CASE Comment
  <2>1. ASSUME NEW d \in -MaxNest..MaxNest, Quote(d) \/ InBlock(d) PROVE SymbolInv'
    <3>1. nest' \in Int
      <4>1. d \in Int
        BY BoundAssumption
      <4>2. nest' = nest \/ nest' = nest + d
        BY <2>1 DEF Quote, InBlock, CountBraces
      <4> QED
        BY <4>1, <4>2
    <3>2. UNCHANGED <<defSymbols, table, inDoc>>
      BY <2>1 DEF Quote, InBlock
    <3> QED
      BY <3>1, <3>2 DEF table
  <2>2. ASSUME NEW d \in -MaxNest..MaxNest, NEW text \in BOOLEAN, OpenBlock(d, text) PROVE SymbolInv'
    BY <2>2, BoundAssumption DEF OpenBlock, table
  <2>3. ASSUME NEW closes \in BOOLEAN, InDocument(closes) \/ OpenDocument(closes) PROVE SymbolInv'
    BY <2>3 DEF InDocument, OpenDocument, table
  <2>4. 0 \in -MaxNest..MaxNest
    BY BoundAssumption
  <2> QED
    BY <1>3, <2>1, <2>2, <2>3, <2>4 DEF Comment
<1>4. CASE Conditional
  <2>1. ASSUME NEW s \in Symbols \cup {NoSymbol}, NEW wanted \in BOOLEAN, If(s, wanted) \/ ElseIf(s, wanted)
        PROVE  SymbolInv'
    BY <2>1, <1>1 DEF If, ElseIf
  <2>2. CASE Else \/ Endif
    BY <2>2, <1>1 DEF Else, Endif
  <2> QED
    BY <1>4, <2>1, <2>2 DEF Conditional
<1>5. ASSUME NEW s \in Symbols, Define(s) \/ Undef(s) \/ ExportDef(s) PROVE SymbolInv'
  <2>1. CASE Define(s)
    BY <2>1 DEF Define, DefineSymbol, Directive, comment, table
  <2>2. CASE Undef(s)
    BY <2>2 DEF Undef, UndefineSymbol, comment, table
  <2>3. CASE ExportDef(s)
    BY <2>3 DEF ExportDef, Directive, comment, table
  <2> QED
    BY <1>5, <2>1, <2>2, <2>3
<1>6. CASE \E badVersion \in BOOLEAN : EndOfFile(badVersion)
  BY <1>1, <1>6 DEF EndOfFile
<1>7. CASE NextDocument
  <2>1. /\ defSymbols' \subseteq Symbols /\ preProcSymbols' \subseteq Symbols
        /\ preProcTextSymbols' \subseteq Symbols /\ SubstitutedIsDefined'
    BY <1>7, SymbolAssumption, Zenon DEF NextDocument
  <2>2. nest' \in Int
    BY <1>7 DEF NextDocument
  <2>3. inDoc' \in BOOLEAN
    BY <1>7, Zenon DEF NextDocument
  <2> QED
    BY <2>1, <2>2, <2>3
<1>8. CASE UNCHANGED vars
  BY <1>1, <1>8 DEF vars
<1> QED
  BY <1>2, <1>3, <1>4, <1>5, <1>6, <1>7, <1>8, <1>9 DEF Next

(* The record of a conditional stays one.                                  *)
LEMMA LevelTyped ==
  ASSUME NEW l \in PreProcState, NEW s, NEW wanted
  PROVE  /\ SetIfEmits(l, s, wanted) \in PreProcState
         /\ SetIfEmits(l, s, wanted).skipThisIfDef = l.skipThisIfDef
<1>1. CASE s = NoSymbol
  BY <1>1 DEF SetIfEmits
<1>2. CASE s # NoSymbol
  <2> DEFINE holds == (s \in preProcSymbols) = wanted
  <2>1. holds \in BOOLEAN
    BY Zenon
  <2>2. SetIfEmits(l, s, wanted) = [l EXCEPT !.ifSideEmits = holds, !.elseSideEmits = ~holds]
    BY <1>2 DEF SetIfEmits
  <2> HIDE DEF holds
  <2> QED
    BY <2>1, <2>2 DEF PreProcState
<1> QED
  BY <1>1, <1>2

(* A line with a directive about the conditionals.                         *)
LEMMA ConditionalInv == PassInv /\ Conditional => LineInv' /\ StackInv'
<1> SUFFICES ASSUME PassInv, Conditional PROVE LineInv' /\ StackInv'
  OBVIOUS
<1> USE DEF PassInv
<1>t. levels \in Seq(PreProcState) /\ Shut(levels) /\ Len(levels) \in Nat
  BY LenProperties DEF StackInv
<1>k. KeepsCode(levels) \in BOOLEAN
  BY Zenon DEF KeepsCode, ThisSideEmits
<1>p. levels # <<>> => Top \in PreProcState
  <2> HAVE levels # <<>>
  <2>1. Len(levels) \in 1..Len(levels)
    BY <1>t, EmptySeq
  <2> QED
    BY <2>1, <1>t, ElementOfSeq DEF Top
<1>1. ASSUME NEW s \in Symbols \cup {NoSymbol}, NEW wanted \in BOOLEAN, If(s, wanted)
      PROVE  LineInv' /\ StackInv'
  <2> DEFINE x == SetIfEmits(EnterIf(~KeepsCode(levels)), s, wanted)
  <2>1. EnterIf(~KeepsCode(levels)) \in PreProcState
        /\ EnterIf(~KeepsCode(levels)).skipThisIfDef = ~KeepsCode(levels)
    BY <1>k DEF EnterIf, PreProcState
  <2>2. x \in PreProcState /\ x.skipThisIfDef = ~KeepsCode(levels)
    BY <2>1, LevelTyped
  <2> HIDE DEF x
  <2>3. levels' = Append(levels, x) /\ balance' = balance + 1 /\ outcome' = outcome
        /\ outcome = "reading" /\ fatal' = (fatal \/ s = NoSymbol)
    BY <1>1 DEF If, Reads, x
  <2>4. levels' \in Seq(PreProcState) /\ Len(levels') = Len(levels) + 1 /\ Shut(levels')
    BY <1>t, <2>2, <2>3, PushShut
  <2>5. StackInv'
    BY <2>3, <2>4, <1>t DEF StackInv, DepthIsBalance
  <2> QED
    BY <1>1, <2>5, ConditionalLine DEF If
<1>2. ASSUME NEW s \in Symbols \cup {NoSymbol}, NEW wanted \in BOOLEAN, ElseIf(s, wanted)
      PROVE  LineInv' /\ StackInv'
  <2>1. LineInv'
    BY <1>2, ConditionalLine DEF ElseIf
  <2>2. CASE levels = <<>>
    <3>1. UNCHANGED <<levels, outcome>> /\ outcome = "reading" /\ fatal' = TRUE
      BY <1>2, <2>2 DEF ElseIf, ReportFatal, Reads
    <3>2. balance' \in Int
      BY <1>2 DEF ElseIf, StackInv
    <3> QED
      BY <2>1, <3>1, <3>2 DEF StackInv, DepthIsBalance
  <2>3. CASE levels # <<>>
    <3> DEFINE l == [Top EXCEPT !.inIfSide = TRUE, !.skipThisIfDef = @ \/ KeepsCode(levels)]
               x == SetIfEmits(l, s, wanted)
    <3>1. l \in PreProcState /\ (Top.skipThisIfDef => l.skipThisIfDef)
      BY <1>p, <1>k, <2>3 DEF PreProcState
    <3> HIDE DEF l
    <3>2. x \in PreProcState /\ (Top.skipThisIfDef => x.skipThisIfDef)
      BY <3>1, LevelTyped
    <3> HIDE DEF x
    <3>3. levels' = Append(SubSeq(levels, 1, Len(levels) - 1), x) /\ UNCHANGED <<balance, outcome>>
          /\ outcome = "reading" /\ fatal' = (fatal \/ s = NoSymbol)
      BY <1>2, <2>3 DEF ElseIf, Reads, Below, x, l
    <3>4. levels' \in Seq(PreProcState) /\ Len(levels') = Len(levels) /\ Shut(levels')
      BY <1>t, <2>3, <3>2, <3>3, ReplaceShut DEF Top
    <3> QED
      BY <2>1, <3>3, <3>4 DEF StackInv, DepthIsBalance
  <2> QED
    BY <2>1, <2>2, <2>3
<1>3. CASE Else
  <2>1. LineInv'
    BY <1>3, ConditionalLine DEF Else
  <2>2. CASE levels = <<>>
    <3>1. UNCHANGED <<levels, outcome>> /\ outcome = "reading" /\ fatal' = TRUE
      BY <1>3, <2>2 DEF Else, ReportFatal, Reads
    <3>2. balance' \in Int
      BY <1>3 DEF Else, StackInv
    <3> QED
      BY <2>1, <3>1, <3>2 DEF StackInv, DepthIsBalance
  <2>3. CASE levels # <<>>
    <3> DEFINE x == [Top EXCEPT !.inIfSide = FALSE, !.foundElse = TRUE]
    <3>1. x \in PreProcState /\ x.skipThisIfDef = Top.skipThisIfDef
      BY <1>p, <2>3 DEF PreProcState
    <3> HIDE DEF x
    <3>2. levels' = Append(SubSeq(levels, 1, Len(levels) - 1), x) /\ UNCHANGED <<balance, outcome, fatal>>
          /\ outcome = "reading"
      BY <1>3, <2>3 DEF Else, Reads, Below, x
    <3>3. levels' \in Seq(PreProcState) /\ Len(levels') = Len(levels) /\ Shut(levels')
      BY <1>t, <2>3, <3>1, <3>2, ReplaceShut DEF Top
    <3> QED
      BY <2>1, <3>2, <3>3 DEF StackInv, DepthIsBalance
  <2> QED
    BY <2>1, <2>2, <2>3
<1>4. CASE Endif
  <2>1. LineInv'
    BY <1>4, ConditionalLine DEF Endif
  <2>2. CASE levels = <<>>
    <3>1. UNCHANGED <<levels, outcome>> /\ outcome = "reading" /\ fatal' = TRUE
      BY <1>4, <2>2 DEF Endif, ReportFatal, Reads
    <3>2. balance' \in Int
      BY <1>4 DEF Endif, StackInv
    <3> QED
      BY <2>1, <3>1, <3>2 DEF StackInv, DepthIsBalance
  <2>3. CASE levels # <<>>
    <3>1. levels' = SubSeq(levels, 1, Len(levels) - 1) /\ balance' = balance - 1
          /\ UNCHANGED <<outcome, fatal>> /\ outcome = "reading"
      BY <1>4, <2>3 DEF Endif, Reads, Below
    <3>2. levels' \in Seq(PreProcState) /\ Len(levels') = Len(levels) - 1 /\ Shut(levels')
      BY <1>t, <2>3, <3>1, PopShut
    <3> QED
      <4>0. balance \in Int /\ (~fatal => balance = Len(levels))
        BY <3>1 DEF StackInv, DepthIsBalance
      <4>1. balance' \in Int /\ (~fatal' => balance' = Len(levels'))
        <5>1. balance' = balance - 1 /\ Len(levels') = Len(levels) - 1 /\ (fatal' <=> fatal)
          BY <3>1, <3>2, <1>t
        <5> QED
          BY <4>0, <5>1
      <4>2. outcome' = "reading"
        BY <3>1
      <4>3. fatal' \in BOOLEAN
        BY <3>1 DEF StackInv
      <4> QED
        BY <2>1, <3>2, <4>1, <4>2, <4>3 DEF StackInv, DepthIsBalance
  <2> QED
    BY <2>1, <2>2, <2>3
<1> QED
  BY <1>1, <1>2, <1>3, <1>4 DEF Conditional

(* All lines, the end of a document and the next one.                      *)
LEMMA NextLineStackInv == PassInv /\ [Next]_vars => LineInv' /\ StackInv'
<1> SUFFICES ASSUME PassInv, [Next]_vars PROVE LineInv' /\ StackInv'
  OBVIOUS
<1> USE DEF PassInv
<1>f. fatal \in BOOLEAN
  BY DEF StackInv
<1>1. CASE Conditional
  BY <1>1, ConditionalInv
<1>2. CASE Text \/ Unknown
  <2>1. PICK skip \in BOOLEAN, is \in {"text", "none"} :
          EmitLine(levels, replaceCurrent, skip, FALSE, is)
    BY <1>2 DEF Text, Unknown
  <2> QED
    BY <1>2, <2>1, QuietLine DEF Text, Unknown, Reads, ReportFatal
<1>3. CASE Comment
  <2>1. PICK skip \in BOOLEAN, is \in {"text", "none"} :
          EmitLine(levels, replaceCurrent, skip, FALSE, is)
    <3>1. ASSUME NEW d \in -MaxNest..MaxNest, NEW text \in BOOLEAN, OpenBlock(d, text)
          PROVE  \E skip \in BOOLEAN, is \in {"text", "none"} :
                   EmitLine(levels, replaceCurrent, skip, FALSE, is)
      BY <3>1 DEF OpenBlock
    <3>2. 0 \in -MaxNest..MaxNest
      BY BoundAssumption
    <3> QED
      BY <1>3, <3>1, <3>2 DEF Comment, Quote, InBlock, InDocument, OpenDocument
  <2>2. outcome = "reading" /\ UNCHANGED <<levels, balance, outcome, fatal>>
    BY <1>3 DEF Comment, Quote, InBlock, InDocument, OpenDocument, OpenBlock, Reads
  <2> QED
    BY <2>1, <2>2, QuietLine
<1>4. ASSUME NEW is \in {"none", "included"}, Directive(is), outcome = "reading", outcome' = outcome,
             fatal' = fatal \/ fatal' = TRUE
      PROVE  LineInv' /\ StackInv'
  BY <1>4, QuietLine DEF Directive
<1>5. CASE Warn \/ Include \/ Malformed
  BY <1>4, <1>5 DEF Warn, Include, Malformed, Reads, ReportFatal
<1>6. ASSUME NEW s \in Symbols, Define(s) \/ Undef(s) \/ ExportDef(s)
      PROVE  LineInv' /\ StackInv'
  <2>1. CASE Define(s) \/ ExportDef(s)
    BY <1>4, <2>1 DEF Define, ExportDef, Reads
  <2>2. CASE Undef(s)
    <3>1. PICK rc \in {replaceCurrent, This} : EmitLine(levels, rc, FALSE, FALSE, "none")
      BY <2>2 DEF Undef
    <3> QED
      BY <2>2, <3>1, QuietLine DEF Undef, Reads
  <2> QED
    BY <1>6, <2>1, <2>2
<1>7. CASE Error \/ IncludeThrows
  <2>1. CASE outcome' = "failed"
    <3>1. Line(Became("none")) /\ replaceCurrent' = This /\ UNCHANGED <<levels, balance>>
          /\ (fatal' = fatal \/ fatal' = TRUE)
      BY <1>7, <2>1 DEF Error, IncludeThrows, Reads, ReportFatal
    <3>2. Became("none") \in Fate /\ Became("none").is # "kept"
      BY DEF Became, Fate
    <3>3. /\ fate' \in Seq(Fate) /\ Len(fate') = Len(fate) + 1
          /\ \A n \in 1..Len(fate) : fate'[n] = fate[n]
          /\ fate'[Len(fate) + 1] = Became("none")
          /\ linesRead' \in Nat
      BY <3>1, <3>2, LineTyped
    <3>4. EmittedAsWritten' /\ replaceCurrent' \in 0..Len(fate')
      BY <3>1, <3>2, <3>3 DEF LineInv, EmittedAsWritten, This
    <3> QED
      BY <2>1, <3>1, <3>3, <3>4 DEF LineInv, StackInv, StaleIsHidden, DepthIsBalance
  <2>2. CASE outcome' # "failed"
    BY <1>4, <1>7, <2>2 DEF Error, IncludeThrows, Reads
  <2> QED
    BY <2>1, <2>2
<1>8. ASSUME NEW badVersion \in BOOLEAN, EndOfFile(badVersion) PROVE LineInv' /\ StackInv'
  <2>1. UNCHANGED <<levels, balance, fate, replaceCurrent, linesRead>> /\ outcome = "reading"
    BY <1>8 DEF EndOfFile
  <2>2. fatal' \in BOOLEAN /\ (~fatal' => ~fatal /\ levels = <<>>)
    BY <1>8, Zenon DEF EndOfFile
  <2>3. outcome' \in {"done", "failed"} /\ (outcome' = "done" => ~fatal')
    BY <1>8 DEF EndOfFile
  <2>4. LineInv'
    <3>1. fate' \in Seq(Fate) /\ replaceCurrent' \in 0..Len(fate') /\ linesRead' \in Nat /\ EmittedAsWritten'
      BY <2>1 DEF LineInv, EmittedAsWritten
    <3>2. StaleIsHidden'
      BY <2>1 DEF LineInv, StaleIsHidden
    <3> QED
      BY <3>1, <3>2 DEF LineInv
  <2>5. DepthIsBalance'
    BY <2>1, <2>2, <2>3 DEF StackInv, DepthIsBalance
  <2> QED
    BY <2>1, <2>2, <2>3, <2>4, <2>5 DEF StackInv
<1>9. CASE NextDocument
  <2>1. levels' = <<>> /\ balance' = 0 /\ replaceCurrent' = 0 /\ fate' = <<>> /\ linesRead' = linesRead
        /\ outcome' = "reading"
    BY <1>9 DEF NextDocument
  <2>2. levels' \in Seq(PreProcState) /\ Len(levels') = 0 /\ fate' \in Seq(Fate) /\ Len(fate') = 0
    BY <2>1, EmptySeq
  <2>3. fatal' \in BOOLEAN
    BY <1>9, Zenon DEF NextDocument
  <2>4. LineInv'
    BY <2>1, <2>2 DEF LineInv, EmittedAsWritten, StaleIsHidden
  <2>5. Shut(levels') /\ DepthIsBalance'
    BY <2>1, <2>2 DEF Shut, DepthIsBalance
  <2> QED
    BY <2>1, <2>2, <2>3, <2>4, <2>5 DEF StackInv
<1>10. CASE UNCHANGED vars
  <2>1. UNCHANGED <<levels, balance, fate, replaceCurrent, linesRead, fatal, outcome>>
    BY <1>10 DEF vars
  <2> QED
    BY <2>1 DEF LineInv, StackInv, EmittedAsWritten, StaleIsHidden, DepthIsBalance
<1> QED
  BY <1>1, <1>2, <1>3, <1>5, <1>6, <1>7, <1>8, <1>9, <1>10 DEF Next

(* The invariant of the pass.                                              *)
THEOREM PassInvariant == Spec => []PassInv
<1>1. PassInv /\ [Next]_vars => PassInv'
  BY NextSymbolInv, NextLineStackInv DEF PassInv
<1> QED
  BY InitPassInv, <1>1, PTL DEF Spec

-----------------------------------------------------------------------------
(* What follows from it.                                                   *)

(* Every variable keeps its type; replaceCurrent never names a line that   *)
(* was not read.                                                           *)
THEOREM TypeCorrect == Spec => []TypeOK
<1>1. PassInv => TypeOK
  BY DEF PassInv, LineInv, StackInv, SymbolInv, TypeOK, Fate
<1> QED
  BY PassInvariant, <1>1, PTL

(* It is enough to look at the innermost conditional: a branch that emits  *)
(* stands only in branches that do.                                        *)
THEOREM InnermostDecides == Spec => []EmittingIsNested
<1>1. PassInv => EmittingIsNested
  BY DEF PassInv, StackInv, Shut, EmittingIsNested, ThisSideEmits
<1> QED
  BY PassInvariant, <1>1, PTL

(* No line of text goes out as the comment of an earlier directive.        *)
THEOREM TextAsWritten == Spec => []EmittedAsWritten
<1>1. PassInv => EmittedAsWritten
  BY DEF PassInv, LineInv
<1> QED
  BY PassInvariant, <1>1, PTL

(* The two symbol tables stay in step.                                     *)
THEOREM TablesInStep == Spec => []SubstitutedIsDefined
<1>1. PassInv => SubstitutedIsDefined
  BY DEF PassInv, SymbolInv
<1> QED
  BY PassInvariant, <1>1, PTL

(* What is delivered had every conditional closed, and no #endif too many. *)
THEOREM OnlyBalancedIsDone == Spec => []DoneIsBalanced
<1>1. PassInv => DoneIsBalanced
  <2> SUFFICES ASSUME PassInv, outcome = "done" PROVE balance = 0
    BY DEF DoneIsBalanced
  <2> QED
    BY EmptySeq DEF PassInv, StackInv, DepthIsBalance
<1> QED
  BY PassInvariant, <1>1, PTL

-----------------------------------------------------------------------------
(* The pass implements ConditionalText, for all symbols and all sequences  *)
(* of lines.  The two sides of a conditional exclude each other until a    *)
(* mistake is found (SidesInv); the stack is mapped level by level.        *)

(* One side of a conditional emits, and the side that is read now is the   *)
(* if side until #else.                                                    *)
Sided(l) ==
  /\ l.ifSideEmits => ~l.elseSideEmits
  /\ ~l.ifSideEmits => l.elseSideEmits
  /\ l.foundElse \/ l.inIfSide

AllSided(ls) == \A i \in 1..Len(ls) : Sided(ls[i])

SidesInv == ~fatal => AllSided(levels)

LevelView(l) == [state |-> State(l), sawElse |-> l.foundElse]

AbstractLevel == [state : {"seeking", "taken", "closed"}, sawElse : BOOLEAN]

-----------------------------------------------------------------------------
(* The view of the stack.                                                  *)

LEMMA LevelViewTyped ==
  ASSUME NEW l \in PreProcState
  PROVE  LevelView(l) \in AbstractLevel
<1>1. State(l) \in {"seeking", "taken", "closed"}
  BY DEF State
<1>2. l.foundElse \in BOOLEAN
  BY DEF PreProcState
<1> QED
  BY <1>1, <1>2 DEF LevelView, AbstractLevel

(* A stack is seen level by level.                                         *)
LEMMA ViewTyped ==
  ASSUME NEW ls \in Seq(PreProcState)
  PROVE  /\ View(ls) \in Seq(AbstractLevel)
         /\ Len(View(ls)) = Len(ls)
         /\ \A i \in 1..Len(ls) : View(ls)[i] = LevelView(ls[i])
<1>1. Len(ls) \in Nat /\ \A i \in 1..Len(ls) : ls[i] \in PreProcState
  BY LenProperties, ElementOfSeq
<1>2. View(ls) = [i \in 1..Len(ls) |-> LevelView(ls[i])]
  BY DEF View, LevelView
<1>3. \A i \in 1..Len(ls) : LevelView(ls[i]) \in AbstractLevel
  BY <1>1, LevelViewTyped
<1>4. View(ls) \in [1..Len(ls) -> AbstractLevel]
  BY <1>2, <1>3
<1> QED
  BY <1>1, <1>2, <1>4

(* The view of a longer stack.                                             *)
LEMMA ViewAppend ==
  ASSUME NEW ls \in Seq(PreProcState), NEW x \in PreProcState
  PROVE  View(Append(ls, x)) = Append(View(ls), LevelView(x))
<1> DEFINE more == Append(ls, x)
<1>1. Len(ls) \in Nat
  BY LenProperties
<1>2. /\ more \in Seq(PreProcState) /\ Len(more) = Len(ls) + 1
      /\ \A i \in 1..Len(ls) : more[i] = ls[i]
      /\ more[Len(ls) + 1] = x
  OBVIOUS
<1> HIDE DEF more
<1>3. /\ View(more) \in Seq(AbstractLevel) /\ Len(View(more)) = Len(ls) + 1
      /\ \A i \in 1..Len(ls) + 1 : View(more)[i] = LevelView(more[i])
  BY <1>2, ViewTyped
<1>4. /\ View(ls) \in Seq(AbstractLevel) /\ Len(View(ls)) = Len(ls)
      /\ \A i \in 1..Len(ls) : View(ls)[i] = LevelView(ls[i])
  BY ViewTyped
<1> DEFINE longer == Append(View(ls), LevelView(x))
<1>5. /\ longer \in Seq(AbstractLevel) /\ Len(longer) = Len(ls) + 1
      /\ \A i \in 1..Len(ls) : longer[i] = View(ls)[i]
      /\ longer[Len(ls) + 1] = LevelView(x)
  BY <1>4, LevelViewTyped
<1> HIDE DEF longer
<1>6. \A i \in 1..Len(ls) + 1 : View(more)[i] = longer[i]
  <2> SUFFICES ASSUME NEW i \in 1..Len(ls) + 1 PROVE View(more)[i] = longer[i]
    OBVIOUS
  <2>1. CASE i \in 1..Len(ls)
    <3>1. View(more)[i] = LevelView(ls[i])
      BY <2>1, <1>2, <1>3
    <3> QED
      BY <3>1, <2>1, <1>4, <1>5
  <2>2. CASE i = Len(ls) + 1
    BY <2>2, <1>2, <1>3, <1>5
  <2> QED
    BY <2>1, <2>2, <1>1
<1> QED
  BY <1>3, <1>5, <1>6, SeqEqual DEF more, longer

(* The view of the stack without its innermost level.                      *)
LEMMA ViewBelow ==
  ASSUME NEW ls \in Seq(PreProcState), Shut(ls), ls # <<>>
  PROVE  /\ View(ls) # <<>> /\ Len(View(ls)) = Len(ls)
         /\ View(ls)[Len(ls)] = LevelView(ls[Len(ls)])
         /\ View(SubSeq(ls, 1, Len(ls) - 1)) = SubSeq(View(ls), 1, Len(ls) - 1)
<1> DEFINE n == Len(ls) - 1
           below == SubSeq(ls, 1, n)
           cut == SubSeq(View(ls), 1, n)
<1>1. Len(ls) \in Nat \ {0}
  BY EmptySeq
<1>2. below \in Seq(PreProcState) /\ Len(below) = n /\ \A i \in 1..n : below[i] = ls[i]
  BY PopShut
<1>3. /\ View(ls) \in Seq(AbstractLevel) /\ Len(View(ls)) = Len(ls)
      /\ \A i \in 1..Len(ls) : View(ls)[i] = LevelView(ls[i])
  BY ViewTyped
<1>4. View(below) \in Seq(AbstractLevel) /\ Len(View(below)) = n
      /\ \A i \in 1..n : View(below)[i] = LevelView(below[i])
  BY <1>2, ViewTyped
<1>5. n \in Nat /\ n \in Int /\ n - 1 + 1 = n /\ \A i \in 1..n : i \in 1..Len(ls) /\ 1 + i - 1 = i
  BY <1>1
<1>6. \A i \in 1..n : View(ls)[i] \in AbstractLevel
  BY <1>3, <1>5, ElementOfSeq
<1> HIDE DEF n, below
<1>7. /\ cut \in Seq(AbstractLevel)
      /\ Len(cut) = IF 1 <= n THEN n - 1 + 1 ELSE 0
      /\ \A i \in 1..(n - 1 + 1) : cut[i] = View(ls)[1 + i - 1]
  BY <1>5, <1>6, SubSeqProperties
<1> HIDE DEF cut
<1>8. Len(cut) = n
  <2>1. Len(cut) = IF 1 <= n THEN n ELSE 0
    BY <1>5, <1>7
  <2> QED
    BY <2>1, <1>5
<1>9. \A i \in 1..n : View(below)[i] = cut[i]
  BY <1>2, <1>3, <1>4, <1>5, <1>7
<1>10. View(below) = cut
  BY <1>4, <1>7, <1>8, <1>9, SeqEqual
<1>11. View(ls)[Len(ls)] = LevelView(ls[Len(ls)]) /\ View(ls) # <<>>
  BY <1>1, <1>3, EmptySeq
<1> QED
  BY <1>3, <1>10, <1>11 DEF n, below, cut

(* All levels are taken exactly if the innermost one emits.                *)
LEMMA TakenIsKept ==
  ASSUME NEW ls \in Seq(PreProcState), Shut(ls)
  PROVE  Conditionals!AllTaken(View(ls)) <=> KeepsCode(ls)
<1>1. Len(View(ls)) = Len(ls) /\ Len(ls) \in Nat
      /\ \A i \in 1..Len(ls) : View(ls)[i] = LevelView(ls[i])
  BY ViewTyped, LenProperties
<1>2. \A i \in 1..Len(ls) : View(ls)[i].state = "taken" <=> ThisSideEmits(ls[i])
  <2>1. \A l : LevelView(l).state = State(l)
    BY DEF LevelView
  <2>2. \A l : State(l) = "taken" <=> ThisSideEmits(l)
    BY DEF State
  <2> QED
    BY <1>1, <2>1, <2>2
<1>3. ASSUME KeepsCode(ls), NEW i \in 1..Len(ls) PROVE ThisSideEmits(ls[i])
  <2>1. ls # <<>> /\ ThisSideEmits(ls[Len(ls)]) /\ Len(ls) \in 1..Len(ls)
    BY <1>1, <1>3, EmptySeq DEF KeepsCode
  <2>2. CASE i = Len(ls)
    BY <2>1, <2>2
  <2>3. CASE i < Len(ls)
    BY <2>1, <2>3 DEF Shut, ThisSideEmits
  <2> QED
    BY <2>2, <2>3, <1>1
<1>4. ASSUME \A i \in 1..Len(ls) : ThisSideEmits(ls[i]) PROVE KeepsCode(ls)
  <2> SUFFICES ASSUME ls # <<>> PROVE ThisSideEmits(ls[Len(ls)])
    BY DEF KeepsCode
  <2>1. Len(ls) \in 1..Len(ls)
    BY <1>1, EmptySeq
  <2> QED
    BY <2>1, <1>4
<1> QED
  BY <1>1, <1>2, <1>3, <1>4 DEF Conditionals!AllTaken

-----------------------------------------------------------------------------
(* The sides exclude each other.                                           *)

(* A directive with a symbol decides both sides.                           *)
LEMMA SidedSet ==
  ASSUME NEW l \in PreProcState, NEW s, s # NoSymbol, NEW wanted, l.inIfSide
  PROVE  /\ Sided(SetIfEmits(l, s, wanted))
         /\ SetIfEmits(l, s, wanted).inIfSide
         /\ SetIfEmits(l, s, wanted).foundElse = l.foundElse
         /\ SetIfEmits(l, s, wanted).ifSideEmits <=> ((s \in preProcSymbols) = wanted)
<1> DEFINE holds == (s \in preProcSymbols) = wanted
<1>1. holds \in BOOLEAN
  BY Zenon
<1>2. SetIfEmits(l, s, wanted) = [l EXCEPT !.ifSideEmits = holds, !.elseSideEmits = ~holds]
  BY DEF SetIfEmits
<1> HIDE DEF holds
<1>3. /\ Sided(SetIfEmits(l, s, wanted)) /\ SetIfEmits(l, s, wanted).inIfSide
      /\ SetIfEmits(l, s, wanted).foundElse = l.foundElse
      /\ SetIfEmits(l, s, wanted).ifSideEmits <=> holds
  BY <1>1, <1>2 DEF PreProcState, Sided
<1> QED
  BY <1>3 DEF holds

(* A level whose sides exclude each other may be put on a stack of such    *)
(* levels.                                                                 *)
LEMMA AllSidedPush ==
  ASSUME NEW ls \in Seq(PreProcState), AllSided(ls), NEW x \in PreProcState, Sided(x)
  PROVE  AllSided(Append(ls, x))
<1> SUFFICES ASSUME NEW i \in 1..Len(ls) + 1 PROVE Sided(Append(ls, x)[i])
  BY DEF AllSided
<1>1. CASE i \in 1..Len(ls)
  BY <1>1 DEF AllSided
<1>2. CASE i = Len(ls) + 1
  BY <1>2
<1> QED
  BY <1>1, <1>2

(* Taking the innermost level off leaves a stack of such levels.           *)
LEMMA AllSidedPop ==
  ASSUME NEW ls \in Seq(PreProcState), Shut(ls), AllSided(ls), ls # <<>>
  PROVE  AllSided(SubSeq(ls, 1, Len(ls) - 1)) /\ Sided(ls[Len(ls)])
<1>1. /\ Len(SubSeq(ls, 1, Len(ls) - 1)) = Len(ls) - 1
      /\ \A i \in 1..Len(ls) - 1 : SubSeq(ls, 1, Len(ls) - 1)[i] = ls[i]
  BY PopShut
<1>2. Len(ls) \in 1..Len(ls)
  BY EmptySeq
<1> QED
  BY <1>1, <1>2 DEF AllSided

(* SidesInv is kept by every step.                                         *)
LEMMA NextSidesInv == PassInv /\ SidesInv /\ [Next]_vars => SidesInv'
<1> SUFFICES ASSUME PassInv, SidesInv, [Next]_vars, ~fatal' PROVE AllSided(levels')
  BY DEF SidesInv
<1>t. levels \in Seq(PreProcState) /\ Shut(levels)
  BY DEF PassInv, StackInv
<1>p. levels # <<>> => Top \in PreProcState
  <2> HAVE levels # <<>>
  <2>1. Len(levels) \in 1..Len(levels)
    BY <1>t, EmptySeq
  <2> QED
    BY <2>1, <1>t, ElementOfSeq DEF Top
<1>k. KeepsCode(levels) \in BOOLEAN
  BY Zenon DEF KeepsCode, ThisSideEmits
<1>0. ASSUME UNCHANGED levels, ~fatal PROVE AllSided(levels')
  BY <1>0 DEF SidesInv
<1>1. ASSUME NEW s \in Symbols \cup {NoSymbol}, NEW wanted \in BOOLEAN, If(s, wanted)
      PROVE  AllSided(levels')
  <2> DEFINE e == EnterIf(~KeepsCode(levels))
  <2>1. e \in PreProcState /\ e.inIfSide
    BY <1>k DEF EnterIf, PreProcState
  <2>2. s # NoSymbol /\ ~fatal /\ levels' = Append(levels, SetIfEmits(e, s, wanted))
    BY <1>1 DEF If
  <2> HIDE DEF e
  <2> QED
    BY <1>t, <2>1, <2>2, SidedSet, LevelTyped, AllSidedPush DEF SidesInv
<1>2. ASSUME NEW s \in Symbols \cup {NoSymbol}, NEW wanted \in BOOLEAN, ElseIf(s, wanted)
      PROVE  AllSided(levels')
  <2> DEFINE l == [Top EXCEPT !.inIfSide = TRUE, !.skipThisIfDef = @ \/ KeepsCode(levels)]
  <2>1. levels # <<>> /\ s # NoSymbol /\ ~fatal
        /\ levels' = Append(SubSeq(levels, 1, Len(levels) - 1), SetIfEmits(l, s, wanted))
    BY <1>2 DEF ElseIf, ReportFatal, Below
  <2>2. l \in PreProcState /\ l.inIfSide
    BY <1>p, <1>k, <2>1 DEF PreProcState
  <2> HIDE DEF l
  <2>3. AllSided(SubSeq(levels, 1, Len(levels) - 1))
        /\ SubSeq(levels, 1, Len(levels) - 1) \in Seq(PreProcState)
    BY <1>t, <2>1, AllSidedPop, PopShut DEF SidesInv
  <2> QED
    BY <2>1, <2>2, <2>3, SidedSet, LevelTyped, AllSidedPush
<1>3. CASE Else
  <2> DEFINE x == [Top EXCEPT !.inIfSide = FALSE, !.foundElse = TRUE]
  <2>1. levels # <<>> /\ ~fatal /\ levels' = Append(SubSeq(levels, 1, Len(levels) - 1), x)
    BY <1>3 DEF Else, ReportFatal, Below
  <2>2. AllSided(SubSeq(levels, 1, Len(levels) - 1)) /\ Sided(Top)
        /\ SubSeq(levels, 1, Len(levels) - 1) \in Seq(PreProcState)
    BY <1>t, <2>1, AllSidedPop, PopShut DEF SidesInv, Top
  <2>3. x \in PreProcState /\ Sided(x)
    BY <1>p, <2>1, <2>2 DEF PreProcState, Sided
  <2> HIDE DEF x
  <2> QED
    BY <2>1, <2>2, <2>3, AllSidedPush
<1>4. CASE Endif
  <2>1. levels # <<>> /\ ~fatal /\ levels' = SubSeq(levels, 1, Len(levels) - 1)
    BY <1>4 DEF Endif, ReportFatal, Below
  <2> QED
    BY <1>t, <2>1, AllSidedPop DEF SidesInv
<1>5. CASE Conditional
  BY <1>1, <1>2, <1>3, <1>4, <1>5 DEF Conditional
<1>6. CASE Text \/ Comment \/ Warn \/ Include \/ IncludeThrows \/ Malformed \/ Unknown \/ Error
  <2>1. UNCHANGED levels /\ ~fatal
    BY <1>6 DEF Text, Comment, Quote, InBlock, InDocument, OpenDocument, OpenBlock, Warn, Include,
             IncludeThrows, Malformed, Unknown, Error, Directive, ReportFatal
  <2> QED
    BY <2>1, <1>0
<1>7. ASSUME NEW s \in Symbols, Define(s) \/ Undef(s) \/ ExportDef(s) PROVE AllSided(levels')
  BY <1>0, <1>7 DEF Define, Undef, ExportDef, Directive
<1>8. CASE \E badVersion \in BOOLEAN : EndOfFile(badVersion)
  BY <1>0, <1>8, Zenon DEF EndOfFile
<1>9. CASE NextDocument
  <2>1. levels' = <<>> /\ Len(levels') = 0
    BY <1>9 DEF NextDocument
  <2> QED
    BY <2>1 DEF AllSided
<1>10. CASE UNCHANGED vars
  BY <1>0, <1>10 DEF vars
<1> QED
  BY <1>5, <1>6, <1>7, <1>8, <1>9, <1>10 DEF Next

-----------------------------------------------------------------------------
(* The steps.                                                              *)

(* While the pass goes on the views are the variables.                     *)
LEMMA ViewsOfRunning ==
  /\ ~Stopped => /\ ViewLevels = View(levels) /\ ViewDefined = preProcSymbols
                 /\ ViewExported = defSymbols /\ ViewFate = fate /\ ViewOutcome = outcome
  /\ ~Stopped' => /\ ViewLevels' = View(levels') /\ ViewDefined' = preProcSymbols'
                  /\ ViewExported' = defSymbols' /\ ViewFate' = fate' /\ ViewOutcome' = outcome'
  BY DEF ViewLevels, ViewDefined, ViewExported, ViewFate, ViewOutcome, View, State, ThisSideEmits

(* No levels are no conditionals.                                          *)
LEMMA EmptyView == View(<<>>) = <<>>
<1>1. <<>> \in Seq(PreProcState) /\ Len(<<>>) = 0
  OBVIOUS
<1>2. View(<<>>) \in Seq(AbstractLevel) /\ Len(View(<<>>)) = 0
  BY <1>1, ViewTyped
<1> QED
  BY <1>2, EmptySeq

(* The pass begins as the conditionals do.                                 *)
LEMMA InitConditionals == Init => Conditionals!Init
<1> SUFFICES ASSUME Init PROVE Conditionals!Init
  OBVIOUS
<1>1. ~Stopped
  BY DEF Init, Stopped
<1>2. ViewLevels = <<>> /\ ViewFate = <<>> /\ ViewOutcome = "reading"
  BY <1>1, ViewsOfRunning, EmptyView DEF Init
<1>3. ViewExported \in SUBSET (Symbols \cup Builtins) /\ ViewDefined = Builtins \cup ViewExported
  <2>1. ViewExported = defSymbols /\ ViewDefined = preProcSymbols
    BY <1>1, ViewsOfRunning
  <2> QED
    BY <2>1, Zenon DEF Init
<1> QED
  BY <1>2, <1>3 DEF Conditionals!Init

(* A line that tells ConditionalText nothing.                              *)
LEMMA OtherLine ==
  ASSUME ~Stopped, ~Stopped', outcome = "reading", outcome' = outcome,
         UNCHANGED <<levels, preProcSymbols, defSymbols>>, Line(Became("none"))
  PROVE  Conditionals!Other
<1>1. ViewFate' = Append(ViewFate, [is |-> "none", as |-> 0])
  BY ViewsOfRunning DEF Line, Became
<1>2. ViewOutcome = "reading" /\ UNCHANGED <<ViewLevels, ViewDefined, ViewExported, ViewOutcome>>
  BY ViewsOfRunning
<1> QED
  BY <1>1, <1>2 DEF Conditionals!Other, Conditionals!Line, Conditionals!Became

(* An #include, whatever branch it stands in.                              *)
LEMMA IncludeLine ==
  ASSUME ~Stopped, ~Stopped', Include
  PROVE  Conditionals!Include
<1>1. outcome = "reading" /\ UNCHANGED <<levels, preProcSymbols, outcome>>
  BY DEF Include, Directive, Reads, table
<1>2. Line(Became("included"))
  BY DEF Include, Directive, EmitLine
<1>3. ViewFate' = Append(ViewFate, [is |-> "included", as |-> 0])
  BY <1>2, ViewsOfRunning DEF Line, Became
<1>4. ViewOutcome = "reading" /\ UNCHANGED <<ViewLevels, ViewDefined, ViewOutcome>>
  BY <1>1, ViewsOfRunning
<1>5. PICK new \in SUBSET (Symbols \ Undefs) : defSymbols' = defSymbols \cup new
  BY DEF Include, ExportsOfIncluded
<1>6. ViewExported' = ViewExported \cup new
  BY <1>5, ViewsOfRunning
<1> QED
  BY <1>3, <1>4, <1>6 DEF Conditionals!Include, Conditionals!Line, Conditionals!Became

(* A line of text that goes on its way.                                    *)
LEMMA TextLine ==
  ASSUME PassInv, ~Stopped, ~Stopped', outcome = "reading", outcome' = outcome,
         UNCHANGED <<levels, preProcSymbols, defSymbols>>,
         EmitLine(levels, replaceCurrent, FALSE, FALSE, "text")
  PROVE  Conditionals!Text
<1> DEFINE f == IF KeepsCode(levels) THEN Kept(Len(fate) + 1) ELSE Became("dropped")
<1>1. Conditionals!AllTaken(View(levels)) <=> KeepsCode(levels)
  BY TakenIsKept DEF PassInv, StackInv
<1>2. KeepsCode(levels) => replaceCurrent = 0
  BY DEF PassInv, LineInv, StaleIsHidden
<1>3. fate' = Append(fate, f)
  BY <1>2 DEF EmitLine, Line, This
<1>4. ViewFate' = Append(ViewFate, IF Conditionals!AllTaken(ViewLevels)
                                     THEN [is |-> "kept", as |-> Len(ViewFate) + 1]
                                     ELSE [is |-> "dropped", as |-> 0])
  BY <1>1, <1>3, ViewsOfRunning DEF Kept, Became
<1>5. ViewOutcome = "reading" /\ UNCHANGED <<ViewLevels, ViewDefined, ViewExported, ViewOutcome>>
  BY ViewsOfRunning
<1> QED
  BY <1>4, <1>5 DEF Conditionals!Text, Conditionals!Line, Conditionals!Kept, Conditionals!Became

(* #define, #undef and #pragma exportdef.                                  *)
LEMMA SymbolLine ==
  ASSUME PassInv, ~Stopped, ~Stopped', NEW s \in Symbols,
         Define(s) \/ Undef(s) \/ ExportDef(s)
  PROVE  Conditionals!Declare \/ Conditionals!Other
<1>1. /\ outcome = "reading" /\ UNCHANGED <<levels, outcome>>
      /\ \E ls, rc, skip, force : EmitLine(ls, rc, skip, force, "none")
  BY DEF Define, Undef, ExportDef, Directive, Reads
<1>2. Line(Became("none"))
  BY <1>1 DEF EmitLine
<1>3. CASE UNCHANGED <<preProcSymbols, defSymbols>>
  BY <1>1, <1>2, <1>3, OtherLine
<1>4. CASE ~UNCHANGED <<preProcSymbols, defSymbols>>
  <2>1. KeepsCode(levels)
    BY <1>4 DEF Define, DefineSymbol, Undef, ExportDef, table
  <2>2. Conditionals!AllTaken(ViewLevels)
    BY <2>1, TakenIsKept, ViewsOfRunning DEF PassInv, StackInv
  <2>3. /\ ViewFate' = Append(ViewFate, [is |-> "none", as |-> 0])
        /\ ViewOutcome = "reading" /\ UNCHANGED <<ViewLevels, ViewOutcome>>
    BY <1>1, <1>2, ViewsOfRunning DEF Line, Became
  <2>4. \/ preProcSymbols' = preProcSymbols \cup {s} /\ UNCHANGED defSymbols
        \/ s \notin Builtins /\ preProcSymbols' = preProcSymbols \ {s} /\ UNCHANGED defSymbols
        \/ s \notin Undefs /\ defSymbols' = defSymbols \cup {s} /\ UNCHANGED preProcSymbols
    BY <1>4 DEF Define, DefineSymbol, Undef, UndefineSymbol, ExportDef, table
  <2>5. \/ ViewDefined' = ViewDefined \cup {s} /\ UNCHANGED ViewExported
        \/ s \notin Builtins /\ ViewDefined' = ViewDefined \ {s} /\ UNCHANGED ViewExported
        \/ s \notin Undefs /\ ViewExported' = ViewExported \cup {s} /\ UNCHANGED ViewDefined
    BY <2>4, ViewsOfRunning
  <2> QED
    BY <2>2, <2>3, <2>5 DEF Conditionals!Declare, Conditionals!Line, Conditionals!Became
<1> QED
  BY <1>3, <1>4

(* What a condition makes of a level that is read in its if side.          *)
LEMMA ChosenState ==
  ASSUME NEW l \in PreProcState, l.inIfSide, ~l.foundElse, NEW s, s # NoSymbol, NEW wanted
  PROVE  State(SetIfEmits(l, s, wanted)) =
           IF l.skipThisIfDef THEN "closed"
           ELSE IF (s \in preProcSymbols) = wanted THEN "taken" ELSE "seeking"
<1> DEFINE x == SetIfEmits(l, s, wanted)
           holds == (s \in preProcSymbols) = wanted
<1>1. x.inIfSide /\ ~x.foundElse /\ (x.ifSideEmits <=> holds) /\ x.skipThisIfDef = l.skipThisIfDef
  <2>1. /\ x.inIfSide /\ x.foundElse = l.foundElse
        /\ (x.ifSideEmits <=> ((s \in preProcSymbols) = wanted))
    BY SidedSet
  <2>2. x.skipThisIfDef = l.skipThisIfDef
    BY LevelTyped
  <2> HIDE DEF x
  <2>3. ~x.foundElse
    BY <2>1
  <2> QED
    BY <2>1, <2>2, <2>3 DEF holds
<1> HIDE DEF x, holds
<1>2. State(x) = IF l.skipThisIfDef THEN "closed" ELSE IF holds THEN "taken" ELSE "seeking"
  BY <1>1 DEF State, ThisSideEmits
<1> QED
  BY <1>2 DEF x, holds

(* Above a branch that is not taken everything is closed.                  *)
LEMMA ClosedAbove ==
  ASSUME NEW ls \in Seq(PreProcState), Shut(ls), ls # <<>>,
         ~Conditionals!AllTaken(View(SubSeq(ls, 1, Len(ls) - 1)))
  PROVE  ls[Len(ls)].skipThisIfDef
<1> DEFINE below == SubSeq(ls, 1, Len(ls) - 1)
<1>1. /\ below \in Seq(PreProcState) /\ Len(below) = Len(ls) - 1
      /\ \A i \in 1..Len(ls) - 1 : below[i] = ls[i]
      /\ Shut(below)
  BY PopShut
<1>2. ~KeepsCode(below)
  BY <1>1, TakenIsKept
<1> HIDE DEF below
<1>3. below # <<>> /\ ~ThisSideEmits(below[Len(below)])
  BY <1>2 DEF KeepsCode
<1>4. Len(ls) - 1 \in 1..Len(ls) /\ below[Len(below)] = ls[Len(ls) - 1] /\ Len(ls) \in 1..Len(ls)
  BY <1>1, <1>3, EmptySeq
<1> QED
  BY <1>3, <1>4 DEF Shut

(* The stack of ConditionalText, while the pass goes on.                   *)
LEMMA ViewTop ==
  ASSUME PassInv, ~Stopped, levels # <<>>
  PROVE  /\ ViewLevels # <<>> /\ Top \in PreProcState
         /\ Conditionals!Top = LevelView(Top)
         /\ Conditionals!Below = View(Below)
         /\ Below \in Seq(PreProcState)
<1>1. levels \in Seq(PreProcState) /\ Shut(levels)
  BY DEF PassInv, StackInv
<1>2. Len(levels) \in 1..Len(levels)
  BY <1>1, EmptySeq
<1>3. Top \in PreProcState
  BY <1>1, <1>2, ElementOfSeq DEF Top
<1>4. /\ View(levels) # <<>> /\ Len(View(levels)) = Len(levels)
      /\ View(levels)[Len(levels)] = LevelView(levels[Len(levels)])
      /\ View(SubSeq(levels, 1, Len(levels) - 1)) = SubSeq(View(levels), 1, Len(levels) - 1)
  BY <1>1, ViewBelow
<1>5. Below \in Seq(PreProcState)
  BY <1>1, PopShut DEF Below
<1>6. ViewLevels = View(levels)
  BY ViewsOfRunning
<1> QED
  BY <1>3, <1>4, <1>5, <1>6 DEF Conditionals!Top, Conditionals!Below, Top, Below

(* What every directive about the conditionals tells ConditionalText.      *)
LEMMA ConditionalView ==
  ASSUME ~Stopped, ~Stopped', outcome = "reading", outcome' = outcome,
         UNCHANGED <<preProcSymbols, defSymbols>>,
         NEW ls, NEW rc, NEW force, EmitLine(ls, rc, FALSE, force, "none")
  PROVE  /\ Conditionals!Line(Conditionals!Became("none"))
         /\ UNCHANGED <<ViewDefined, ViewExported>>
         /\ ViewLevels' = View(levels')
<1>1. ViewFate' = Append(ViewFate, [is |-> "none", as |-> 0])
  BY ViewsOfRunning DEF EmitLine, Line, Became
<1> QED
  BY <1>1, ViewsOfRunning DEF Conditionals!Line, Conditionals!Became

(* #ifdef and its relatives open a conditional.                            *)
LEMMA IfLine ==
  ASSUME PassInv, ~Stopped, ~Stopped',
         NEW s \in Symbols \cup {NoSymbol}, NEW wanted \in BOOLEAN, If(s, wanted)
  PROVE  Conditionals!If
<1> DEFINE e == EnterIf(~KeepsCode(levels))
           x == SetIfEmits(e, s, wanted)
<1>1. s # NoSymbol /\ s \in Symbols /\ outcome = "reading" /\ outcome' = outcome
      /\ UNCHANGED <<preProcSymbols, defSymbols>>
  BY DEF If, Stopped, Reads, table
<1>2. levels' = Append(levels, x) /\ levels \in Seq(PreProcState) /\ Shut(levels)
  BY DEF If, PassInv, StackInv
<1>3. e \in PreProcState /\ e.inIfSide /\ ~e.foundElse /\ e.skipThisIfDef = ~KeepsCode(levels)
  <2>1. KeepsCode(levels) \in BOOLEAN
    BY Zenon DEF KeepsCode, ThisSideEmits
  <2> QED
    BY <2>1 DEF EnterIf, PreProcState
<1> HIDE DEF e
<1>4. /\ State(x) = IF e.skipThisIfDef THEN "closed"
                    ELSE IF (s \in preProcSymbols) = wanted THEN "taken" ELSE "seeking"
      /\ x.foundElse = e.foundElse /\ x \in PreProcState
  BY <1>1, <1>3, ChosenState, SidedSet, LevelTyped
<1> HIDE DEF x
<1>5. x.foundElse = FALSE
  BY <1>3, <1>4 DEF PreProcState
<1>6. Conditionals!AllTaken(ViewLevels) <=> KeepsCode(levels)
  BY <1>2, TakenIsKept, ViewsOfRunning
<1>7. State(x) = IF Conditionals!AllTaken(ViewLevels) THEN Conditionals!Chosen(s, wanted) ELSE "closed"
  BY <1>3, <1>4, <1>6, ViewsOfRunning DEF Conditionals!Chosen
<1>8. ViewLevels' = Append(ViewLevels, LevelView(x))
  BY <1>2, <1>4, ViewAppend, ViewsOfRunning
<1>9. Conditionals!Line(Conditionals!Became("none")) /\ UNCHANGED <<ViewDefined, ViewExported>>
  BY <1>1, ConditionalView DEF If
<1> QED
  BY <1>1, <1>5, <1>7, <1>8, <1>9 DEF Conditionals!If, LevelView

(* A branch after #else: nothing is promised but that it stays closed      *)
(* where it was.                                                           *)
LEMMA AfterElseLine ==
  ASSUME PassInv, ~Stopped, levels # <<>>, Top.foundElse,
         NEW x \in PreProcState, x.foundElse, Top.skipThisIfDef => x.skipThisIfDef,
         ViewLevels' = Append(View(Below), LevelView(x)),
         Conditionals!Line(Conditionals!Became("none")), UNCHANGED <<ViewDefined, ViewExported>>
  PROVE  Conditionals!AfterElse
<1>1. /\ ViewLevels # <<>>
      /\ Conditionals!Top = LevelView(Top)
      /\ Conditionals!Below = View(Below)
  BY ViewTop
<1>2. Conditionals!AllTaken(View(Below)) \/ Top.skipThisIfDef
  BY ClosedAbove DEF PassInv, StackInv, Top, Below
<1>3. x.skipThisIfDef => State(x) = "closed"
  BY DEF State, ThisSideEmits
<1>4. LevelView(x) \in Conditionals!Level
  BY LevelViewTyped DEF AbstractLevel, Conditionals!Level
<1>5. LevelView(x).state = State(x) /\ LevelView(x).sawElse = x.foundElse /\ LevelView(Top).sawElse = Top.foundElse
  BY DEF LevelView
<1>6. /\ LevelView(x).sawElse
      /\ Conditionals!AllTaken(Conditionals!Below) \/ LevelView(x).state = "closed"
      /\ ViewLevels' = Append(Conditionals!Below, LevelView(x))
  BY <1>1, <1>2, <1>3, <1>5
<1>7. Conditionals!Top.sawElse
  BY <1>1, <1>5
<1> QED
  BY <1>1, <1>4, <1>6, <1>7 DEF Conditionals!AfterElse

(* #elseifdef and its relatives open its next branch, or come behind an    *)
(* #else.                                                                  *)
LEMMA ElseIfLine ==
  ASSUME PassInv, SidesInv, ~Stopped, ~Stopped',
         NEW s \in Symbols \cup {NoSymbol}, NEW wanted \in BOOLEAN, ElseIf(s, wanted)
  PROVE  Conditionals!ElseIf \/ Conditionals!AfterElse
<1> DEFINE l == [Top EXCEPT !.inIfSide = TRUE, !.skipThisIfDef = @ \/ KeepsCode(levels)]
           x == SetIfEmits(l, s, wanted)
<1>1. levels # <<>> /\ s # NoSymbol /\ s \in Symbols /\ outcome = "reading" /\ outcome' = outcome
      /\ UNCHANGED <<preProcSymbols, defSymbols>>
      /\ levels' = Append(Below, x)
  BY DEF ElseIf, ReportFatal, Stopped, Reads, table
<1>2. /\ ViewLevels # <<>> /\ Top \in PreProcState
      /\ Conditionals!Top = LevelView(Top)
      /\ Conditionals!Below = View(Below)
      /\ Below \in Seq(PreProcState)
  BY <1>1, ViewTop
<1>3. l \in PreProcState /\ l.inIfSide /\ l.foundElse = Top.foundElse
      /\ (l.skipThisIfDef <=> Top.skipThisIfDef \/ KeepsCode(levels))
  <2>1. KeepsCode(levels) \in BOOLEAN
    BY Zenon DEF KeepsCode, ThisSideEmits
  <2> QED
    BY <1>2, <2>1 DEF PreProcState
<1> HIDE DEF l
<1>4. x \in PreProcState /\ x.foundElse = l.foundElse /\ x.skipThisIfDef = l.skipThisIfDef
  BY <1>1, <1>3, LevelTyped, SidedSet
<1>5. Conditionals!Line(Conditionals!Became("none")) /\ UNCHANGED <<ViewDefined, ViewExported>>
  BY <1>1, ConditionalView DEF ElseIf
<1>6. ViewLevels' = Append(View(Below), LevelView(x))
  BY <1>1, <1>2, <1>4, ViewAppend, ViewsOfRunning
<1>7. CASE Top.foundElse
  BY <1>1, <1>3, <1>4, <1>5, <1>6, <1>7, AfterElseLine
<1>8. CASE ~Top.foundElse
  <2>1. State(x) = IF l.skipThisIfDef THEN "closed"
                   ELSE IF (s \in preProcSymbols) = wanted THEN "taken" ELSE "seeking"
    BY <1>1, <1>3, <1>8, ChosenState
  <2> HIDE DEF x
  <2>2. KeepsCode(levels) <=> ThisSideEmits(Top)
    BY <1>1 DEF KeepsCode, Top
  <2>3. State(Top) = "seeking" <=> ~l.skipThisIfDef
    BY <1>3, <1>8, <2>2 DEF State, ThisSideEmits
  <2>4. State(x) = IF State(Top) = "seeking" THEN Conditionals!Chosen(s, wanted) ELSE "closed"
    BY <2>1, <2>3, ViewsOfRunning DEF Conditionals!Chosen
  <2>5. x.foundElse = Top.foundElse
    BY <1>3, <1>4
  <2>6. LevelView(x) = [LevelView(Top) EXCEPT !.state =
                          IF @ = "seeking" THEN Conditionals!Chosen(s, wanted) ELSE "closed"]
    BY <2>4, <2>5 DEF LevelView
  <2>7. ~Conditionals!Top.sawElse
    BY <1>2, <1>8 DEF LevelView
  <2> QED
    BY <1>1, <1>2, <1>5, <1>6, <2>6, <2>7 DEF Conditionals!ElseIf
<1> QED
  BY <1>7, <1>8

(* So does #else.                                                          *)
LEMMA ElseLine ==
  ASSUME PassInv, SidesInv, ~Stopped, ~Stopped', Else
  PROVE  Conditionals!Else \/ Conditionals!AfterElse
<1> DEFINE x == [Top EXCEPT !.inIfSide = FALSE, !.foundElse = TRUE]
<1>1. levels # <<>> /\ outcome = "reading" /\ outcome' = outcome
      /\ UNCHANGED <<preProcSymbols, defSymbols>>
      /\ levels' = Append(Below, x)
  BY DEF Else, ReportFatal, Stopped, Reads, table
<1>2. /\ ViewLevels # <<>> /\ Top \in PreProcState
      /\ Conditionals!Top = LevelView(Top)
      /\ Conditionals!Below = View(Below)
      /\ Below \in Seq(PreProcState)
  BY <1>1, ViewTop
<1>3. Sided(Top)
  BY <1>1, AllSidedPop DEF SidesInv, PassInv, StackInv, Top, Stopped
<1>4. /\ x \in PreProcState /\ x.foundElse = TRUE /\ x.inIfSide = FALSE
      /\ x.skipThisIfDef = Top.skipThisIfDef /\ x.elseSideEmits = Top.elseSideEmits
  BY <1>2 DEF PreProcState
<1>5. Conditionals!Line(Conditionals!Became("none")) /\ UNCHANGED <<ViewDefined, ViewExported>>
  BY <1>1, ConditionalView DEF Else
<1>6. ViewLevels' = Append(View(Below), LevelView(x))
  BY <1>1, <1>2, <1>4, ViewAppend, ViewsOfRunning
<1> HIDE DEF x
<1>7. CASE Top.foundElse
  BY <1>1, <1>4, <1>5, <1>6, <1>7, AfterElseLine
<1>8. CASE ~Top.foundElse
  <2>1. State(x) = IF ~Top.skipThisIfDef /\ Top.elseSideEmits THEN "taken" ELSE "closed"
    BY <1>4 DEF State, ThisSideEmits
  <2>2. State(Top) = "seeking" <=> ~Top.skipThisIfDef /\ Top.elseSideEmits
    BY <1>3, <1>8 DEF State, ThisSideEmits, Sided
  <2>3. State(x) = IF State(Top) = "seeking" THEN "taken" ELSE "closed"
    BY <2>1, <2>2
  <2>4. LevelView(x) = [state |-> IF LevelView(Top).state = "seeking" THEN "taken" ELSE "closed",
                        sawElse |-> TRUE]
    BY <1>4, <2>3 DEF LevelView
  <2>5. ~Conditionals!Top.sawElse
    BY <1>2, <1>8 DEF LevelView
  <2> QED
    BY <1>2, <1>5, <1>6, <2>4, <2>5 DEF Conditionals!Else
<1> QED
  BY <1>7, <1>8

(* #endif closes it.                                                       *)
LEMMA EndifLine ==
  ASSUME PassInv, ~Stopped, ~Stopped', Endif
  PROVE  Conditionals!Endif
<1>1. levels # <<>> /\ outcome = "reading" /\ outcome' = outcome
      /\ UNCHANGED <<preProcSymbols, defSymbols>>
      /\ levels' = Below
  BY DEF Endif, ReportFatal, Stopped, Reads, table
<1>2. ViewLevels # <<>> /\ Conditionals!Below = View(Below)
  BY <1>1, ViewTop
<1>3. Conditionals!Line(Conditionals!Became("none")) /\ UNCHANGED <<ViewDefined, ViewExported>>
      /\ ViewLevels' = View(levels')
  BY <1>1, ConditionalView DEF Endif
<1> QED
  BY <1>1, <1>2, <1>3 DEF Conditionals!Endif

(* A pass that is stopped stays so.                                        *)
LEMMA StaysStopped ==
  ASSUME PassInv, [Next]_vars, Stopped
  PROVE  Stopped'
<1>1. fatal /\ outcome # "failed" => fatal' \/ outcome' = "failed"
  <2> SUFFICES ASSUME fatal, outcome # "failed" PROVE fatal' \/ outcome' = "failed"
    OBVIOUS
  <2>1. outcome = "reading"
    BY DEF PassInv, StackInv, DepthIsBalance
  <2>2. CASE Text \/ Comment \/ Conditional \/ Error \/ Warn \/ Include \/ IncludeThrows \/ Malformed \/ Unknown
    <3>1. CASE Comment
      BY <3>1 DEF Comment, Quote, InBlock, InDocument, OpenDocument, OpenBlock
    <3>2. CASE Conditional
      BY <3>2 DEF Conditional, If, ElseIf, Else, Endif, ReportFatal
    <3> QED
      BY <2>2, <3>1, <3>2 DEF Text, Error, Warn, Include, IncludeThrows, Malformed, Unknown, ReportFatal
  <2>3. CASE \E s \in Symbols : Define(s) \/ Undef(s) \/ ExportDef(s)
    BY <2>3 DEF Define, Undef, ExportDef
  <2>4. CASE \E badVersion \in BOOLEAN : EndOfFile(badVersion)
    BY <2>4, Zenon DEF EndOfFile
  <2>5. CASE NextDocument
    BY <2>1, <2>5 DEF NextDocument
  <2>6. CASE UNCHANGED vars
    BY <2>6 DEF vars
  <2> QED
    BY <2>2, <2>3, <2>4, <2>5, <2>6 DEF Next
<1>2. outcome = "failed" => outcome' = "failed"
  <2> SUFFICES ASSUME outcome = "failed" PROVE outcome' = "failed"
    OBVIOUS
  <2>1. outcome # "reading" /\ outcome # "done"
    OBVIOUS
  <2>2. ~Text /\ ~Comment /\ ~Error /\ ~Warn /\ ~Include /\ ~IncludeThrows /\ ~Malformed /\ ~Unknown
    BY <2>1 DEF Comment, Quote, InBlock, InDocument, OpenDocument, OpenBlock, Text, Error, Warn,
                Include, IncludeThrows, Malformed, Unknown, Reads
  <2>3. ~Conditional /\ ~NextDocument
    BY <2>1 DEF Conditional, If, ElseIf, Else, Endif, NextDocument, Reads
  <2>4. \A s \in Symbols : ~Define(s) /\ ~Undef(s) /\ ~ExportDef(s)
    BY <2>1 DEF Define, Undef, ExportDef, Reads
  <2>5. \A badVersion \in BOOLEAN : ~EndOfFile(badVersion)
    BY <2>1 DEF EndOfFile
  <2>6. UNCHANGED vars
    BY <2>2, <2>3, <2>4, <2>5 DEF Next
  <2> QED
    BY <2>6 DEF vars
<1> QED
  BY <1>1, <1>2 DEF Stopped

-----------------------------------------------------------------------------
(* Every step of the pass.                                                 *)

(* The pass was stopped before, or is now.                                 *)
LEMMA StopStep ==
  ASSUME PassInv, [Next]_vars, Stopped'
  PROVE  Conditionals!Fail \/ UNCHANGED Conditionals!vars
<1>1. /\ ViewLevels' = <<>> /\ ViewDefined' = {} /\ ViewExported' = {} /\ ViewFate' = <<>>
      /\ ViewOutcome' = "failed"
  BY DEF ViewLevels, ViewDefined, ViewExported, ViewFate, ViewOutcome
<1>2. CASE Stopped
  <2>1. /\ ViewLevels = <<>> /\ ViewDefined = {} /\ ViewExported = {} /\ ViewFate = <<>>
        /\ ViewOutcome = "failed"
    BY <1>2 DEF ViewLevels, ViewDefined, ViewExported, ViewFate, ViewOutcome
  <2> QED
    BY <1>1, <2>1 DEF Conditionals!vars
<1>3. CASE ~Stopped
  <2>1. outcome = "reading"
    <3> SUFFICES ASSUME outcome # "reading" PROVE FALSE
      OBVIOUS
    <3>1. outcome = "done"
      BY <1>3 DEF PassInv, StackInv, Stopped
    <3>2. ~Text /\ ~Comment /\ ~Error /\ ~Warn /\ ~Include /\ ~IncludeThrows /\ ~Malformed /\ ~Unknown
      BY <3>1 DEF Comment, Quote, InBlock, InDocument, OpenDocument, OpenBlock, Text, Error, Warn,
                  Include, IncludeThrows, Malformed, Unknown, Reads
    <3>3. ~Conditional
      BY <3>1 DEF Conditional, If, ElseIf, Else, Endif, Reads
    <3>4. \A s \in Symbols : ~Define(s) /\ ~Undef(s) /\ ~ExportDef(s)
      BY <3>1 DEF Define, Undef, ExportDef, Reads
    <3>5. \A badVersion \in BOOLEAN : ~EndOfFile(badVersion)
      BY <3>1 DEF EndOfFile
    <3>6. NextDocument \/ UNCHANGED vars
      BY <3>2, <3>3, <3>4, <3>5 DEF Next
    <3>7. ~Stopped'
      <4>1. CASE NextDocument
        BY <4>1 DEF NextDocument, Stopped
      <4>2. CASE UNCHANGED vars
        BY <4>2, <1>3 DEF vars, Stopped
      <4> QED
        BY <3>6, <4>1, <4>2
    <3> QED
      BY <3>7
  <2>2. ViewOutcome = "reading"
    BY <1>3, <2>1, ViewsOfRunning
  <2> QED
    BY <1>1, <2>2 DEF Conditionals!Fail
<1> QED
  BY <1>2, <1>3

(* The pass goes on.                                                       *)
LEMMA RunStep ==
  ASSUME PassInv, SidesInv, [Next]_vars, ~Stopped, ~Stopped'
  PROVE  [Conditionals!Next]_(Conditionals!vars)
<1> DEFINE Mapped == Conditionals!Next \/ UNCHANGED Conditionals!vars
<1>1. CASE Text
  <2>1. Conditionals!Text
    BY <1>1, TextLine DEF Text, Reads, table
  <2> QED
    BY <2>1 DEF Conditionals!Next
<1>2. CASE Comment
  <2>1. outcome = "reading" /\ outcome' = outcome /\ UNCHANGED <<levels, preProcSymbols, defSymbols>>
    BY <1>2 DEF Comment, Quote, InBlock, InDocument, OpenDocument, OpenBlock, Reads, table
  <2>2. Line(Became("none")) \/ EmitLine(levels, replaceCurrent, FALSE, FALSE, "text")
    <3>1. ASSUME NEW d \in -MaxNest..MaxNest, Quote(d) \/ InBlock(d) PROVE Line(Became("none"))
      BY <3>1 DEF Quote, InBlock, EmitLine
    <3>2. ASSUME NEW d \in -MaxNest..MaxNest, OpenBlock(d, FALSE) PROVE Line(Became("none"))
      BY <3>2 DEF OpenBlock, EmitLine
    <3>3. ASSUME NEW closes \in BOOLEAN, InDocument(closes) \/ OpenDocument(closes) PROVE Line(Became("none"))
      BY <3>3 DEF InDocument, OpenDocument, EmitLine
    <3>4. CASE OpenBlock(0, TRUE)
      <4>1. EmitLine(levels, replaceCurrent, FALSE, FALSE, "text")
        BY <3>4 DEF OpenBlock
      <4> QED
        BY <4>1
    <3> QED
      BY <1>2, <3>1, <3>2, <3>3, <3>4 DEF Comment
  <2>3. Conditionals!Other \/ Conditionals!Text
    BY <2>1, <2>2, OtherLine, TextLine
  <2> QED
    BY <2>3 DEF Conditionals!Next
<1>3. CASE Conditional
  <2>1. ASSUME NEW s \in Symbols \cup {NoSymbol}, NEW wanted \in BOOLEAN, If(s, wanted) \/ ElseIf(s, wanted)
        PROVE  Conditionals!If \/ Conditionals!ElseIf \/ Conditionals!AfterElse
    BY <2>1, IfLine, ElseIfLine
  <2>2. CASE Else \/ Endif
    BY <2>2, ElseLine, EndifLine DEF Conditionals!Next
  <2> QED
    BY <1>3, <2>1, <2>2 DEF Conditional, Conditionals!Next
<1>4. ASSUME NEW s \in Symbols, Define(s) \/ Undef(s) \/ ExportDef(s) PROVE Mapped
  BY <1>4, SymbolLine DEF Conditionals!Next
<1>5. CASE Error \/ Warn \/ Include \/ IncludeThrows \/ Malformed \/ Unknown
  <2>1. ~fatal' /\ outcome' # "failed"
    BY DEF Stopped
  <2>2. CASE Error
    <3>1. Directive("none") /\ UNCHANGED <<levels, preProcSymbols, defSymbols, outcome>> /\ outcome = "reading"
      BY <2>1, <2>2 DEF Error, Reads, Directive, table
    <3>2. Line(Became("none"))
      BY <3>1 DEF Directive, EmitLine
    <3>3. Conditionals!Other
      BY <3>1, <3>2, OtherLine
    <3> QED
      BY <3>3 DEF Conditionals!Next
  <2>3. CASE Warn
    <3>1. UNCHANGED <<levels, preProcSymbols, defSymbols, outcome>> /\ outcome = "reading"
      BY <2>3 DEF Warn, Reads, Directive, table
    <3>2. Line(Became("none"))
      BY <2>3 DEF Warn, Directive, EmitLine
    <3>3. Conditionals!Other
      BY <3>1, <3>2, OtherLine
    <3> QED
      BY <3>3 DEF Conditionals!Next
  <2>5. CASE Include
    BY <2>5, IncludeLine DEF Conditionals!Next
  <2>4. ~IncludeThrows /\ ~Malformed /\ ~Unknown
    BY <2>1 DEF IncludeThrows, Malformed, Unknown, ReportFatal
  <2> QED
    BY <1>5, <2>2, <2>3, <2>4, <2>5
<1>6. ASSUME NEW badVersion \in BOOLEAN, EndOfFile(badVersion) PROVE Mapped
  <2>1. levels = <<>> /\ outcome = "reading" /\ outcome' = "done"
        /\ UNCHANGED <<levels, preProcSymbols, defSymbols, fate>>
    <3>1. UNCHANGED <<levels, preProcSymbols, defSymbols, fate>> /\ outcome = "reading"
      BY <1>6 DEF EndOfFile, table
    <3>2. fatal' <=> (fatal \/ badVersion \/ levels # <<>>)
      BY <1>6 DEF EndOfFile
    <3>3. outcome' = IF fatal' THEN "failed" ELSE "done"
      BY <1>6 DEF EndOfFile
    <3> QED
      BY <3>1, <3>2, <3>3 DEF Stopped
  <2>2. ViewLevels = <<>> /\ ViewOutcome = "reading" /\ ViewOutcome' = "done"
        /\ UNCHANGED <<ViewLevels, ViewDefined, ViewExported, ViewFate>>
    BY <2>1, ViewsOfRunning, EmptyView
  <2> QED
    BY <2>2 DEF Conditionals!Finish, Conditionals!Next
<1>7. CASE NextDocument
  <2>1. outcome = "done" /\ outcome' = "reading" /\ levels = <<>> /\ levels' = <<>> /\ fate' = <<>>
    BY <1>7 DEF NextDocument, PassInv, StackInv, DepthIsBalance
  <2>2. preProcSymbols' = Builtins \cup defSymbols /\ UNCHANGED defSymbols
    BY <1>7 DEF NextDocument
  <2>3. /\ ViewOutcome = "done" /\ ViewOutcome' = "reading" /\ UNCHANGED <<ViewLevels, ViewExported>>
        /\ ViewFate' = <<>> /\ ViewDefined' = Builtins \cup ViewExported
    BY <2>1, <2>2, ViewsOfRunning, EmptyView
  <2> QED
    BY <2>3 DEF Conditionals!Following, Conditionals!Next
<1>8. CASE UNCHANGED vars
  <2>1. UNCHANGED <<levels, preProcSymbols, defSymbols, fate, outcome>>
    BY <1>8 DEF vars, table
  <2>2. UNCHANGED Conditionals!vars
    BY <2>1, ViewsOfRunning DEF Conditionals!vars
  <2> QED
    BY <2>2
<1> QED
  BY <1>1, <1>2, <1>3, <1>4, <1>5, <1>6, <1>7, <1>8 DEF Next

(* SidesInv holds throughout.                                              *)
LEMMA AlwaysSided == Spec => []SidesInv
<1>1. Init => SidesInv
  BY DEF Init, SidesInv, AllSided
<1> QED
  BY <1>1, NextSidesInv, PassInvariant, PTL DEF Spec

(* What the pass does with any sequence of lines is what ConditionalText   *)
(* allows: the innermost level and the two sides it keeps decide as all    *)
(* conditionals around a line would, until a mistake stops the pass.       *)
THEOREM PassKeepsConditionalText == Spec => ImplementsConditionalText
<1>1. PassInv /\ SidesInv /\ [Next]_vars => [Conditionals!Next]_(Conditionals!vars)
  <2> SUFFICES ASSUME PassInv, SidesInv, [Next]_vars PROVE [Conditionals!Next]_(Conditionals!vars)
    OBVIOUS
  <2>1. CASE Stopped'
    BY <2>1, StopStep DEF Conditionals!Next
  <2>2. CASE ~Stopped'
    BY <2>2, RunStep, StaysStopped
  <2> QED
    BY <2>1, <2>2
<1> QED
  BY InitConditionals, <1>1, PassInvariant, AlwaysSided, PTL
  DEF Spec, ImplementsConditionalText, Conditionals!Spec

=============================================================================
