----------------------------- MODULE Preprocessor ---------------------------
(***************************************************************************)
(* SpinDocument.preProcess: the pass over the lines of one document that   *)
(* keeps or drops them by its #directives, and the documents that follow   *)
(* it in a compile with the symbols it exported.  One action is one line   *)
(* of the kind it is named for.  A line is read as text unless it starts a *)
(* comment or is a directive; `nest` and `inDoc` hold the state of block   *)
(* and document comments.  A brace count d of a line is what is left of    *)
(* its opening minus its closing braces.  Bounds: MaxLines lines in all    *)
(* documents, MaxNest braces open.                                         *)
(***************************************************************************)
EXTENDS Sequences, Integers

CONSTANTS
  Symbols,      (* symbols the files name                                  *)
  Builtins,     (* symbols preloadSymbolTable defines                      *)
  TextBuiltins, (* those of them that are also substituted in text         *)
  NoSymbol,     (* the symbol of a directive that names none               *)
  Undefs,       (* undefSymbols: the symbols given with -U                 *)
  MaxLines, MaxNest

ASSUME SymbolAssumption ==
  TextBuiltins \subseteq Builtins /\ Builtins \subseteq Symbols /\ NoSymbol \notin Symbols

ASSUME BoundAssumption == MaxLines \in Nat /\ MaxNest \in Nat

VARIABLES
  defSymbols,         (* shared by all documents: -D, and what is exported *)
  preProcSymbols,     (* symbols that exist                                *)
  preProcTextSymbols, (* symbols that are substituted in text              *)
  levels,             (* preProcNestingState, innermost last               *)
  nest,               (* nonDocNestCount; inNonDocComment is nest # 0      *)
  inDoc,              (* inDocComment                                      *)
  replaceCurrent,     (* the line whose commented form it holds, or 0      *)
  fate,               (* fate[n]: what became of raw line n                *)
  fatal,              (* hadFatalDiagnostic                                *)
  outcome,            (* "reading", "done", or "failed": it threw          *)
  linesRead,          (* lines of all documents, for the bound             *)
  balance             (* history: conditionals opened minus #endif lines   *)

table == <<preProcSymbols, preProcTextSymbols>>
comment == <<nest, inDoc>>
vars == <<defSymbols, table, levels, comment, replaceCurrent, fate, fatal, outcome, linesRead, balance>>

PreProcState ==
  [ifSideEmits : BOOLEAN, elseSideEmits : BOOLEAN, inIfSide : BOOLEAN,
   foundElse : BOOLEAN, skipThisIfDef : BOOLEAN]

ThisSideEmits(l) ==
  ~l.skipThisIfDef /\ (IF l.inIfSide THEN l.ifSideEmits ELSE l.elseSideEmits)

Top == levels[Len(levels)]

Below == SubSeq(levels, 1, Len(levels) - 1)

(* !inIfDef() or thisSideKeepsCode().                                      *)
KeepsCode(ls) == ls = <<>> \/ ThisSideEmits(ls[Len(ls)])

TypeOK ==
  /\ defSymbols \subseteq Symbols
  /\ preProcSymbols \subseteq Symbols /\ preProcTextSymbols \subseteq Symbols
  /\ levels \in Seq(PreProcState)
  /\ nest \in Int /\ inDoc \in BOOLEAN
  /\ replaceCurrent \in 0..Len(fate)
  /\ fate \in Seq([is : {"kept", "dropped", "none", "included"}, as : Nat])
  /\ fatal \in BOOLEAN
  /\ outcome \in {"reading", "done", "failed"}
  /\ linesRead \in Nat
  /\ balance \in Int

Init ==
  /\ defSymbols \in SUBSET Symbols
  /\ preProcSymbols = Builtins \cup defSymbols
  /\ preProcTextSymbols = TextBuiltins
  /\ levels = <<>>
  /\ nest = 0 /\ inDoc = FALSE
  /\ replaceCurrent = 0
  /\ fate = <<>>
  /\ fatal = FALSE
  /\ outcome = "reading"
  /\ linesRead = 0
  /\ balance = 0

-----------------------------------------------------------------------------
Kept(m) == [is |-> "kept", as |-> m]

Became(f) == [is |-> f, as |-> 0]

(* A slip: lines are numbered from 1 twice.                                *)
ThisOffByOne == Len(fate) + 2

This == Len(fate) + 1

(* The line is not inside a comment.                                       *)
Reads == outcome = "reading" /\ nest = 0 /\ ~inDoc

(* One more line is behind.                                                *)
Line(f) ==
  /\ linesRead < MaxLines
  /\ linesRead' = linesRead + 1
  /\ fate' = Append(fate, f)

(* A slip: replaceCurrent is not cleared after use.                        *)
EmitLineAgain(ls, rc, skip, force, is) ==
  LET out == ~skip /\ (KeepsCode(ls) \/ force)
  IN /\ replaceCurrent' = rc
     /\ Line(IF is # "text" THEN Became(is)
             ELSE IF out THEN Kept(IF rc = 0 THEN This ELSE rc)
             ELSE Became("dropped"))

(* The end of the loop body for every line: it goes out if the side that   *)
(* is open now (ls) keeps code or it is forced, as itself or as the        *)
(* commented form rc of a directive; rc is cleared when it was used and    *)
(* otherwise stays.  is is "text", "none" or "included".                   *)
EmitLine(ls, rc, skip, force, is) ==
  LET out == ~skip /\ (KeepsCode(ls) \/ force)
  IN /\ replaceCurrent' = IF out THEN 0 ELSE rc
     /\ Line(IF is # "text" THEN Became(is)
             ELSE IF out THEN Kept(IF rc = 0 THEN This ELSE rc)
             ELSE Became("dropped"))

(* A directive that leaves the conditionals alone.                         *)
Directive(is) ==
  /\ EmitLine(levels, This, FALSE, FALSE, is)
  /\ UNCHANGED <<levels, comment, balance>>

(* A diagnostic is shown and the pass goes on.                             *)
ReportFatal == fatal' = TRUE

(* A code or blank line, or an enumeration start such as #0.               *)
Text ==
  /\ Reads
  /\ EmitLine(levels, replaceCurrent, FALSE, FALSE, "text")
  /\ UNCHANGED <<defSymbols, table, levels, comment, fatal, outcome, balance>>

-----------------------------------------------------------------------------
(* Comments.                                                               *)

(* The braces of a line inside a block comment are counted.                *)
CountBraces(d) ==
  /\ nest + d \in -MaxNest..MaxNest
  /\ nest' = nest + d

(* A line that starts with an apostrophe, wherever it stands.              *)
Quote(d) ==
  /\ outcome = "reading"
  /\ IF nest # 0 THEN CountBraces(d) ELSE d = 0 /\ UNCHANGED nest
  /\ EmitLine(levels, replaceCurrent, FALSE, FALSE, "none")
  /\ UNCHANGED <<defSymbols, table, levels, inDoc, fatal, outcome, balance>>

(* Any other line of a block comment, the one that ends it included.       *)
InBlock(d) ==
  /\ outcome = "reading"
  /\ nest # 0
  /\ CountBraces(d)
  /\ EmitLine(levels, replaceCurrent, TRUE, FALSE, "none")
  /\ UNCHANGED <<defSymbols, table, levels, inDoc, fatal, outcome, balance>>

(* Any other line of a document comment.                                   *)
InDocument(closes) ==
  /\ outcome = "reading"
  /\ nest = 0 /\ inDoc
  /\ inDoc' = ~closes
  /\ EmitLine(levels, replaceCurrent, FALSE, FALSE, "none")
  /\ UNCHANGED <<defSymbols, table, levels, nest, fatal, outcome, balance>>

(* A line that starts with two braces.                                     *)
OpenDocument(closes) ==
  /\ Reads
  /\ inDoc' = ~closes
  /\ EmitLine(levels, replaceCurrent, FALSE, FALSE, "none")
  /\ UNCHANGED <<defSymbols, table, levels, nest, fatal, outcome, balance>>

(* A line that starts with one brace: the start of a block comment, or     *)
(* text, or nothing, behind a comment of one line.                         *)
OpenBlock(d, text) ==
  /\ Reads
  /\ nest' = d
  /\ EmitLine(levels, replaceCurrent, d # 0 \/ ~text, FALSE, IF d = 0 /\ text THEN "text" ELSE "none")
  /\ UNCHANGED <<defSymbols, table, levels, inDoc, fatal, outcome, balance>>

-----------------------------------------------------------------------------
(* Symbols.                                                                *)

(* defineSymbol: the first definition stays.                               *)
DefineSymbol(s) ==
  IF s \in preProcSymbols THEN UNCHANGED table
  ELSE /\ preProcSymbols' = preProcSymbols \cup {s}
       /\ preProcTextSymbols' = preProcTextSymbols \cup {s}

Define(s) ==
  /\ Reads
  /\ Directive("none")
  /\ IF KeepsCode(levels) THEN DefineSymbol(s) ELSE UNCHANGED table
  /\ UNCHANGED <<defSymbols, fatal, outcome>>

(* A slip: the text goes on being substituted.                             *)
UndefinePresence(s) ==
  IF s \in Builtins THEN UNCHANGED table
  ELSE /\ preProcSymbols' = preProcSymbols \ {s}
       /\ UNCHANGED preProcTextSymbols

(* undefineSymbol: a built-in symbol stays.                                *)
UndefineSymbol(s) ==
  IF s \in Builtins THEN UNCHANGED table
  ELSE /\ preProcSymbols' = preProcSymbols \ {s}
       /\ preProcTextSymbols' = preProcTextSymbols \ {s}

Undef(s) ==
  /\ Reads
  /\ IF KeepsCode(levels)
       THEN UndefineSymbol(s) /\ EmitLine(levels, This, FALSE, FALSE, "none")
       ELSE UNCHANGED table /\ EmitLine(levels, replaceCurrent, FALSE, FALSE, "none")
  /\ UNCHANGED <<defSymbols, levels, comment, fatal, outcome, balance>>

(* #pragma exportdef: the documents that follow see the symbol, this one   *)
(* does not.                                                               *)
ExportDef(s) ==
  /\ Reads
  /\ Directive("none")
  /\ defSymbols' =
       IF KeepsCode(levels) /\ s \notin Undefs THEN defSymbols \cup {s} ELSE defSymbols
  /\ UNCHANGED <<table, fatal, outcome>>

-----------------------------------------------------------------------------
(* Conditionals.                                                           *)

(* A slip: a condition that holds opens a conditional that was closed.     *)
SetIfEmitsReopening(l, s, wanted) ==
  IF s = NoSymbol THEN l
  ELSE LET holds == (s \in preProcSymbols) = wanted
       IN [l EXCEPT !.ifSideEmits = holds, !.elseSideEmits = ~holds, !.skipThisIfDef = FALSE]

(* setIfEmits for a directive that asks whether s is defined (wanted) or   *)
(* not; a directive without a symbol leaves both sides as they are.        *)
SetIfEmits(l, s, wanted) ==
  IF s = NoSymbol THEN l
  ELSE LET holds == (s \in preProcSymbols) = wanted
       IN [l EXCEPT !.ifSideEmits = holds, !.elseSideEmits = ~holds]

(* A slip: a conditional forgets that it stands in a dropped branch.       *)
EnterIfAfresh(skip) ==
  [ifSideEmits |-> FALSE, elseSideEmits |-> FALSE, inIfSide |-> TRUE,
   foundElse |-> FALSE, skipThisIfDef |-> FALSE]

EnterIf(skip) ==
  [ifSideEmits |-> FALSE, elseSideEmits |-> FALSE, inIfSide |-> TRUE,
   foundElse |-> FALSE, skipThisIfDef |-> skip]

(* #ifdef (wanted) and #ifndef.  An #ifdef goes out even when dropped.     *)
If(s, wanted) ==
  /\ Reads
  /\ levels' = Append(levels, SetIfEmits(EnterIf(~KeepsCode(levels)), s, wanted))
  /\ EmitLine(levels', This, FALSE, wanted /\ s # NoSymbol, "none")
  /\ fatal' = (fatal \/ s = NoSymbol)
  /\ balance' = balance + 1
  /\ UNCHANGED <<defSymbols, table, comment, outcome>>

(* #elseifdef (wanted) and #elseifndef: a branch behind one that was taken *)
(* closes the conditional for good.                                        *)
ElseIf(s, wanted) ==
  /\ Reads
  /\ IF levels = <<>>
       THEN ReportFatal /\ UNCHANGED levels
       ELSE /\ levels' = Append(Below, SetIfEmits(
                 [Top EXCEPT !.inIfSide = TRUE, !.skipThisIfDef = @ \/ KeepsCode(levels)], s, wanted))
            /\ fatal' = (fatal \/ s = NoSymbol)
  /\ EmitLine(levels', This, FALSE, wanted /\ s # NoSymbol /\ levels # <<>>, "none")
  /\ UNCHANGED <<defSymbols, table, comment, outcome, balance>>

Else ==
  /\ Reads
  /\ IF levels = <<>>
       THEN ReportFatal /\ UNCHANGED levels
       ELSE /\ levels' = Append(Below, [Top EXCEPT !.inIfSide = FALSE, !.foundElse = TRUE])
            /\ UNCHANGED fatal
  /\ EmitLine(levels', This, FALSE, FALSE, "none")
  /\ UNCHANGED <<defSymbols, table, comment, outcome, balance>>

(* A slip: an #endif without a conditional goes unnoticed.                 *)
EndifUnnoticed ==
  /\ Reads
  /\ levels' = IF levels = <<>> THEN levels ELSE Below
  /\ EmitLine(levels', This, FALSE, FALSE, "none")
  /\ balance' = balance - 1
  /\ UNCHANGED <<defSymbols, table, comment, fatal, outcome>>

Endif ==
  /\ Reads
  /\ IF levels = <<>>
       THEN ReportFatal /\ UNCHANGED levels
       ELSE levels' = Below /\ UNCHANGED fatal
  /\ EmitLine(levels', This, FALSE, FALSE, "none")
  /\ balance' = balance - 1
  /\ UNCHANGED <<defSymbols, table, comment, outcome>>

-----------------------------------------------------------------------------
(* Stops, warnings, files and mistakes.                                    *)

(* #error stops the pass at once where it is in force.                     *)
Error ==
  /\ Reads
  /\ IF KeepsCode(levels)
       THEN /\ ReportFatal
            /\ outcome' = "failed"
            /\ replaceCurrent' = This
            /\ Line(Became("none"))
            /\ UNCHANGED <<levels, comment, balance>>
       ELSE Directive("none") /\ UNCHANGED <<fatal, outcome>>
  /\ UNCHANGED <<defSymbols, table>>

Warn ==
  /\ Reads
  /\ Directive("none")
  /\ UNCHANGED <<defSymbols, table, fatal, outcome>>

(* What the pass over an included file, a document of its own, exports.    *)
ExportsOfIncluded ==
  \E new \in SUBSET (Symbols \ Undefs) : defSymbols' = defSymbols \cup new

(* #include of a file that is there: its kept lines go in.                 *)
Include ==
  /\ Reads
  /\ Directive("included")
  /\ ExportsOfIncluded
  /\ UNCHANGED <<table, fatal, outcome>>

(* #include of a file whose own pass throws.                               *)
IncludeThrows ==
  /\ Reads
  /\ outcome' = "failed"
  /\ replaceCurrent' = This
  /\ Line(Became("none"))
  /\ ExportsOfIncluded
  /\ UNCHANGED <<table, levels, comment, fatal, balance>>

(* A directive that is wrong in itself: no symbol, no argument, a macro    *)
(* with arguments, #if, an unknown pragma, a file that is not found.       *)
Malformed ==
  /\ Reads
  /\ Directive("none")
  /\ ReportFatal
  /\ UNCHANGED <<defSymbols, table, outcome>>

(* A # that starts neither a directive nor an enumeration.                 *)
Unknown ==
  /\ Reads
  /\ ReportFatal
  /\ EmitLine(levels, replaceCurrent, TRUE, FALSE, "none")
  /\ UNCHANGED <<defSymbols, table, levels, comment, outcome, balance>>

(* The end of the file: what is wrong is known now, a version in the       *)
(* header that is not one (badVersion) and an open conditional included.   *)
EndOfFile(badVersion) ==
  /\ outcome = "reading" /\ fate # <<>>
  /\ fatal' = (fatal \/ badVersion \/ levels # <<>>)
  /\ outcome' = IF fatal' THEN "failed" ELSE "done"
  /\ UNCHANGED <<defSymbols, table, levels, comment, replaceCurrent, fate, linesRead, balance>>

(* The constructor, for the next document of the compile.                  *)
NextDocument ==
  /\ outcome = "done" /\ linesRead < MaxLines
  /\ outcome' = "reading"
  /\ preProcSymbols' = Builtins \cup defSymbols
  /\ preProcTextSymbols' = TextBuiltins
  /\ levels' = <<>> /\ balance' = 0
  /\ nest' = 0 /\ inDoc' = FALSE
  /\ replaceCurrent' = 0 /\ fate' = <<>> /\ fatal' = FALSE
  /\ UNCHANGED <<defSymbols, linesRead>>

Conditional ==
  \/ \E s \in Symbols \cup {NoSymbol}, wanted \in BOOLEAN : If(s, wanted) \/ ElseIf(s, wanted)
  \/ Else \/ Endif

Comment ==
  \/ \E d \in -MaxNest..MaxNest : Quote(d) \/ InBlock(d) \/ OpenBlock(d, FALSE)
  \/ OpenBlock(0, TRUE)
  \/ \E closes \in BOOLEAN : InDocument(closes) \/ OpenDocument(closes)

Next ==
  \/ Text \/ Comment \/ Conditional
  \/ \E s \in Symbols : Define(s) \/ Undef(s) \/ ExportDef(s)
  \/ Error \/ Warn \/ Include \/ IncludeThrows \/ Malformed \/ Unknown
  \/ \E badVersion \in BOOLEAN : EndOfFile(badVersion)
  \/ NextDocument

Spec == Init /\ [][Next]_vars

-----------------------------------------------------------------------------
(* Properties.                                                             *)

(* The code looks at the innermost conditional only (thisSideKeepsCode):   *)
(* when that one is in a branch that emits, so are all around it.          *)
EmittingIsNested ==
  \A i \in 1..Len(levels) :
    ThisSideEmits(levels[i]) => \A j \in 1..i : ThisSideEmits(levels[j])

(* replaceCurrent outlives the line that set it when that line is dropped: *)
(* a later line of text never goes out as that directive's comment.        *)
EmittedAsWritten ==
  \A n \in 1..Len(fate) : fate[n].is = "kept" => fate[n].as = n

(* #undef removes from two tables: a symbol that is substituted in text is *)
(* one that #ifdef finds.                                                  *)
SubstitutedIsDefined == preProcTextSymbols \subseteq preProcSymbols

(* A document is only delivered if every conditional in it was closed and  *)
(* every #endif closed one.                                                *)
DoneIsBalanced == outcome = "done" => balance = 0

(* Preprocessor.md says directives of a branch that is not taken do        *)
(* nothing: a file is included only where code is kept.                    *)
IncludedOnlyWhenTaken ==
  [][fate' # fate /\ fate' # <<>> /\ fate'[Len(fate')].is = "included" => KeepsCode(levels)]_vars

(* A level as ConditionalText sees it.                                     *)
State(l) ==
  IF ThisSideEmits(l) THEN "taken"
  ELSE IF l.skipThisIfDef \/ l.foundElse THEN "closed"
  ELSE "seeking"

Stopped == fatal \/ outcome = "failed"

View(ls) == [i \in 1..Len(ls) |-> [state |-> State(ls[i]), sawElse |-> ls[i].foundElse]]

(* The pass as ConditionalText sees it; nothing of it once it is stopped.  *)
ViewLevels   == IF Stopped THEN <<>> ELSE View(levels)
ViewDefined  == IF Stopped THEN {} ELSE preProcSymbols
ViewExported == IF Stopped THEN {} ELSE defSymbols
ViewFate     == IF Stopped THEN <<>> ELSE fate
ViewOutcome  == IF Stopped THEN "failed" ELSE outcome

Conditionals == INSTANCE ConditionalText WITH
  Private <- Undefs, levels <- ViewLevels, defined <- ViewDefined,
  exported <- ViewExported, fate <- ViewFate, outcome <- ViewOutcome

(* Over any sequence of lines the pass keeps the text a declarative        *)
(* reading of the conditionals keeps, with the symbols of that reading,    *)
(* and itself exports no symbol from a branch that is not taken; against   *)
(* -U no symbol is exported.                                               *)
ImplementsConditionalText == Conditionals!Spec

=============================================================================
