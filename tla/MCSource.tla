------------------------------ MODULE MCSource -------------------------------
(***************************************************************************)
(* From the lines of a source to the symbols of an object, one component   *)
(* at a time: part says which of them is running, and the others have      *)
(* nothing to do.  Their inputs are those of the other MC modules; the     *)
(* Preprocessor, Constants and Declarations are extended, so their names   *)
(* are used as they are.                                                   *)
(***************************************************************************)
EXTENDS Preprocessor, Constants, Declarations, TLC

CONSTANTS
  SymbolLimit, MaxConstant, MaxExponent,                              \* Elementizer
  ExpBits, ManBits                                                    \* Operators

VARIABLES
  part,
  text, lex,                                                          \* Elementizer
  task, folded                                                        \* Operators

Lex == INSTANCE MCElementizer
Dec == INSTANCE MCDeclarations
Ops == INSTANCE MCOperators

ASSUME Ops!FloatsAssumption

preprocessing == vars
lexing     == <<text, lex>>
folding    == <<task, folded>>
sourceVars == <<part, preprocessing, lexing, constants, declVars, folding>>

MCLongBits == 4
MCImported == ("obj" :> 3)
Nothing == [at |-> "nothing"]
Parts == {"preprocessing", "elements", "constants", "declarations", "operators"}
SourceInit ==
  /\ part \in Parts
  /\ Init /\ (part # "preprocessing" => defSymbols = {})
  /\ IF part = "elements" THEN Lex!MCInit ELSE text = <<>> /\ lex = [in |-> "done"]
  /\ IF part = "constants" THEN Dec!ConsInit ELSE items = <<>> /\ overrides = <<>> /\ ConstantsInit
  /\ IF part = "declarations" THEN Dec!BlocksInit ELSE blocks = <<>> /\ DeclarationsInit
  /\ IF part = "operators" THEN Ops!OperatorsInit ELSE task = Nothing /\ Ops!NothingFolded
LexNext == part = "elements" /\ Lex!Next /\ UNCHANGED <<part, preprocessing, constants, declVars, folding>>
SourceNext ==
  \/ part = "preprocessing" /\ Next /\ UNCHANGED <<part, lexing, constants, declVars, folding>>
  \/ LexNext
  \/ part = "constants" /\ ConstantsNext /\ UNCHANGED <<part, preprocessing, lexing, declVars, folding>>
  \/ part = "declarations" /\ DeclarationsNext /\ UNCHANGED <<part, preprocessing, lexing, constants, folding>>
  \/ part = "operators" /\ Ops!FoldNext /\ UNCHANGED <<part, preprocessing, lexing, constants, declVars>>
SourceSpec == SourceInit /\ [][SourceNext]_sourceVars /\ WF_lexing(LexNext)
----------------------------------------------------------------------------
\* Once it stops, the elementizer has returned the elements of the text and the lines they stand on,
\* with nothing of a comment in them and nothing lost behind one, or refused a text that means
\* nothing: a comment or string that is not closed, a closing brace, a name too long, a constant too
\* large, a character that begins nothing (spinElementizer.ts:145-480, 1017).
ElementsAsWritten == part = "elements" => Lex!ReadsAsWritten

\* The elementizer reaches the end of every text whose continuations have a line behind them,
\* however its comments and lines end (spinElementizer.ts:198).
TextEnds == Lex!TextEnds

\* A folded operator gives the value its operands have as two's complement numbers, at the least and
\* the greatest number and at every shift (spinResolver.ts:11336).  Floats are ordered as the numbers
\* they stand for, although by the sign of a rounded difference (pnutFloat.ts:295, 313); no float
\* lies between a folded sum, product, quotient or root and the exact one (208, 247, 257); and
\* only what does not fit overflows a conversion (488, 510).  The constants of an object have the
\* values that their declarations mean, whatever their order (598).
FoldsToMeaning ==
  /\ part = "operators" => Ops!FoldsToMeaning /\ Ops!OrdersFloats /\ Ops!RoundsFaithfully /\ Ops!ConvertsExactly
  /\ part = "constants" => Dec!HaveMeanings
=============================================================================
