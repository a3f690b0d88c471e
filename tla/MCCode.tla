------------------------------- MODULE MCCode --------------------------------
(***************************************************************************)
(* What the resolver makes of the code of an object, one construct at a    *)
(* time: part says which of the components is running, and the others have *)
(* nothing to do.  Each component has its inputs from its own MC module;   *)
(* Varints is extended, so its names are used as they are.                 *)
(***************************************************************************)
EXTENDS Integers, Sequences, FiniteSets, Varints, Assembler

CONSTANTS
  IfLimit, CaseLimit, CaseFastLimit, Start, VarBytes, PassBound,     \* Blocks
  ExpBits, ManBits,                                                  \* Expressions
  Capacity, StructsHubLimit,                                         \* Structures
  SubResults, ParamsLimit, ResultsLimit, StringLimit,                \* Calls
  MethodParamsLimit                                                  \* DebugStatements

VARIABLES
  part,
  method, image, pc, stack, line,              \* Blocks
  elements, uses, mathMode, results, trees,    \* Expressions
  declarations, structs, statements, compiled, \* Variables
  lines, emitted, said,                        \* Calls
  debug, entered, written                      \* DebugStatements

B == INSTANCE MCBlocks WITH lines <- method
E == INSTANCE MCExpressions
V == INSTANCE MCVariables WITH uses <- statements, HubLimit <- StructsHubLimit
C == INSTANCE MCCalls
A == INSTANCE MCAssembler
D == INSTANCE MCDebugStatements
\* the numbers at and around every power of two that a byte more or less depends on
AroundPowers == {s * (2 ^ b) + d : s \in {-1, 1}, b \in {0, 5, 6, 7, 12, 13, 14, 19, 20, 21, 27, 28, 29}, d \in -2..2}

ASSUME B!BlocksAssumption /\ E!FloatsAssumption /\ C!CallsAssumption /\ D!DebugStatementsAssumption

blocks      == <<method, image, pc, stack, line>>
expressions == <<elements, uses, mathMode, results, trees>>
variables   == <<declarations, structs, statements, compiled>>
calls       == <<lines, emitted, said>>
debugging   == <<debug, entered, written>>
vars == <<part, blocks, expressions, variables, calls, assembling, debugging, number>>

Nothing == [at |-> "nothing"]
Parts == {"blocks", "expressions", "variables", "calls", "assembly", "debugging", "numbers"}
Init ==
  /\ part \in Parts
  /\ IF part = "blocks" THEN B!Init ELSE method = <<>> /\ B!Idle
  /\ IF part = "expressions" THEN E!ExpressionsInit ELSE E!Unused
  /\ IF part = "variables" THEN V!Fresh ELSE V!Unused
  /\ IF part = "calls" THEN C!MCInit ELSE lines = <<>> /\ emitted = <<>> /\ said = Nothing
  /\ IF part = "assembly" THEN A!MCInit ELSE A!NoProgram
  /\ IF part = "debugging" THEN D!MCInit ELSE debug = Nothing /\ entered = Nothing /\ written = Nothing
  /\ NumbersInit
Next ==
  /\ UNCHANGED part
  /\ \/ /\ part = "blocks" /\ B!Next
        /\ UNCHANGED <<expressions, variables, calls, assembling, debugging, number>>
     \/ /\ part = "expressions" /\ E!ExpressionsNext
        /\ UNCHANGED <<blocks, variables, calls, assembling, debugging, number>>
     \/ /\ part = "variables" /\ V!Next
        /\ UNCHANGED <<blocks, expressions, calls, assembling, debugging, number>>
     \/ /\ part = "calls" /\ C!MCNext
        /\ UNCHANGED <<blocks, expressions, variables, assembling, debugging, number>>
     \/ /\ part = "assembly" /\ AssemblerNext
        /\ UNCHANGED <<blocks, expressions, variables, calls, debugging, number>>
     \/ /\ part = "debugging" /\ D!MCNext
        /\ UNCHANGED <<blocks, expressions, variables, calls, assembling, number>>
     \/ /\ part = "numbers" /\ NumbersNext
        /\ UNCHANGED <<blocks, expressions, variables, calls, assembling, debugging>>
Spec == Init /\ [][Next]_vars
----------------------------------------------------------------------------
\* Wherever a running method is, it is at an instruction: a branch, the table of a CASE_FAST or
\* an address on the stack that is off by one byte would run an operand as bytecode
\* (spinResolver.ts:7788, 4237).  Whatever path led there, the stack holds what the blocks around
\* the line put on it, so NEXT and QUIT drop no more and no less (6159).  Each value of a
\* CASE_FAST selects the first line of the alternative that lists it (4187), and exactly the
\* methods with a misplaced exit, match or ELSEIF are refused: no block is compiled for ever (7807).
BlocksStayWhole ==
  part = "blocks" => B!OnInstruction /\ B!StackLevel /\ B!TableSelects /\ B!RefusesExactly

\* The compiled method runs its lines in an order that the indented source allows, and every step
\* it takes is one of the source's (blockStack.ts:60, spinResolver.ts:3793-4310).
BlocksFollowSource == (part = "blocks" => B!Flow!Init) /\ [][B!Flow!Next]_<<method, line>>

\* The bytecode of an expression leaves one long on the stack, the value of the source expression,
\* folded or not, unless a constant of another block left the compiler in floating-point mode
\* (spinResolver.ts:5728, 8561).  A constant expression becomes one instruction, nothing else
\* does, and the next element is left alone however often the compiler went back (8529, 11301).
\* A constant keeps its 32 bits in the shortest instruction that holds them (8460, 8491), and a
\* constant expression is refused just when it mixes integers and floats (8711, 11093).
ExpressionsKeepMeaning ==
  part = "expressions" => E!RunsToValue /\ E!FoldsWholeExpression /\ E!ResolvesTyped /\ E!ConstantSurvives

\* The bytecode of a variable reads, writes or changes exactly the bytes and bits that its elements
\* denote in the declared layout, whichever short form the compiler chose for it; the walk that only
\* looked (spinResolver.ts:9896) and the walk that emits (9294) end at the same element.  A ++ or
\* -- on a pointer moves it by the size of what it points to (9967, 9994).  Every expression of a
\* use is evaluated once however often its elements were walked over (10960).  The structure
\* operations hand the hub routine the addresses and the common size of the two structures (10344,
\* 10365, 10385) and refuse structures of two sizes, and OFFSETOF gives the offset of the declared
\* layout, through nested structures and arrays (3443).
VariablesReached ==
  part = "variables" =>
    V!AddressesDenoted /\ V!PointersStep /\ V!EvaluatesOnce /\ V!WholeStructures /\ V!OffsetsLaidOut

\* Every method, built-in instruction and task is called with exactly the arguments between its
\* parentheses, in their order, also when one of them is a call with several results or a whole
\* structure (spinResolver.ts:7521, 8148, 8203).  What is compiled for trial and for good, or left
\* and come back to, is evaluated once (7343, 7891, 8319).  Variables receive the values at their
\* place in a list though they are popped from the last to the first (6005), and SEND hands over
\* its parameters in their order, as a run of bytes or one by one (6267).  An instruction leaves the
\* stack as it was, also where "_" and "_[n]" take nothing, and a lookup jumps behind its last value
\* (6020).  A line is refused exactly when the number of values it hands over is not the number that
\* is taken: parameters, results, operands, pins of one port (7511, 8327).
CallsDeliver ==
  part = "calls" =>
    C!ArgumentsDelivered /\ C!EvaluatedOnce /\ C!AssignedInTurn /\ C!SentInOrder /\ C!StackKept /\ C!CountsRefused

\* A relative branch of every form goes to the label that is written in it and a REP block ends in
\* front of its label, whatever prefixes stand between (spinResolver.ts:2203, 2432).  A name is
\* undefined only if no label of it is in its scope, and a constant reaches the processor whole: what
\* its field cannot hold is in the prefix, which runs under the same condition and never returns.
\* The data are those that are listed, a DITTO block as often as its count says (1726).
AssembledAsWritten ==
  part = "assembly" => A!BranchesReach /\ A!LabelsFound /\ A!OperandsWhole /\ A!AsListed

\* The debugger displays what a DEBUG statement says: every string, character and value with its
\* own name and command, in the order of the statement, with a comma in front of a value exactly
\* when a value was displayed before it (spinResolver.ts:6809, 6905).  It takes from the stack one
\* long for each value that the bytecode pushed there (6649), and a statement is refused exactly
\* when its values do not fit (6745, 6661).
DebugShows == part = "debugging" => D!ShownAsWritten /\ D!ValuesTaken /\ D!RefusedRightly
=============================================================================
