------------------------------ MODULE MCBuilds -------------------------------
(***************************************************************************)
(* From the compiled objects to a program, one component at a time: part   *)
(* says which of them is running, and the others have nothing to do.       *)
(* ObjectCompiler and DebugData are extended, so their names are used as   *)
(* they are.                                                               *)
(***************************************************************************)
EXTENDS MCObjectCompiler, DebugData

CONSTANTS ObjsLimit, VarLimit             \* Objects

VARIABLES part,
          files, built, work, layout      \* Objects, Layout

Img == INSTANCE MCObjects WITH program <- files

ASSUME DebugDataAssumptions

\* records of two to four bytes closed by zero, one of them longer than a record may be;
\* an inner zero is an argument byte of a command
Bytes == 0..2
Records == {<<1, 0>>, <<2, 0>>, <<1, 1, 0>>, <<2, 1, 2, 0>>, <<1, 2, 1, 0>>, <<1, 2, 2, 0>>, <<1, 1, 1, 1, 1, 0>>}

compiling == <<vars, defSymbols, call, stack, docs, debugRecords, childImages, indexMap, instances,
               subtreeManifests, subtreeDebugRecords, error>>
imaging   == <<files, built, work, layout>>

Parts == {"compiler", "images", "records"}
BuildsInit ==
  /\ part \in Parts
  /\ Init
  /\ IF part = "images" THEN Img!MCInit ELSE files = <<>> /\ Img!LayoutInit
  /\ TableInit
BuildsNext ==
  \/ part = "compiler" /\ Next /\ UNCHANGED <<part, imaging, tableVars>>
  \/ part = "images" /\ Img!LayoutNext /\ UNCHANGED <<part, compiling, tableVars>>
  \/ part = "records" /\ TableNext /\ UNCHANGED <<part, compiling, imaging>>
BuildsSpec == BuildsInit /\ [][BuildsNext]_<<part, compiling, imaging, tableVars>>
----------------------------------------------------------------------------
\* The first cached build and the next run the code that uncached ones would run, whatever was built
\* before and with what settings: every BRK code leads to the record of the debug() it was compiled
\* from, the table holds the records of skipped descendants and no others, and the map names the
\* same instances (compiler.ts:304-559, objectCache.ts:471).  A third build is another matter.
SecondBuildSame == builds <= 2 => SameMeaning /\ SameRecords /\ SameInstances

\* The objects that are reached from the table of an image are those of the source, however many were
\* merged and moved (objectDistiller.ts:139, 222); no two that are left are alike and none is out of
\* reach; the recorded breaks of an image are its breaks, those of its children too
\* (spinResolver.ts:5052); and a method of a child is called by the long at which it is (4895).
ImagesOfProgram ==
  part = "images" => Img!SameObjects /\ Img!NothingLeftToMerge /\ Img!ChildBreaksSited /\ Img!PubsIndexed

\* Every object that runs has variables of its own and together they fill what the program says it
\* needs (spinResolver.ts:5083); the layout names every declared object once, with those variables,
\* and the users of one image are of one code (objectLayout.ts:534).
LayoutOfProgram == part = "images" => Img!OwnVariables /\ Img!LayoutOfProgram
=============================================================================
