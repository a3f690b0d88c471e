--------------------------- MODULE ObjectCompiler ---------------------------
(***************************************************************************)
(* compileRecursively of compiler.ts with its object cache, over several   *)
(* builds that share one cache directory.  A build walks the OBJ blocks    *)
(* depth first; for every object it either compiles it and stores what a   *)
(* later build must be told, or takes an entry and replays it.             *)
(*                                                                         *)
(* Every program is built twice here, first without and then with the      *)
(* cache, so that the properties can say what the cache promises: the      *)
(* second build is like the first.                                         *)
(*                                                                         *)
(* An object's source is what the walk sees of it: its debug() calls, its  *)
(* OBJ lines, the symbols it exports, the files it embeds and includes.    *)
(* A binary is a sequence of cells: one of code, identified by all that    *)
(* decides its bytes, and one per debug() call, the BRK code, which is an  *)
(* index into the record table of the build.  The two-pass compile, the    *)
(* distiller and the layout within the code cell are not looked into; an   *)
(* entry is stored in one step (CacheStore looks into that).               *)
(***************************************************************************)
EXTENDS Naturals, SequencesExt, FiniteSetsExt, Functions

CONSTANTS
  Obj,              (* Spin2 files                                        *)
  Top,              (* ... that are compiled as programs                  *)
  Aux,              (* files that are embedded (DAT FILE) or included     *)
  Version,          (* contents a file may have                           *)
  FirstVersion,     (* ... and has before the first edit                  *)
  Source,           (* Source[o][v]: what file o says in version v        *)
  Debug,            (* the settings of -d that builds use                 *)
  OBJ_STACK_LIMIT,
  MaxBuilds,        (* bound: programs built                              *)
  MaxEdits,         (* bound: files changed between builds                *)
  NoRecord,         (* what getRecordBytes finds in an unused slot        *)
  None

File == Obj \cup Aux

(* A line of source is kept when the symbols it is conditional on are      *)
(* defined.  calls and kids are such lines in order.                       *)
ASSUME CompilerAssumptions ==
  /\ Top \subseteq Obj
  /\ Debug \subseteq BOOLEAN
  /\ FirstVersion \in Version
  /\ \A t \in Top, d \in Debug : [top |-> t, debug |-> d] # None
  /\ OBJ_STACK_LIMIT \in Nat /\ MaxBuilds \in Nat /\ MaxEdits \in Nat
  /\ \A o \in Obj, v \in Version :
       LET s == Source[o][v]
       IN  /\ s.kids \in Seq(Range(s.kids)) /\ s.calls \in Seq(Range(s.calls))
           /\ \A i \in DOMAIN s.kids : s.kids[i].obj \in Obj
           /\ \A i \in DOMAIN s.calls : s.calls[i].rec # NoRecord
           /\ s.embeds \cup s.includes \subseteq Aux

VARIABLES
  disk,         (* disk[f]: the version of file f                         *)
  cache,        (* the entries by key                                     *)
  program,      (* the program being built: its top file and the -d flag  *)
  caching,      (* whether this build of it uses the cache                *)
  call,         (* the object compileRecursively is called for, or None   *)
  stack,        (* its activations, the innermost last                    *)
  docs,         (* documents loaded in this build, preprocessed           *)
  defSymbols,
  debugRecords, (* debugRawData, by index                                 *)
  childImages,  (* stored images and the BRK sites in them                *)
  indexMap,     (* globalChildObjectIndexMap: logical to physical index   *)
  instances,    (* recordedInstances                                      *)
  subtreeManifests, subtreeDebugRecords,
  error,
  uncached,     (* what the build without the cache came to               *)
  outcome,      (* what the last build with it came to, None before       *)
  builds, edits

build == <<call, stack, docs, defSymbols, debugRecords, childImages, indexMap,
           instances, subtreeManifests, subtreeDebugRecords, error>>
vars == <<disk, cache, program, caching, build, uncached, outcome, builds, edits>>

-----------------------------------------------------------------------------
(* Preprocessing.                                                          *)

(* The numbers of a finite set in ascending order: the i-th has i - 1      *)
(* others below it.                                                        *)
Ascending(S) ==
  [i \in 1..Cardinality(S) |-> CHOOSE x \in S : Cardinality({y \in S : y < x}) = i - 1]

(* The lines of a source that the defined symbols leave in.                *)
Kept(lines, defs) ==
  LET left == Ascending({i \in DOMAIN lines : lines[i].when \subseteq defs})
  IN  [i \in DOMAIN left |-> lines[left[i]]]

(* A preprocessed document: the included text is part of it, the embedded  *)
(* files are only named.                                                   *)
Text(o, defs) ==
  LET s == Source[o][disk[o]]
  IN  [file     |-> o,
       version  |-> disk[o],
       included |-> [f \in s.includes |-> disk[f]],
       calls    |-> Kept(s.calls, defs),
       kids     |-> Kept(s.kids, defs)]

(* #pragma exportdef pushes a symbol that is not defined yet.              *)
Exported(o) ==
  LET fresh == SelectSeq(Source[o][disk[o]].exports, LAMBDA x : x \notin Range(defSymbols))
  IN  defSymbols \o fresh

(* A document is made once per build; a later use finds it as it is.       *)
Load(o) ==
  IF o \in DOMAIN docs
  THEN UNCHANGED <<docs, defSymbols>>
  ELSE /\ docs' = [f \in DOMAIN docs \cup {o} |-> IF f = o THEN Text(o, Range(defSymbols)) ELSE docs[f]]
       /\ defSymbols' = Exported(o)

-----------------------------------------------------------------------------
(* Debug records.                                                          *)

Slot(table, r) ==
  IF r = NoRecord /\ table # << >> THEN 1 ELSE SelectInSeq(table, LAMBDA x : x = r)

Inject(table, r) == IF Slot(table, r) # 0 THEN table ELSE Append(table, r)

InjectAll(table, recs) == FoldLeft(Inject, table, recs)

RecordAt(table, i) == IF i \in DOMAIN table THEN table[i] ELSE NoRecord

-----------------------------------------------------------------------------
(* Binaries.                                                               *)

Code(text, ov) ==
  [text |-> text, ov |-> ov,
   embedded |-> [f \in Source[text.file][text.version].embeds |-> disk[f]]]

(* Cells are pairs; a code cell has no BRK code.                           *)
CodeCell(c) == [code |-> c, brk |-> 0]
BrkCell(i)  == [code |-> None, brk |-> i]

(* An image's checksum holds unless a patch changed bytes and did not      *)
(* renew it; only the cells travel on into the declaring parent.           *)
Joined(acc, k) ==
  [cells |-> acc.cells \o k.cells,
   sites |-> acc.sites \o [i \in DOMAIN k.sites |->
               [at |-> k.sites[i].at + Len(acc.cells), orig |-> k.sites[i].orig]]]

Splice(kids) == FoldLeft(Joined, [cells |-> << >>, sites |-> << >>], kids)

(* compile2: the object's own cells, then the images of its children.      *)
Emit(text, ov, debug, table, kids) ==
  LET calls == IF debug THEN [i \in DOMAIN text.calls |-> text.calls[i].rec] ELSE << >>
      codes == [i \in DOMAIN calls |-> Slot(table, calls[i])]
      own   == [cells |-> <<CodeCell(Code(text, ov))>> \o [i \in DOMAIN codes |-> BrkCell(codes[i])],
                sites |-> [i \in DOMAIN codes |-> [at |-> i + 1, orig |-> codes[i]]],
                sumOk |-> TRUE]
      all   == Splice(<<own>> \o kids)
  IN  [cells |-> all.cells, sites |-> all.sites, sumOk |-> TRUE]

(* Hit: every site gets the index its record has in this build.            *)
Patch(cells, sites, remap) ==
  [c \in DOMAIN cells |->
     IF \E i \in DOMAIN sites : sites[i].at = c
     THEN BrkCell(remap[(CHOOSE s \in Range(sites) : s.at = c).orig])
     ELSE cells[c]]

(* findDuplicateChild compares bytes; a new image is appended.             *)
Duplicates(img) ==
  {i \in DOMAIN childImages : childImages[i].cells = img.cells /\ childImages[i].sumOk = img.sumOk}

(* A slip: the index of the image before the new one.                      *)
PlaceBefore(img) ==
  LET dups == Duplicates(img)
  IN  /\ childImages' = IF dups = {} THEN Append(childImages, img) ELSE childImages
      /\ indexMap' = Append(indexMap, IF dups = {} THEN Len(childImages) ELSE Min(dups))

Place(img) ==
  LET dups == Duplicates(img)
  IN  /\ childImages' = IF dups = {} THEN Append(childImages, img) ELSE childImages
      /\ indexMap' = Append(indexMap, IF dups = {} THEN Len(childImages) + 1 ELSE Min(dups))

-----------------------------------------------------------------------------
(* The activation on top of the stack.                                     *)

frame == Last(stack)

(* Everything pushed onto a shared accumulator since a mark.               *)
Since(acc, mark) == SubSeq(acc, mark + 1, Len(acc))

(* A slip: what is folded in is left on the accumulator.                   *)
KeptWhole(acc, mark) == acc

(* What an accumulator keeps when that is spliced off.                     *)
Before(acc, mark) == SubSeq(acc, 1, mark)

(* A slip: the key of before overrides were part of it.                    *)
KeyWithoutOverrides(text, ov) ==
  [text |-> text, ov |-> None, defs |-> Range(defSymbols), debug |-> program.debug]

(* computeKey: the object's own text, the overrides, the defined symbols   *)
(* and -d; nothing of what is below the object.                            *)
Key(text, ov) ==
  [text |-> text, ov |-> ov, defs |-> Range(defSymbols), debug |-> program.debug]

(* isEntryValid: every file of the manifest is as it was.                  *)
Valid(e) == \A m \in e.manifest : disk[m[1]] = m[2]

CalledText == docs[call.obj]
CalledKey  == Key(CalledText, call.ov)

(* Only child objects are looked up.                                       *)
IsHit ==
  /\ caching /\ stack # << >>
  /\ CalledKey \in DOMAIN cache
  /\ Valid(cache[CalledKey])

(* compileRecursively returns to the declaring object, which notes the     *)
(* logical index of the child.                                             *)
Return(below) ==
  stack' = IF below = << >> THEN below
           ELSE [below EXCEPT ![Len(below)].logical = Append(@, Len(indexMap'))]

Stop(msg) ==
  /\ error' = msg
  /\ call' = None
  /\ UNCHANGED <<disk, cache, program, caching, stack, docs, defSymbols, debugRecords,
                 childImages, indexMap, instances, subtreeManifests, subtreeDebugRecords,
                 uncached, outcome, builds, edits>>

-----------------------------------------------------------------------------

Init ==
  /\ disk = [f \in File |-> FirstVersion]
  /\ cache = [k \in {} |-> None]
  /\ program = None /\ caching = FALSE
  /\ uncached = None /\ outcome = None
  /\ builds = 0 /\ edits = 0
  /\ stack = << >> /\ call = None /\ error = ""
  /\ docs = [f \in {} |-> None] /\ defSymbols = << >> /\ debugRecords = << >>
  /\ childImages = << >> /\ indexMap = << >> /\ instances = << >>
  /\ subtreeManifests = << >> /\ subtreeDebugRecords = << >>

(* Nothing is left of a build that is over, or about to begin.             *)
Reset ==
  /\ stack' = << >> /\ error' = "" /\ debugRecords' = << >>
  /\ childImages' = << >> /\ indexMap' = << >> /\ instances' = << >>
  /\ subtreeManifests' = << >> /\ subtreeDebugRecords' = << >>

(* A process starts: the top file is preprocessed and compiled at depth 0. *)
Fresh(t) ==
  /\ docs' = [f \in {t} |-> Text(t, {})]
  /\ defSymbols' = Source[t][disk[t]].exports
  /\ call' = [obj |-> t, ov |-> None, inst |-> 0]
  /\ Reset

Begin(t, d) ==
  /\ program = None
  /\ builds < MaxBuilds
  /\ builds' = builds + 1
  /\ program' = [top |-> t, debug |-> d]
  /\ caching' = FALSE
  /\ outcome' = None
  /\ Fresh(t)
  /\ UNCHANGED <<disk, cache, uncached, edits>>

NestingExceeded ==
  /\ call # None
  /\ Len(stack) > OBJ_STACK_LIMIT
  /\ Stop("nesting")

(* A miss, or an object that is not looked up: an activation begins, which *)
(* marks where its subtree's contributions to the accumulators start.      *)
Enter ==
  /\ call # None
  /\ Len(stack) <= OBJ_STACK_LIMIT
  /\ ~IsHit
  /\ stack' = Append(stack,
       [obj |-> call.obj, ov |-> call.ov, text |-> CalledText, key |-> CalledKey,
        inst |-> call.inst, logical |-> << >>,
        defsMark |-> Len(defSymbols), countMark |-> Len(debugRecords),
        manifestMark |-> Len(subtreeManifests), recordMark |-> Len(subtreeDebugRecords),
        instanceMark |-> Len(instances)])
  /\ call' = None
  /\ UNCHANGED <<disk, cache, program, caching, docs, defSymbols, debugRecords, childImages,
                 indexMap, instances, subtreeManifests, subtreeDebugRecords, error,
                 uncached, outcome, builds, edits>>

(* The instances an entry records, under the declaration being compiled.   *)
Replanted(e) ==
  LET base == Len(instances)
  IN  [i \in DOMAIN e.instances |->
         [e.instances[i] EXCEPT !.parent = IF @ = 0 THEN call.inst ELSE base + @]]

(* The records of an entry, under the indices they have in this build.     *)
Rebased(e, table) ==
  [i \in DOMAIN e.records |-> [orig |-> Slot(table, e.records[i].rec), rec |-> e.records[i].rec]]

(* A hit: the entry's image is patched and placed, and everything its      *)
(* compile would have contributed is replayed.                             *)
Hit ==
  /\ call # None
  /\ Len(stack) <= OBJ_STACK_LIMIT
  /\ IsHit
  /\ LET e     == cache[CalledKey]
         table == InjectAll(debugRecords, [i \in DOMAIN e.records |-> e.records[i].rec])
         remap == [o \in {e.records[i].orig : i \in DOMAIN e.records} |->
                     Slot(table, (CHOOSE r \in Range(e.records) : r.orig = o).rec)]
         cells == Patch(e.cells, e.sites, remap)
         fixed == \E s \in Range(e.sites) : remap[s.orig] # s.orig
     IN  /\ debugRecords' = table
         /\ subtreeDebugRecords' =
              IF program.debug THEN Append(subtreeDebugRecords, Rebased(e, table))
              ELSE subtreeDebugRecords
         /\ defSymbols' = defSymbols \o e.exports
         /\ Place([cells |-> cells, sites |-> e.sites, sumOk |-> fixed \/ cells = e.cells])
         /\ instances' = [instances EXCEPT ![call.inst].variant = e.variant] \o Replanted(e)
         /\ subtreeManifests' = Append(subtreeManifests, e.manifest)
  /\ call' = None
  /\ Return(stack)
  /\ UNCHANGED <<disk, cache, program, caching, docs, error, uncached, outcome, builds, edits>>

(* The next OBJ line of the innermost object: its document is loaded, its  *)
(* declaration recorded, and compileRecursively called for it.             *)
NextChild ==
  /\ program # None /\ call = None /\ error = "" /\ stack # << >>
  /\ Len(frame.logical) < Len(frame.text.kids)
  /\ LET i == Len(frame.logical) + 1
         k == frame.text.kids[i]
     IN  /\ Load(k.obj)
         /\ instances' = Append(instances,
              [parent |-> frame.inst, position |-> i, obj |-> k.obj, variant |-> None])
         /\ call' = [obj |-> k.obj, ov |-> k.ov, inst |-> Len(instances) + 1]
  /\ UNCHANGED <<disk, cache, program, caching, stack, debugRecords, childImages, indexMap,
                 subtreeManifests, subtreeDebugRecords, error, uncached, outcome, builds, edits>>

ChildrenDone ==
  /\ program # None /\ call = None /\ error = "" /\ stack # << >>
  /\ Len(frame.logical) = Len(frame.text.kids)

(* The images compile2 finds for the children, by logical index.           *)
KidImages == [i \in DOMAIN frame.logical |-> childImages[indexMap[frame.logical[i]]]]

(* The loader rejects a child image whose bytes do not add up.             *)
RejectChild ==
  /\ ChildrenDone
  /\ \E i \in DOMAIN KidImages : ~KidImages[i].sumOk
  /\ Stop("checksum")

(* A slip: an entry depends on the object's own files only.                *)
ManifestOfObject ==
  LET own == {frame.obj} \cup Source[frame.obj][frame.text.version].embeds
  IN  {<<f, disk[f]>> : f \in own}

(* The files an entry depends on: the object, what it embeds, and what its *)
(* descendants handed up.                                                  *)
SubtreeManifest ==
  LET own == {frame.obj} \cup Source[frame.obj][frame.text.version].embeds
  IN  {<<f, disk[f]>> : f \in own} \cup UNION Range(Since(subtreeManifests, frame.manifestMark))

(* A slip: the records that the BRK codes name are left out.               *)
IndicesOfSubtree(table, sites) ==
  LET added == IF program.debug THEN (frame.countMark + 1)..Len(table) ELSE {}
      below == UNION {Range(h) : h \in Range(Since(subtreeDebugRecords, frame.recordMark))}
  IN  added \cup {r.orig : r \in below}

(* The indices of the records a replay needs: those the subtree added to   *)
(* the table, those its BRK codes name, those its descendants handed up.   *)
SubtreeIndices(table, sites) ==
  LET added == IF program.debug THEN (frame.countMark + 1)..Len(table) ELSE {}
      below == UNION {Range(h) : h \in Range(Since(subtreeDebugRecords, frame.recordMark))}
  IN  added \cup {sites[i].orig : i \in DOMAIN sites} \cup {r.orig : r \in below}

SubtreeRecords(table, sites) ==
  LET order == Ascending(SubtreeIndices(table, sites))
  IN  [i \in DOMAIN order |-> [orig |-> order[i], rec |-> RecordAt(table, order[i])]]

(* The instances below this one, relative to it.                           *)
SubtreeInstances ==
  LET below == Since(instances, frame.instanceMark)
  IN  [i \in DOMAIN below |->
         [below[i] EXCEPT !.parent = IF @ = frame.inst THEN 0 ELSE @ - frame.instanceMark]]

(* compile2 and what follows it: the own debug() calls are entered, the    *)
(* children's images appended, the accumulators folded, the entry stored,  *)
(* the image placed.                                                       *)
Finish ==
  /\ ChildrenDone
  /\ \A i \in DOMAIN KidImages : KidImages[i].sumOk
  /\ LET text  == frame.text
         child == Len(stack) > 1
         recs  == IF program.debug THEN [i \in DOMAIN text.calls |-> text.calls[i].rec] ELSE << >>
         table == InjectAll(debugRecords, recs)
         img   == Emit(text, frame.ov, program.debug, table, KidImages)
         own   == [text |-> text, ov |-> frame.ov]
         entry == [cells |-> img.cells, sites |-> img.sites, variant |-> own,
                   manifest |-> SubtreeManifest,
                   records |-> SubtreeRecords(table, img.sites),
                   exports |-> Since(defSymbols, frame.defsMark),
                   instances |-> SubtreeInstances]
     IN  /\ debugRecords' = table
         /\ Place(img)
         /\ instances' = IF child THEN [instances EXCEPT ![frame.inst].variant = own] ELSE instances
         /\ subtreeManifests' = Before(subtreeManifests, frame.manifestMark)
                                 \o IF child THEN <<entry.manifest>> ELSE << >>
         /\ subtreeDebugRecords' = Before(subtreeDebugRecords, frame.recordMark)
                                 \o IF child /\ caching THEN <<entry.records>> ELSE << >>
         /\ cache' = IF child /\ caching
                     THEN [k \in DOMAIN cache \cup {frame.key} |->
                             IF k = frame.key THEN entry ELSE cache[k]]
                     ELSE cache
  /\ Return(Front(stack))
  /\ UNCHANGED <<disk, program, caching, call, docs, defSymbols, error, uncached, outcome,
                 builds, edits>>

-----------------------------------------------------------------------------
(* What a build comes to.                                                  *)

Finished == program # None /\ call = None /\ (stack = << >> \/ error # "")

(* The image, the record table behind its BRK codes, and the instance tree *)
(* of the .map file.                                                       *)
Result ==
  IF error # ""
  THEN [debug |-> program.debug, error |-> error, cells |-> << >>, table |-> << >>, tree |-> << >>]
  ELSE [debug |-> program.debug, error |-> "", cells |-> childImages[Last(indexMap)].cells,
        table |-> debugRecords, tree |-> instances]

(* The same program again, now with the cache.                             *)
BuildCached ==
  /\ Finished /\ ~caching
  /\ uncached' = Result
  /\ caching' = TRUE
  /\ Fresh(program.top)
  /\ UNCHANGED <<disk, cache, program, outcome, builds, edits>>

EndBuild ==
  /\ Finished /\ caching
  /\ outcome' = Result
  /\ program' = None
  /\ caching' = FALSE
  /\ call' = None /\ docs' = [f \in {} |-> None] /\ defSymbols' = << >>
  /\ Reset
  /\ UNCHANGED <<disk, cache, uncached, builds, edits>>

(* Between builds a file is changed.                                       *)
Edit(f) ==
  /\ program = None
  /\ edits < MaxEdits
  /\ edits' = edits + 1
  /\ \E v \in Version \ {disk[f]} : disk' = [disk EXCEPT ![f] = v]
  /\ outcome' = None
  /\ UNCHANGED <<cache, program, caching, build, uncached, builds>>

Next ==
  \/ \E t \in Top, d \in Debug : Begin(t, d)
  \/ NestingExceeded \/ Enter \/ Hit \/ NextChild \/ RejectChild \/ Finish
  \/ BuildCached \/ EndBuild
  \/ \E f \in File : Edit(f)

Spec == Init /\ [][Next]_vars

-----------------------------------------------------------------------------

(* The type invariant, of the indices above all: every logical index leads *)
(* to an image, every declaration to an earlier one.                       *)
TypeOK ==
  /\ disk \in [File -> Version]
  /\ program = None \/ program \in [top : Top, debug : Debug]
  /\ caching \in BOOLEAN
  /\ call # None => call.obj \in DOMAIN docs /\ call.inst \in 0..Len(instances)
  /\ Len(stack) <= OBJ_STACK_LIMIT + 1
  /\ DOMAIN docs \subseteq Obj
  /\ \A i \in DOMAIN indexMap : indexMap[i] \in DOMAIN childImages
  /\ \A i \in DOMAIN instances :
       instances[i].obj \in Obj /\ instances[i].parent \in 0..(i - 1)
  /\ builds \in 0..MaxBuilds /\ edits \in 0..MaxEdits

(* What the debugger shows at each BRK, in place of its code.              *)
Meaning(r) ==
  [c \in DOMAIN r.cells |->
     IF r.cells[c].brk = 0 THEN r.cells[c].code ELSE RecordAt(r.table, r.cells[c].brk)]

(* A cached build runs the code an uncached one would run, and every BRK   *)
(* code in it leads to the record of the debug() it was compiled from,     *)
(* whatever other programs filled the cache before and with what settings. *)
SameMeaning ==
  outcome # None => outcome.error = uncached.error /\ Meaning(outcome) = Meaning(uncached)

(* A cached build carries the debug records an uncached one would carry,   *)
(* those of skipped descendants included, and no others.                   *)
SameRecords ==
  outcome # None => Range(outcome.table) = Range(uncached.table)

(* The map of a cached build names the instances an uncached one would     *)
(* name, in the same places and made of the same compiles.                 *)
SameInstances ==
  outcome # None => outcome.tree = uncached.tree

(* Without -d a cached build is the uncached one, byte for byte, map and    *)
(* all, whatever was built before.                                         *)
SameBytes ==
  outcome # None /\ ~outcome.debug => outcome = uncached

(* Nothing a subtree handed up is left for the next sibling to fold in:    *)
(* while an object is compiled, the accumulators hold one contribution for *)
(* each child it has dealt with, and none when the build is over.          *)
Balanced ==
  /\ call = None /\ error = "" /\ stack # << >> =>
       /\ Len(subtreeManifests) = frame.manifestMark + Len(frame.logical)
       /\ caching /\ program.debug =>
            Len(subtreeDebugRecords) = frame.recordMark + Len(frame.logical)
  /\ ~(caching /\ program # None /\ program.debug) => \A h \in Range(subtreeDebugRecords) : h = << >>
  /\ Finished /\ error = "" => subtreeManifests = << >> /\ subtreeDebugRecords = << >>

(* Every BRK site of an entry names a record the entry carries, so that no *)
(* hit stops half-way through its replay.                                  *)
SitesHaveRecords ==
  \A k \in DOMAIN cache : \A s \in Range(cache[k].sites) :
    \E r \in Range(cache[k].records) : r.orig = s.orig

=============================================================================
