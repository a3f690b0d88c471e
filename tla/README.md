# PNut-TS in TLA+

PNut-TS compiles Spin2 and PASM2 for the Propeller 2. It is one synchronous
process: command line, preprocessor, elementizer, a two-pass resolver per
object, a recursive walk over `OBJ` blocks, an object cache on disk, a
distiller, and writers for image, listing and map. This directory holds TLA+
models of it, TLC runs on small instances, and TLAPS proofs. Paths below are
relative to `src/src/` unless they say otherwise.

## The system

| part | state it keeps | operations | how it meets the others |
| --- | --- | --- | --- |
| command line (`pnut-ts.ts`, `utils/cacheVerify.ts`) | `Context` options | parse, `--cache-clear`, compile, `--cache-verify` | creates the top document, calls `Compiler.Compile` |
| preprocessor (`classes/spinDocument.ts`, `textLine.ts`) | conditional stack, symbols, lines kept | one handler per `#` directive | runs when a document is first loaded; pushes `exportdef` symbols onto the shared `defSymbols` |
| source files (`spinFiles.ts`, `utils/files.ts`, `utils/context.ts`, `utils/duplicateSources.ts`) | documents by base name, OBJ and DAT lists of the object being compiled | locate, add, look up | documents are shared by the whole build |
| elementizer (`spinElementizer.ts`, `spinElement.ts`) | line, rest of the line, inside which comment | next elements | feeds the resolver |
| resolver (`spinResolver.ts`, `blockStack.ts`, `numberStack.ts`, `symbolTable.ts`, `objectStructures.ts`) | symbol tables, structure records, object image, block and number stacks, element index | `compile1`, `compile2` and everything below | reads children's images, enters DEBUG records |
| DEBUG records (`debugData.ts`) | a table of offsets and a byte image, one for the whole build | `injectRecord`/`debugEnterRecord`, `getRecordBytes`, `collapseDebugData` | the index of a record is the BRK code in the object code |
| recursive compile (`compiler.ts`, `childObjectsImage.ts`) | child images, index map, accumulators of manifests and records, recorded instances | `compileRecursively` | drives everything; on a cache hit it *replays* what a compile would have done |
| object cache (`objectCache.ts`) | five files per key in a directory | `computeKey`, `getIfValid`, `getDebugInfo`, `getLayoutPayload`, `getManifest`, `set`, `clearCacheDir` | persists over builds and is shared by processes |
| object image, distiller (`objectImage.ts`, `objectDistiller.ts`, `distillerList.ts`) | bytes with BRK sites; records of sub-objects | append, seek, distill | after the children were appended |
| layout, map (`objectLayout.ts`, `mapGenerator.ts`, `objectSymbols.ts`) | placements | build, print | reads recorded instances and the final image |
| numerics (`utils/pnutFloat.ts`, `cordicQ.ts`) | none | pure functions | constant expressions |
| run time (`ext/`) | the Propeller's | interpreter, debugger, loaders | external: runs what the compiler made |

What is hard here is not concurrency inside the compiler: it has none. Two
other things are.

* **History.** A build that uses the cache must come to what a build without it
  would, although whole subtrees are skipped, and although what they would have
  contributed to *shared* state (records, symbols, images, instances,
  manifests) comes from files that another build, for another program, wrote.
  Those files may be half written, and the inputs may have changed.
* **Things read twice.** The resolver reads nearly everything more than once:
  two passes over DAT, four over CON, blocks until their size stands still, a
  walk that only looks at a variable and one that emits it, a trial compilation
  that is taken back, an element that is left and come back to. Each pair has
  to agree, and what one of them leaves behind must not be seen by the other.

For each part, what makes it right:

* DEBUG records: a BRK code once issued selects its record to the end of the
  build, also in the collapsed table; the limits stop a build before anything
  is overwritten.
* cache store: a hit serves code made of the inputs its manifest names, whole,
  and with the sidecars of the same build; a killed build leaves a miss, and a killed
  clear nothing that is served for what it is not.
* recursive compile: cached = uncached (code, the record behind each BRK, the
  records carried, the instance tree); every index map leads somewhere; nothing
  a subtree handed up leaks into a sibling.
* preprocessor: what is kept is what all conditionals around a line say, at most
  one branch of a chain; a line goes out as itself; only a file whose
  conditionals are balanced is delivered.
* elementizer: comments and continuations stand for nothing, wherever they begin
  and end, nothing else is lost, and the end is reached.
* constants, declarations: a constant has the value of its equation whatever the
  order; every variable and local has bytes of its own; caller and method agree
  on a frame.
* code: run by the interpreter, it does what the source says: blocks, expressions,
  variables, calls, assembly, DEBUG.
* distiller: merging equal sub-objects changes no reachable object. Layout: every
  instance is placed once and has variables of its own.
* numerics: two's complement at every boundary, floats ordered and rounded as the
  numbers they stand for.

## Modules

| module | models |
| --- | --- |
| `DebugTable` | what a record table promises: a sequence of different records, codes are positions |
| `DebugTable_proofs` | its invariants, proved |
| `DebugData` | `debugData.ts`: offset table + byte image, the three limits, reading back, collapsing; implements `DebugTable` |
| `UncachedBuilds` | what the cache promises: a build delivers what it would without one |
| `CacheStore` | one cache entry as five files, processes that validate, take, compile and store it, edits, `--cache-clear` file by file, kills |
| `CacheStore_proofs` | its invariants and its refinement of `UncachedBuilds`, proved |
| `ObjectCompiler` | `compileRecursively` with its cache replay over several builds; every program is built once without and once with the cache, and the two are compared |
| `ObjectCompiler_proofs` | its type, the balance of its accumulators and the records behind its entries' BRK sites, proved |
| `ConditionalText` | what conditional compilation promises of a file |
| `Preprocessor` | `SpinDocument.preProcess` line by line, and the documents that follow in one compile; implements `ConditionalText` |
| `Preprocessor_proofs` | its invariants and its refinement of `ConditionalText`, proved |
| `Elementizer` | `get_element_entries`: lines, comments, continuations, elements |
| `Constants` | CON blocks over the passes |
| `Constants_proofs` | that compiled declarations are true as equations, and that four passes are what decides if they are compiled, proved |
| `Declarations` | VAR blocks, method headers in both passes, frames, the method table |
| `Declarations_proofs` | that variables, frames and the method table agree, and that objects are refused for good reason only, proved |
| `Floats`, `Operators` | `pnutFloat.ts`; `resolveOperation` |
| `Expressions` | `resolveExp` and `compileExpression` over the same elements (extends `Operators`) |
| `SourceFlow` | what an indented method means: which line may run after which |
| `Blocks` | the block compiler and its repeated passes, and the interpreter taking every branch; implements `SourceFlow` |
| `Structures` | structure records and the lookup of members |
| `Variables` | every form of variable, checked and compiled (extends `Structures`) |
| `Calls` | calls, terms and instructions |
| `Assembler` | DAT blocks and inline code, both passes |
| `Varints` | numbers of one to four bytes |
| `Code_proofs` | that numbers read back as what was written, that the image the assembler writes is whole, and that its two passes agree on every label, proved |
| `DebugStatements` | DEBUG statements: bytecode and record |
| `Objects` | object images with their children, and the distiller |
| `Layout` | placement in the finished image (extends `Objects`) |
| `MC*` | inputs and references for TLC. `MCBuilds`, `MCSource` and `MCCode` put the components of one stage side by side |

### How the composed runs are built

`MCBuilds`, `MCSource` and `MCCode` hold several components each. The first
state chooses `part`, the component that runs; the others keep their idle
values, and an invariant of a component says nothing of the other parts. They
share no state, because in the code they do not either: each hands a finished
value to the next. The hand-over itself is in the inputs: `MCCode`'s components
start from elements as `Elementizer` returns them and symbols as `Declarations`
and `Constants` enter them. Where components do interact through shared state
(the cache with the recursive compile, the compile with the preprocessor's
exported symbols and the DEBUG table), one module has both: `ObjectCompiler`.

### How state and actions correspond to the code

PROJECT.json maps definitions to the lines they model. A helper whose lines lie
inside those of the operator it serves is read with that operator and has no
entry of its own where the operator has one.

`DebugData`: `word` and `image` are `_debugImage` below and from 0x200.
`InjectKnown`/`InjectNew` are the two ends of `injectRecord` (the same walk as
`debugEnterRecord` of `spinResolver.ts`); `RecordTooLong`, `TooManyRecords`,
`TableFull` are the three errors, which stop the build (`error`);
`CollapseDebugData` is the getter of that name, called once when the top object
is done. `issued` is a history of the codes handed out. A record in the
instance ends in a zero and no record begins another one, as the code
generator's do: the search compares only as many bytes as the new record has.

`CacheStore`: `entry[s]` is the file `<key>.s`. A process goes through the
labels `validate` (`isEntryValid`), `get`, `getDebugInfo`, `getLayoutPayload`,
`getManifest` in the order `compileRecursively` calls them, or `compile`,
`hash` (`manifestEntryFor`), `store` (`set`, each file opened and then filled
in `WriteOrder`). A payload says which build wrote the file and which contents
of the inputs it was made from: `by` and `of`. `Absent` is a file that is not
there, `Torn` one that `writeFileSync` had emptied when its process was killed.
A missing sidecar stops the build (`failed`), a missing or torn manifest is a
miss, a `.bin` is taken if it exists. The `.meta` file is written and never
read, so no property speaks of it. A run with `--cache-clear` passes through
`clear` first: `rmSync` removes one file after another (`RemoveFile`), in an
order that depends on the directory, and then the directory (`Cleared`). `cut` is
a history variable: files were removed, and neither that clear nor a later store
of the entry was completed. It tells what a killed clear has left from what a
killed store has.

`ObjectCompiler`: an activation of `compileRecursively` is an element of
`stack`; `call` is the object it is entered for. `Enter` takes the marks
(compiler.ts:313-333) and the key, `NextChild` is one round of the loop over
OBJ lines (542-576), `Finish` is everything from the second pass to the index
map (580-898), `Hit` is 359-513. `docs` are the documents of the build,
preprocessed at their first use; `defSymbols`, `debugRecords`, `childImages`,
`indexMap`, `instances`, `subtreeManifests`, `subtreeDebugRecords` are the
fields of those names (`indexMap` is `globalChildObjectIndexMap`, `instances` is
`recordedInstances`). An image is a sequence of cells, one of code and one per
`debug()`; `sumOk` says whether its checksum holds. What one object compiles to
is identified by its preprocessed text, its overrides and its embedded files.
`Begin`/`BuildCached`/`EndBuild` are two processes, the same program without
and with the cache, so that `uncached` and `outcome` can be compared.

`Preprocessor`: one action is one line, named for its kind: `Text`, the five
comment states (`Quote` to `OpenBlock`), one action per directive, `Malformed`
for every directive that is wrong in itself, `Unknown`, and `EndOfFile`. Every
action ends in `EmitLine`, the end of the loop body, which decides with the
conditionals as they are *after* the line whether it goes out. `levels` is
`preProcNestingState`; a level's record has the fields of `PreProcState`. What a
line says is left out; `fate[n]` is what became of line *n*: text that was kept
(and as which line), text that was dropped, a line that is no text, an include.
`replaceCurrent` is the number of the line whose commented form it holds.
`NextDocument` is the constructor for the next file, which starts from the
built-in symbols and the `defSymbols` the files before it exported to. An
included file is a document of its own: its pass is this module again, and for
the including file it is one step that may export symbols (`Include`) or throw
(`IncludeThrows`).

`ConditionalText` does not know sides, emission or commented lines: a level is
seeking a branch, in a taken one, or closed, and a line of text is kept if *all*
levels are taken. The mapping (`View`, `State`) computes that of each level. A
pass that has shown an error goes on reading, but delivers nothing; it is mapped
to the one failed state. The text of the branches after `#else` is left open in
`ConditionalText`, because no document says what `#elseifdef` does there; in the
code it may keep a second branch.

`Elementizer`: `lex` holds `line`, `rest` (the line from the current character
on), the flags of the class (`atStart` is `currCharacterIndex == 0`, `debug` is
`debugStringState`), and the elements returned. `GetElementEntries` is the entry
of a call, `ContinueLine` and the four `Skip...` actions are the branches of its
loops over continuations and comments, and the rest are the kinds of elements,
one action each. Letters that the regular expressions do not tell apart are one
letter, `debug` is the word `d`, and of the operators there are those of eleven
characters, all of them. `debugInQuotedString` is left out: nothing reads it.

`Constants`: `scan` is the pass and the position in the blocks. `SetConstant`,
`EnumConstant`, `SkipConstant`, `VerifyConstant`, `DefinedTwice`,
`DeclareStructure` are what `compile_con_blocks` does with an item depending on
its form, on whether its names are known, and on whether it is recorded already;
`EndPass` and `LinkObjects` are what `compile1` does between the passes.

`Declarations`: `pass` walks `compile1`/`compile2` over the blocks: methods'
ids and headers first (`MethodId`, public before private), the code of each
method (`Method`), which reads the header again, behind the DAT blocks.
`varPtr` and `offset` are the fields of those names, `methods` the method table
at the head of the object, `frames` where each compiled method has its names.

`Blocks`: the operators are the functions of the compiler (`BlockRepeat` is
`blockRepeat`, `OptimizeBlock` is `optimizeBlock`) on a state `s` of next
line, offset, items, nesting and error; the nesting frames are `blockStack.ts`.
`CompileTopBlock` is the whole compile, one action, as it is one call; every
action after it is one bytecode of the interpreter, which takes a branch either
way. `line` is the source line whose code runs, and is what `SourceFlow` sees.

`Expressions`: a state holds the element index, the number stack and the
bytecode. `GetElement`, `StepBack`, `BackElement` are the element walk with
its three-element constants of child objects. `ResolveTerm`/`ResolveOperators`
and `CompileTerm`/`SubOperators` follow `resolveExp` and
`compileSubExpression`.

`Structures`, `Variables`: `structs` is the byte array of `objectStructures.ts`
with its offsets; records are read and written byte by byte, as the lookups walk
over them. `CheckVariable` and `CompileVariable` are the two walks;
`CompileUse` is what an instruction makes of them. The bytecode is a sequence
of setups and operations whose address computation the reference repeats.

`Calls`: the functions of the same names, on a state `s` of position, code and
counters, among them the trial compilation (`Restored`, `SetOffset`) and the
elements that are compiled out of sequence. `Next` compiles one line.

`Assembler`: `listing` holds the lines, `asm` is the pass with the image offset,
`cogOrg`, `hubOrg`, the labels, the pieces of the image and the setting (PASM-only or
not, inline or not, where the image starts); one action is one line, named for
its kind, and a function of the state (`ReadData`, `ReadOrgh`, ...) says what reading
it does; `EndPass` starts the second pass. `Instruct` handles an instruction by
its operand class, with the fields kept apart.

`DebugStatements`: `CiDebug` is `ci_debug` and, for PASM, `ci_debug_asm` with
what its caller checks (the DEBUG mask, the end of the line); `rec` and `code`
are the record and the bytecode it writes in step, `bytes` what `enterDebug`
puts behind the code, `DebugByte` the debugger that reads them. A name that is
displayed ends at a constant in quotes, as `debugVerboseString` cuts it, and
`C_Z` has no parentheses in Spin.

`Objects`: an image is a sequence of longs. `CompileObjSymbols` and
`CompileObjBlocks` are the two passes as far as child objects go, and
`BeginDistilling`, `EliminateRedundantObjects`, `RebuildOptimizedImage`,
`ReconnectReferences` the steps of the distiller; `built` holds the finished
images. `Layout` reads the image as `objectLayout.ts` does.

## Runs

| run | question | bounds |
| --- | --- | --- |
| `store` | do builds that share a cache, one after another, deliver what builds without one deliver, whatever is edited between them, or wherever they are killed between two file writes or removals? | 2 inputs x 2 versions, 5 builds, 3 edits, clears |
| `builds` | does a second program, or the same after an edit, come out as without the cache, and do index maps and entries stay sound when entries are stored above hits? does the distilled image hold the objects of the source, and the layout name them? do records keep resolving up to every limit of the table? | 5 programs of 3 levels over 9 files, with and without `-d`, up to 3 builds, 1 edit, a nesting limit that can be reached; 640 programs of five files; 7 records, 3 entries, 18 bytes |
| `source` | does every sequence of lines keep what a declarative reading keeps? are elements those of the text? constants those of the equations? does everything declared have its own memory? do folded operators give what numbers give? | 5 lines in all documents; texts of 3 lines of 19 kinds and of 4 lines of 7; every constant of up to 4 characters, operators of 4, DEBUG texts of 4; 3 constants in all forms around an enumeration, chains of 5; VAR lines of up to 3 items, headers of up to 2 + 2 + 2; 8-bit words, floats of 5 + 2 bits |
| `code` | does what the resolver emits do what the source says, when it is run? | two blocks in one another around an exit with short, medium and long code between; expressions of two operators; all shapes of variables on 5 structures; calls within calls; branches over all kinds of lines; DEBUG statements of up to 3 arguments; numbers around every boundary |
| `store_rewrite` | (violated) is a hit made of what its manifest names when a build was killed while it stored over an entry? | 3 builds, 1 edit |
| `compile_third` | (violated) does a cached `-d` build mean what the uncached one means, whoever filled the cache? | 3 programs |
| `compile_include` | (violated) does an edit of a file that a descendant includes reach the build? | 1 program, 2 builds, 1 edit |
| `compile_reload` | (violated) does a hit leave the symbols later siblings are preprocessed with as they were? | 1 program, 2 builds |
| `preprocess_include` | (violated) is a file included only where code is kept? | 3 lines |
| `blocks_near` | (violated) is a method at an instruction wherever it is? | a loop with both exits in an alternative, sizes near the distance at which a branch grows |
| `structures_forms` | (violated) are members reached in every documented form? | the forms `OFFSETOF` behind bitfields and `structname[address].member` |
| `assembler_ditto` | (violated) does a `DITTO` block of count 0 produce no output? | one block between two labels |

**Why the bounds are enough.** Two versions of a file: the code compares hashes
for equality only; two inputs let one be edited back while the other is not.
Three builds are what a stale index needs: one stores an entry, one hits it and
stores its parent, one hits the parent. Five lines hold a chain of three
branches with text in the one that must not be kept, or two conditionals in one
another with a branch of the inner one; one symbol that can change and one that
cannot are enough since a directive names one. Three lines of text let a comment
or a continuation open on one, run over one, and close before something on a
third. Four passes over CON mean that a chain of four is the longest that
resolves and one of five is the first that does not. Two nested blocks around an
exit are what NEXT and QUIT need to leave an inner and an outer one, and the
sizes 1, 60 and 8200 put a branch on either side of both of its size limits. An
operator on two levels has every pair of precedences. Eight-bit words have all
boundaries of the 32-bit ones, and a float of two mantissa bits has ties,
denormals and carries. Fields of three bits make an augmented operand, a far
branch and a full cog a matter of a few lines. The limits of a table are made so
small that both of two limits can be the one that is reached.

Deadlock is not checked: a model stops when its builds and edits are used up, its
text is read, its code has run, or its compile has failed.

**Fairness.** `source` (`TextEnds`): weak fairness of the elementizer's step, which is the
body of a loop that runs until it has returned the last element.

### What the violated runs show

* `compile_third`: a hit passes its BRK sites up with the indices of the build
  that stored them (compiler.ts:468). An ancestor stored above the hit pairs
  them with records of the present build. The next build that hits the
  ancestor patches a site with the code of another record; or, if the stale
  index happens to stay, leaves the checksum and the loader rejects the child.
* `compile_include`: the key of an object sees its own includes, its manifest
  only `.spin2` files and `DAT FILE` blobs; what a *descendant* includes is in
  neither.
* `compile_reload`: `drv` uses `core`; the program uses `drv`, then `ser`,
  which exports a symbol, then `core`. Without a cache, `core` is preprocessed
  below `drv`, before the symbol. If `drv` is a hit, it is preprocessed after.
* `preprocess_include`: `#include` alone of all directives does not ask whether
  its branch is taken. The line is dropped, but the lines of the file follow it
  (spinDocument.ts:985), its exports are made, and if the file is missing the
  compile fails.
* `store_rewrite`: the write order protects the first store of a key. When a
  stale entry is stored over, `.dep` is new before `.bin` is, and a kill
  between them makes the old binary valid.
* `blocks_near`: a block is compiled until its end stops moving
  (spinResolver.ts:7849). In one pass the branches over an alternative shrink by
  as many bytes as exits behind them grow: the end stands still, a label inside
  has moved, and the branch of that pass still goes to where it was.
* `structures_forms`: the walk of `OFFSETOF` takes the entry of a bitfield for
  the next member (3504), and a structure name with an address never loads its
  record (10520).
* `assembler_ditto`: the lines of a `DITTO` block of count 0 are taken back from
  the image, not from the cog and hub addresses (1535).

### Other differences that were met

They are in the models, or just outside of their inputs, and have no run of
their own.

* Cache: a `--cache-clear` that was killed half way leaves a part of an entry. If
  the manifest and the `.bin` are in it and a sidecar is not, the next build stops
  and asks for `--cache-clear` (`NoMissingSidecar` holds only as `failed => cut`);
  a run with `--cache-clear` that is not killed goes through, since `Cleared`
  ends `cut`. If the manifest is gone and the `.bin` is not, the next build
  stores over it; killed as well, between the manifest and the `.bin`, it leaves
  the binary of one build beside the indices of another (`HitIsOfOneBuild` and
  `EntryIsOfOneBuild` hold only without `cut`). What is served is made of current
  inputs all the same (`HitMatchesManifest`, `ImplementsUncachedBuilds`).
* Cache: of two processes one can take the `.bin` while the other fills it, or
  pair the new manifest with the old `.bin` (`CacheStore` with two of `Proc`); no
  run asks for it.
* Cache: a `.bin` whose write was cut short is served (`CrashWithin`, `Get`). An
  input saved between its compile and `manifestEntryFor` is recorded with the
  new hash (`EditDuringBuild`). The records of a cached `-d` build are in the
  order of the build that stored them (`InjectAll`), so its bytes differ from an
  uncached one's although every code resolves. Symbols removed with `-U` are
  not in the key (objectCache.ts:426), a hit counts as one level of nesting
  however deep it is (compiler.ts:304), and two files of one base name are one
  document (compiler.ts:547).
* Preprocessor: `#else` marks a level, but `#elseifdef` behind it turns the level
  back (spinDocument.ts:656); one closing brace too many makes the brace count
  negative and the rest a comment (565); a line that begins with an apostrophe is
  a comment before a document comment is looked at (539); a file that includes
  itself is read without end (817).
* Elementizer: the patterns of `%` and `%%` constants take an opening bracket for a
  digit, so that in `%101[4]` the bracket is lost (spinElementizer.ts:43-44); a
  comment behind a backtick statement is text of the statement if there is a
  parenthesis or a backtick in it (244); what stands behind a document comment on the line that opens it
  loses two characters or is refused (spinElementizer.ts:655, behind the cut of
  651); a text whose last line ends in `...` is read without end (198); the
  closing line of a document comment that begins with a brace and opens more
  braces than it closes swallows code; three dots behind a comment do not
  continue a line.
* Expressions: a floating-point constant in a method leaves the mode on for what
  is folded behind it (spinResolver.ts:8529); `1/0 + x` and `x + 1/0` are not
  treated alike.
* Constants: a constant that a parent overrides is published with its own type
  and the parent's value (5606-5628); an enumeration counts past $FFFF_FFFF (5305).
* Declarations: `hubOrgLimit` is that of an object compiled before (755); the
  id of a structure and an address of more than 20 bits would run together (753).
* DAT: ORGH is accepted within DITTO (1726); a label on its own line in front of
  ALIGNW or ALIGNL is dropped (1716); a hub label uses the ORGH in force where it
  is used (8975); FVARS accepts negative numbers only (1486).
* Calls: `SEND(1, 2 + x)` is refused, since the 2
  is taken for the last of a run of bytes (6286).
* DEBUG: `debug("AB", 0)` and `debug("A", 5 + x)` are refused (6961); `C_Z` is
  refused in PASM, where it lacks the parenthesis that all commands have to have
  (6709); a name that begins with a constant in quotes ends there (6890); backtick
  text behind a label or condition is tokenized as code
  (spinElementizer.ts:394); `` debug(`term (a) b) `` loses " b" (7063).
* Structures: the array of records never grows past 2048 bytes
  (objectStructures.ts:83, 326), and `reset()` keeps the next id.
* Objects: the limit of instances is off by one (4751, 3356); the distiller's
  walk repeats shared subtrees (objectDistiller.ts:71).

## Proofs

`DebugTable_proofs`, for every set of records and every `MaxEntries`: the type
(no code outgrows its byte), no record twice, every issued code resolves, one
code per record, no entry moves. The inductive invariant is the conjunction of
the first three: a code resolves after the next `Enter` because no entry moves,
and two codes of one record are equal because no record is there twice.

`DebugData_proofs`, for every set of records of which none begins another one
(`DebugDataAssumptions`) and for all limits and sizes: `TypeCorrect`, `BytesFound`,
`Resolves` (the collapsed table), the three together as run `builds` checks them
(`ReadBack`) and `Implements`, the refinement of `DebugTable`,
to which the results above then carry over. The inductive invariant `IInv` says
that for some *n* exactly the slots 1..*n* are used and the records lie behind one
another without a gap, so that the next slot is where a record ends; that no
record is there twice; and that every issued code is the slot of its record.
`MatchIs` is the heart of it: the walk compares as many bytes as the new record
has, and because no record begins another one, that finds the equal record and
nothing else. `NewEntry` shows that a record written at the next free offset
disturbs none below it.

`CacheStore_proofs`, for any number of processes, files, versions, builds and
edits, kills anywhere: `TypeCorrect`, where the type invariant needs that an
open file is a file of `WriteOrder` and that a storing process knows what it
compiled; and `Companions`: if nobody clears the directory, a `.bin` has its
companions. The invariant behind it says that a process that has written *n*
files of the order finds them there; nothing but a clear takes a file away.

The rest of `CacheStore_proofs` is about builds one after another, of which each
sees inputs that stand still while it runs (`InTurn`): one process, no edit
during a build, no kill within a file, and kills between two file operations,
removals included, only if nothing is edited at all. These are the circumstances the `store` run checks,
and `store_rewrite` shows that the last one is needed. Under it: `OneBuild`,
`EntriesWhole` (the files of an entry that is whole are of one build),
`SidecarsFound` (no hit is stopped by a sidecar that is not there), these three
unless a clear was killed and nothing has made good for it (`cut`);
`ManifestMatches`, and `CachedBuildsAreUncached`, the refinement of
`UncachedBuilds`. The invariant `TurnInv` says that outside of a store the four
files that are read are of one build if there is a `.bin` that was not cut, that
during one the files written so far are of this build, and that what a process
has taken or validated is still what the disk says. Where nothing is edited every
file of the entry is of what the disk says, so that even an entry that was cut,
or cut and partly stored over, holds no binary of other inputs.

`ObjectCompiler_proofs`, for any object files, programs, versions, edits and
builds and any limit of nesting (`CompilerAssumptions`): `TypeCorrect`,
`AccumulatorsBalanced` and `SitesRecorded`. None of the three properties is
inductive, and the three have one inductive invariant, `IInv`:
* `SitesHaveRecords` is needed to be preserved itself: `Hit` looks the record of
  a site up in the entry (`CHOOSE`), and what it hands up goes into the entries
  stored above it. `Stored` has it, and that an entry made without `-d` has no
  site. What `Finish` stores carries a record for each site because the indices
  it keeps contain those of the sites; `Undebugged` says that no image and no
  list of records handed up has any without `-d`, and `Lists` that what is linked
  is a list of images at all: `indexMap` leads into `childImages`.
* `Balanced` follows from `Marks`: the lowest marks are 0, every frame's mark is
  its parent's plus one contribution for each child the parent has dealt with,
  and an empty stack leaves nothing. Without the marks of the frames further
  down, a return would leave the parent's count open.
* the type of `instances` needs `Nested` and `CallOK`: `Finish` makes the
  instances behind its mark relative to its own, and a parent that is neither
  this instance nor behind the mark would become a negative number.

There is one lemma per action, each with one step per part of `IInv`. What the
actions fold - `InjectAll`, the loop that injects the records of a hit, and
`EmitCalls`, the `debug()` statements of an object - are folds over sequences. The
library's induction theorems take an operator, so what they keep is shown by
the least index at which it would fail (`Least`).

`Preprocessor_proofs`, for any symbols, any number of lines and documents and any
depth of conditionals and braces: `TypeCorrect` and the four invariants of
`source` about it. The inductive invariant `PassInv` has three parts. *Lines*:
what `replaceCurrent` still holds from a dropped directive is hidden as long as no
code is kept, and a directive that opens a branch overwrites it
(`StaleIsHidden`); without this `EmittedAsWritten` is not inductive. *Stack*: a
level inside a branch that does not emit is closed for good (`Shut`), and until
a mistake is found the stack is as deep as the lines say (`DepthIsBalance`).
*Symbols*: the two tables.

`PassKeepsConditionalText` is the refinement. It needs one more invariant, that
the two sides of a level exclude each other (`SidesInv`), and a lemma that the
innermost level emits exactly if all levels are taken (`TakenIsKept`, from
`Shut`). Each action is then mapped to one of `ConditionalText`, or to `Fail`.

`Constants_proofs`, for any declarations, any constants of child objects and any
overrides of the parent: `DeclarationsAreTrue` (the property `ConstantsDeclared`
of run `source`) and `ValuesNeverChange`. The assumption on the declarations is
`Inputs`: their six forms, and that no constant declared here has the dotted name
of a constant of a child, which the elementizer rules out. Run `source` checks it
of its inputs. That four passes come to a solution of the equations is not
obvious, because a value is computed from the names as they are known when the
line is read. The inductive invariant says of the last pass, at place *a*, that
there are values and steps for the enumeration up to *a* with which all lines in
front of *a* are true, *and* that every name those lines use is known or is of a
child (`Settled`): since no step changes or hides a known name (`Kept`), what is
true stays true. The last pass enters a line only with all its names known, or
fails; that it does not skip any enumeration is that `valid` stays true in it.
The property names the enumeration as a recursive function. That a function with
these equations is there and is the one the pass counted along is
`EnumerationIs`, again by a least counterexample.

`FourPassesAreEnough` (the property `ChainsOfFour` of run `source`) is about which
declarations are compiled at all: those declared once each are exactly if every constant can be
given one of four passes to be read in (`Resolves`), and they are refused because a
name is undefined and for nothing else. It has no assumption but `Inputs`. Each step
is first brought to one of four: a line is read (`Reads`), fails for a missing
name (`Lacks`), fails for a name or value that is there already (`Clashes`), or a
pass ends. The invariant `FourInv` says of declarations that are `Distinct`:
* `NumberedBy`: there are numbers of passes for the constants that are known, with
  which what each one needs was read in front of it. When the last pass is through,
  these are the numbers the property asks for.
* `Complete`: for *any* numbers that resolve, whatever they put in front of the place
  reached is known. So nothing is missed in the last pass.
* `Pending`: in a pass that has met nothing unresolved every constant in front of
  the place reached is known. The passes after it are skipped (`AfterPass`), and
  this is why they would have entered nothing.
* `Valued`: a known constant has the value of its line, and a count that is valid is
  that of the enumeration. So a line that is read again verifies, and no
  declaration that can be resolved fails because of an earlier pass (`Clashes` is
  impossible).
Its mutant leaves out the second pass (`AfterPassHurried`).

`Declarations_proofs`, for any blocks and any limits: `MemoryIsOwned` (the property
`MemoryOwned` of run `source`). The assumption on the blocks is `AreBlocks`: sizes
and counts are not negative and an alignment is 0, 1 or 3; run `source` checks it of
its inputs. `MemoryInv` follows the object through its passes:
* *Variables* (`VarsIn`): those of the blocks visited so far have their bytes. That
  a later item finds those of an earlier one unchanged is because a name is
  entered only if no symbol has it (`Extends`), and that it has the type of its line
  because what is carried along is what the last typed item says (`CarriedOn`,
  `MeantFirst`).
* *Table* (`IsTable`): each PUB, then each PRI, in the order of the source, has one
  entry and its symbol leads there, with as many longs of parameters and results as
  its header has (`Sums`). The first pass counts while names of later blocks are
  not known yet, the second one places with all of them known; what is known
  decides only if a header is refused, so the longs are the same (`Counts`,
  `ValuesPlaced`).
* *Code* (`Compiled`): the methods compiled so far are the first ones of the table,
  and each ends where the next one begins. `NextEntry` is the step: the method
  visited next has the entry behind the last one that was filled.
* *Frames*: what `FrameBuilt` says of a frame when it is made stays true, because
  filling in the code of another entry leaves the head of this one (`SameHead`).

`ObjectsRefusedRightly` (the property `RefusedRightly` of run `source`): an object that
is compiled is `Legal` - its declarations claim no name twice, it has a PUB method or
is PASM only, its methods fit the table - and one refused for any reason but
the room it needs is not. It assumes `DeclarationsAssumption`
besides: the limits are natural numbers, and the hub holds at least the
first four bytes of variables. `MemoryInv` knows nothing of errors; `LegalInv` adds to it
* *NamesMet*: the names entered are exactly those of the blocks visited. The
  first pass knows only what was declared in front of a line, the second one
  everything, so a line may pass the first and fail in the second. A name is
  found declared twice only at the later of its two places, and the invariant is
  what says that the earlier one is a place of the source and not of the pass
  before (`Clash`, `TwiceNotLegal`).
* *HeadersMet*, *FramesMet*: the parameters, results and locals of the headers counted and
  of the frames placed are apart from each other and from the names of the object; that
  is what `Legal` asks of them, and what was checked of them at a time when fewer
  names were known does not say it (`KnownNotLegal`, `AllMet`).
* an error other than one for room is there only if the object is not `Legal`.
What an object that needs too much room is refused for is not said: the code stops at
whichever comes first.

The items of a block are read by a recursive function; what it keeps is shown
with `UpTo`, once more by a least counterexample (`Least`).

`Code_proofs`: `NumbersRead`, for every number of up to 29 bits and each of
the three writers (run `code` checks those around the powers of two). Septets are
the digits of the number to the base 128 (`OneByte` to `FourBytes`), and reading
them adds the digits up again (`ReadsOne` to `ReadsFour`); a signed number reads back because the length that is chosen leaves room
for the sign in the last septet.

`ImageIsWhole` (the property `ImageWhole` of run `code`), for all lines, settings and
limits (`AssemblerAssumption`, and `Written`, which says what a line is made of): at
every moment of both passes the pieces of the image follow on each other, the place
reached is behind the last, and the recorded breaks are those of the image. A line
does dozens of small things, so the proof is one of composition:
* `Put(s, t, n, kind)`: from *s* to *t* a run of *n* bytes was put behind the image, all
  of it for the line of *s*, at the places of *s*; `Then` composes runs. Everything
  an instruction does is one run whose length does not depend on the state
  (`InstructionPuts`), operand by operand (`OperandKeeps`): an immediate has its
  prefix if it is written with `##`, whatever its value is in this pass.
* `Calm(s, t)`: nothing was written. `Goes(s, t)` is any chain of the two, and each kind
  of line has a lemma that says its reading is one (`DataGoes` to `EndGoes`).
* only the end of a DITTO block goes back. `TakenBack` needs the place it goes back
  to to be one where a piece ends, which `DittoOpen` keeps while lines are added to
  the block; then what is cut off are whole pieces, and the breaks cut off are
  theirs. Without it `ImageWhole` is not inductive.
* `Loaded`: that the last piece of inline code is its return is no invariant of a
  pass under way; it is there from the line behind the code on, which is the
  last (`EndLine`, `PassEnds`).
Operands and data are recursive functions; what they keep is shown with `UpTo`.

`SymbolsStandStill` (the property `SymbolsStand` of run `code`), under the same
assumptions: a label is at the offset and the address of the first piece of its line, and when
the second pass comes to a line, its label has the very place the line will get. The
second pass knows labels the first one did not, so values differ between the
passes, checks differ, and the limits of ORG and ORGH may; the places must not. What
one pass does says nothing of the other, so the argument is about two states:
* `Twins(p, q, f)`: *p* is in the first pass, *q* in the second; while neither has failed, and
  *f* has the labels of *p*, both are at the same places (line, offset, mode, both
  addresses, scope, DITTO block) and *q* knows *f*. Every kind of line leads from
  twins to twins (`LabelTwins` to `DittoEndTwins`, together `ReadingTwins`). A line
  whose length depends on a value - RES, ORGF, ORG, ORGH, DITTO, the count of a
  datum - evaluates it with `Origin`, which fails in the first pass if it is not
  known, and what the first pass knows the second one knows the same (`TwinsValue`);
  all others have a length of their own (`InstructionPuts`).
* `Run(l, setting, n, r)`: *r* is the first pass from its start over *n* lines. While the first
  pass runs the invariant keeps that the state is the end of a run (`Running`); in
  the second pass it keeps that whole run and a moment of it whose twin is
  the state, with *f* the labels at the run's end (`Following`). Each line of the
  second pass moves that moment on by one (`FollowedFurther`), also when DITTO
  END goes back. No invariant of the state alone would do: which labels were
  known at a line of the first pass is gone when the second one gets there.
* `Placed`: a line with a label enters it, in the first pass, where the first piece
  it writes begins, behind the padding; `Kin` says that a line keeps the pieces in
  front of it, or takes some back, and adds only its own. So the twin's label stands where the
  line of the second pass is (`FollowedEntry`), and stays there (`Within`).
`AssemblerInv`, from which both theorems follow, is `Sound` (the image) and
`Firm` (the labels) together.

What is model-checked only, and why:

* `SameBytes` and `SecondBuildSame` of `ObjectCompiler`: that a cached build comes
  to what an uncached one does is false of the code in general (the runs
  `compile_third`, `compile_include` and `compile_reload`), and true of the inputs
  of `builds`. A theorem would need an assumption on `Source` that excludes those
  three, which the code does not justify.
* That the constants of accepted declarations have their meaning (`HaveMeanings`, a
  part of `FoldsToMeaning`; the meaning is recursive), the rest of the resolver, the
  elementizer, the distiller and the layout: their operators recur over their
  input, in the module itself or in the reference they are compared with. What
  such an operator computes for every input needs an induction that takes the
  statement as a parameter, which the provers cannot instantiate.
* `TextEnds`: liveness under fairness.

## Not modelled

* `utils/cordicQ.ts`, LOG, EXP and POW of `resolveOperation`: 64-bit numeric code
  whose correctness is a bound on an error, not a state.
* `parseUtils.ts`, `types.ts`: tables of the words of the language and of
  opcodes. A model would repeat them, and any slip with them.
* `pllCalc` and `determine_clock` (spinResolver.ts:952-1322): a search for the
  best setting of the clock, one pure function of numbers beyond 32 bits.
* File resolution (`spinFiles.ts`, `files.ts`, `context.ts`,
  `duplicateSources.ts`): file names are identities in all models, so two files
  of one base name, and paths that resolve differently from another folder
  (the cache's theory of operations names that as its boundary), do not arise.
* `spin2Parser.ts`, `mapGenerator.ts`, `objectSymbols.ts`, `logger.ts`, report
  writers and `regression.ts`: output of what the modelled parts computed.
* `pnut-ts.ts`, `cacheVerify.ts`: options, exit codes and messages.
* `ext/`: the interpreter and the debugger only as the meaning of what the
  compiler emits; loaders and clock setter not at all.
* `src/REF/`, `src/DOCs/`, scripts and tests of the repository: not part of the
  compiler.
* Within modelled parts: of the preprocessor what a line says (symbols and values,
  macro substitution, the comment lines it adds) and where an include file is
  searched; of the recursive compile m690/m691 and the layout JSON; of the
  elementizer the offsets in a line and the built-in words; of the assembler the
  packing of fields into bits.

## Plan

1. Proofs: that what the assembler writes for a line is what the line says
   (`AssembledAsWritten`), from the lemmas of `Code_proofs` on its operands.
2. `SourceFiles`: resolution order, documents by base name, files that include
   one another; composed with `ObjectCompiler` for `-U`, the resolution root and
   the nesting limit of hits.
3. Inputs that join two components of `MCCode`: calls within blocks, inline code
   within methods.
4. Command line: option combinations, exit codes, the two builds of
   `--cache-verify`.
