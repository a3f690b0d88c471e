---------------------------- MODULE Declarations ----------------------------
(***************************************************************************)
(* The declarations of an object: VAR variables, the table of its methods, *)
(* and the parameters, results and locals of each.  A method's header is   *)
(* read twice: the first pass counts what a caller pushes and gets, the    *)
(* second one, behind the DAT blocks, gives every name its place in the    *)
(* frame (spinResolver.ts compile1 and compile2).                          *)
(*                                                                         *)
(* A declared item has its base ("byte", "word", "long", "struct", or      *)
(* "none" where the source names no type), whether it is a pointer to      *)
(* that, the id and size of the structure, its alignment (0, 1 or 3), its  *)
(* name and its count (-1 without brackets).  In a VAR block an alignment  *)
(* is an item of its own, without a name, and the items of all lines are   *)
(* in one sequence, each of which says whether it is the first of a line.  *)
(***************************************************************************)
EXTENDS Integers, Sequences, FiniteSetsExt

CONSTANTS HubOrgLimit, SubsLimit, MethodParams, MethodResults, LocalsLimit

\* even an object without variables has the four bytes of its own pointer
ASSUME DeclarationsAssumption ==
  /\ HubOrgLimit \in Nat /\ HubOrgLimit >= 4
  /\ SubsLimit \in Nat /\ MethodParams \in Nat /\ MethodResults \in Nat /\ LocalsLimit \in Nat

VARIABLES blocks,       \* the object: a sequence of blocks
          pass,         \* the pass and the indices of the blocks it still has to visit
          mainSymbols,  \* name -> [type, id, at], of a variable also the size that varSymbolSizeMap has
          varPtr,       \* the next free byte of the variables
          methods,      \* a record for each long of the method table; those that are public are in pubConList
          offset,       \* the size of the image so far
          frames        \* for each compiled method, its name, symbols, locals and code
declVars == <<blocks, pass, mainSymbols, varPtr, methods, offset, frames>>

Fine == ""      \* no error so far
Nameless == ""
Longs(bytes) == (bytes + 3) \div 4
BaseSize(base) == CASE base = "byte" -> 1 [] base = "word" -> 2 [] OTHER -> 4
Base(i) == IF i.base = "none" THEN "long" ELSE i.base
Type(i) == [base |-> Base(i), ptr |-> i.ptr]
Id(i) == IF i.base = "struct" THEN i.id ELSE 0
Isnt(name, syms) == name \notin DOMAIN syms
With(syms, name, sym) == [n \in DOMAIN syms \cup {name} |-> IF n = name THEN sym ELSE syms[n]]
\* the first address at or behind a that has none of the bits of mask
Aligned(a, mask) == IF a % (mask + 1) = 0 THEN a ELSE a + (mask + 1) - (a % (mask + 1))
Refuse(s, why) == [s EXCEPT !.err = IF @ = Fine THEN why ELSE @]

BlocksOf(kind) == {k \in DOMAIN blocks : blocks[k].kind = kind}
\* an object of CON and DAT blocks alone is PASM
PasmMode(b) == (\E k \in DOMAIN b : b[k].kind = "dat") /\ \A k \in DOMAIN b : b[k].kind \in {"con", "dat"}
----------------------------------------------------------------------------
(* VAR blocks: s has the pointer, the symbols, and the type that the items *)
(* of a line hand to those behind them.                                    *)

AlignVar(s, mask) ==
  LET ptr == Aligned(s.ptr, mask)
  IN  IF ptr > HubOrgLimit THEN Refuse(s, "space") ELSE [s EXCEPT !.ptr = ptr]
\* a slip: an item that is no structure keeps the size of the one before it
CarriedKept(c, i) ==
  IF i.base = "none" THEN c
  ELSE [type |-> Type(i), id |-> IF i.base = "struct" THEN i.id ELSE c.id,
        size |-> IF i.base = "struct" /\ ~i.ptr THEN i.size ELSE c.size]
UnitSize(i) == IF i.ptr THEN 4 ELSE IF i.base = "struct" THEN i.size ELSE BaseSize(Base(i))
Carried(c, i) ==
  IF i.base = "none" THEN c
  ELSE [type |-> Type(i), id |-> IF i.base = "struct" THEN i.id ELSE c.id, size |-> UnitSize(i)]
LongByDefault == [type |-> [base |-> "long", ptr |-> FALSE], id |-> 0, size |-> 4]
Times(i) == IF i.count = -1 THEN 1 ELSE i.count
Recorded(s, i, c) ==
  LET size == Times(i) * c.size
  IN  IF ~Isnt(i.name, s.syms) THEN Refuse(s, "name")
      ELSE IF c.type.ptr /\ i.count # -1 THEN Refuse(s, "array")
      ELSE IF Times(i) > HubOrgLimit \/ s.ptr + size > HubOrgLimit THEN Refuse(s, "space")
      ELSE [s EXCEPT !.ptr = @ + size, !.syms = With(@, i.name, [type |-> c.type, id |-> c.id, at |-> s.ptr, size |-> size])]
VarItem(s, i) ==
  LET line == [s EXCEPT !.carried = IF i.first THEN LongByDefault ELSE @]
  IN  IF s.err # Fine THEN s
      ELSE IF i.name = Nameless THEN AlignVar(line, i.align)
      ELSE Recorded([line EXCEPT !.carried = Carried(@, i)], i, Carried(line.carried, i))
----------------------------------------------------------------------------
(* Method headers.                                                         *)

ValueLongs(i) == IF i.base = "struct" /\ ~i.ptr THEN Longs(i.size) ELSE 1
\* the first pass counts the longs of parameters or results
Counted(s, i, limit) ==
  IF s.err # Fine THEN s
  ELSE IF ~Isnt(i.name, mainSymbols) THEN Refuse(s, "name")
  ELSE IF s.n + ValueLongs(i) > limit THEN Refuse(s, "limit")
  ELSE [s EXCEPT !.n = @ + ValueLongs(i)]
\* of the locals it only asks for names, and that no pointer is an array
Scanned(s, i) ==
  IF s.err # Fine THEN s
  ELSE IF ~Isnt(i.name, mainSymbols) THEN Refuse(s, "name")
  ELSE IF i.ptr /\ i.count # -1 THEN Refuse(s, "array")
  ELSE s

\* a slip: the names of the header are not looked up among each other
PlacedAgain(f, i) ==
  IF f.err # Fine THEN f
  ELSE IF ~Isnt(i.name, mainSymbols) THEN Refuse(f, "name")
  ELSE [f EXCEPT !.at = @ + (4 * ValueLongs(i)), !.syms = With(@, i.name, [type |-> Type(i), id |-> Id(i), at |-> f.at])]
\* the second pass places them
Placed(f, i) ==
  IF f.err # Fine THEN f
  ELSE IF ~(Isnt(i.name, mainSymbols) /\ Isnt(i.name, f.syms)) THEN Refuse(f, "name")
  ELSE [f EXCEPT !.at = @ + (4 * ValueLongs(i)),
                 !.syms = With(@, i.name, [type |-> Type(i), id |-> Id(i), at |-> f.at])]
PlacedLocal(f, i) ==
  LET at == Aligned(f.at, i.align)
      end == at + (Times(i) * UnitSize(i))
  IN  IF f.err # Fine THEN f
      ELSE IF ~(Isnt(i.name, mainSymbols) /\ Isnt(i.name, f.syms)) THEN Refuse(f, "name")
      ELSE IF end > LocalsLimit THEN Refuse(f, "locals")
      ELSE [f EXCEPT !.at = end, !.syms = With(@, i.name, [type |-> Type(i), id |-> Id(i), at |-> at])]
----------------------------------------------------------------------------
(* The items of a block or header are read from front to back.             *)

Read(as, s, x) ==
  CASE as = "variable" -> VarItem(s, x)
    [] as = "parameter" -> Counted(s, x, MethodParams)
    [] as = "result" -> Counted(s, x, MethodResults)
    [] as = "local" -> Scanned(s, x)
    [] as = "value_place" -> Placed(s, x)
    [] as = "local_place" -> PlacedLocal(s, x)
ReadAll(as, s, seq) ==
  LET after[k \in 0..Len(seq)] == IF k = 0 THEN s ELSE Read(as, after[k - 1], seq[k])
  IN  after[Len(seq)]

CompileVarBlock(b) == ReadAll("variable", [ptr |-> varPtr, syms |-> mainSymbols, carried |-> LongByDefault, err |-> Fine], b.items)
SubId(b) ==
  LET p == ReadAll("parameter", [n |-> 0, err |-> IF Isnt(b.name, mainSymbols) THEN Fine ELSE "name"], b.params)
      r == ReadAll("result", [n |-> 0, err |-> p.err], b.results)
      l == ReadAll("local", [err |-> r.err], b.locals)
  IN  [params |-> p.n, results |-> r.n,
       err |-> IF l.err = Fine /\ Len(methods) > SubsLimit THEN "methods" ELSE l.err]
RfvarSize(v) == CASE v < 128 -> 1 [] v \in 128..16383 -> 2 [] OTHER -> 3
NoSymbols == [n \in {} |-> 0]
SubFrame(b) ==
  LET params == ReadAll("value_place", [at |-> 0, syms |-> NoSymbols, err |-> Fine], b.params)
      results == ReadAll("value_place", params, b.results)
      locals == ReadAll("local_place", results, b.locals)
  IN  [err |-> locals.err, syms |-> locals.syms, longs |-> Longs(locals.at - results.at)]
----------------------------------------------------------------------------
\* the object's instances have two longs each in front of the methods
SubStart ==
  LET longs[k \in 0..Len(blocks)] ==
        IF k = 0 THEN 0 ELSE longs[k - 1] + (IF blocks[k].kind = "obj" THEN 2 * blocks[k].count ELSE 0)
  IN  longs[Len(blocks)]
\* the place in the table that a method's symbol leads to
Entry(symbol) == symbol.at - SubStart + 1

Idle == pass = [at |-> "idle", todo |-> {}] /\ varPtr = 4 /\ methods = <<>> /\ offset = 0 /\ frames = <<>>
DeclarationsInit == mainSymbols = NoSymbols /\ Idle

To(name, todo) == pass' = [at |-> name, todo |-> todo]
Stop(why) == pass' = [at |-> why, todo |-> {}]
Visits(name) == pass.at = name /\ pass.todo # {}
Ended(name) == pass.at = name /\ pass.todo = {}
Visited == Min(pass.todo)
Block == blocks[Visited]

Begin ==
  /\ pass.at = "idle"
  /\ IF PasmMode(blocks) THEN To("dat", BlocksOf("dat")) /\ UNCHANGED varPtr
     ELSE To("var", BlocksOf("var")) /\ varPtr' = 4
  /\ offset' = 4 * SubStart
  /\ UNCHANGED <<blocks, mainSymbols, methods, frames>>

\* a name that two blocks of the object declare is refused where it comes second
VarBlock ==
  /\ Visits("var")
  /\ LET s == CompileVarBlock(Block)
     IN  /\ varPtr' = s.ptr /\ mainSymbols' = s.syms
         /\ IF s.err = Fine THEN To("var", pass.todo \ {Visited}) ELSE Stop(s.err)
  /\ UNCHANGED <<blocks, methods, offset, frames>>
\* ownVarSize is varPtr from here on, until the child objects are added to it (Objects)
EndVar ==
  /\ Ended("var")
  /\ varPtr' = Aligned(varPtr, 3)
  /\ IF varPtr' > HubOrgLimit THEN Stop("space") ELSE To("pubs", BlocksOf("pub"))
  /\ UNCHANGED <<blocks, mainSymbols, methods, offset, frames>>

\* the table has a long for each PUB, then for each PRI, and one for the end
MethodId(name) ==
  /\ Visits(name)
  /\ LET h == SubId(Block)
     IN  IF h.err # Fine THEN Stop(h.err) /\ UNCHANGED <<mainSymbols, methods, offset>>
         ELSE /\ mainSymbols' = With(mainSymbols, Block.name,
                                     [params |-> h.params, results |-> h.results, at |-> offset \div 4])
              /\ methods' = Append(methods, [of |-> Block.name, public |-> name = "pubs",
                                         params |-> h.params, results |-> h.results, code |-> 0])
              /\ offset' = offset + 4
              /\ To(name, pass.todo \ {Visited})
  /\ UNCHANGED <<blocks, varPtr, frames>>
EndPubs ==
  /\ Ended("pubs")
  /\ IF methods = <<>> THEN Stop("no_method") ELSE To("pris", BlocksOf("pri"))
  /\ UNCHANGED <<blocks, mainSymbols, varPtr, methods, offset, frames>>
EndPris ==
  /\ Ended("pris")
  /\ methods' = Append(methods, [of |-> Nameless, public |-> FALSE, params |-> 0, results |-> 0, code |-> 0])
  /\ offset' = offset + 4
  /\ To("dat", BlocksOf("dat"))
  /\ UNCHANGED <<blocks, mainSymbols, varPtr, frames>>

\* what the assembler does is the names of a block and its bytes
DatBlock ==
  /\ Visits("dat")
  /\ IF Isnt(Block.name, mainSymbols)
     THEN mainSymbols' = With(mainSymbols, Block.name, [at |-> offset]) /\ To("dat", pass.todo \ {Visited})
     ELSE Stop("name") /\ UNCHANGED mainSymbols
  /\ offset' = offset + Block.size
  /\ UNCHANGED <<blocks, varPtr, methods, frames>>
EndDat ==
  /\ Ended("dat")
  /\ IF PasmMode(blocks) THEN Stop("done") ELSE To("pub_code", BlocksOf("pub"))
  /\ UNCHANGED <<blocks, mainSymbols, varPtr, methods, offset, frames>>

\* The offset is or-ed into the long of the table, whose low bits are 0 until then.  The code is
\* the number of longs to clear, the instructions and a return; subResults is for those (Calls).
\* The symbols of a method are forgotten behind it: SubFrame starts without any.
Method(name) ==
  /\ Visits(name)
  /\ LET f == SubFrame(Block)
         entry == Entry(mainSymbols[Block.name])
         code == RfvarSize(f.longs) + Block.size + 1
     IN  IF f.err # Fine THEN Stop(f.err) /\ UNCHANGED <<methods, offset, frames>>
         ELSE /\ methods' = [methods EXCEPT ![entry].code = offset]
              /\ frames' = Append(frames, [block |-> Visited, syms |-> f.syms, longs |-> f.longs,
                                           code |-> offset, end |-> offset + code])
              /\ offset' = offset + code
              /\ To(name, pass.todo \ {Visited})
  /\ UNCHANGED <<blocks, mainSymbols, varPtr>>
EndPubCode ==
  /\ Ended("pub_code")
  /\ To("pri_code", BlocksOf("pri"))
  /\ UNCHANGED <<blocks, mainSymbols, varPtr, methods, offset, frames>>
\* the long behind the entry of the method compiled last gets the end of the code
FinalOfPubs == mainSymbols[blocks[Max(BlocksOf("pub"))].name]
FinalSymbol == IF BlocksOf("pri") = {} THEN FinalOfPubs ELSE mainSymbols[blocks[Max(BlocksOf("pri"))].name]
EndPriCode ==
  /\ Ended("pri_code")
  /\ methods' = [methods EXCEPT ![Entry(FinalSymbol) + 1].code = offset]
  /\ Stop("done")
  /\ UNCHANGED <<blocks, mainSymbols, varPtr, offset, frames>>

DeclarationsNext ==
  \/ Begin \/ VarBlock \/ EndVar
  \/ MethodId("pubs") \/ EndPubs \/ MethodId("pris") \/ EndPris
  \/ DatBlock \/ EndDat
  \/ Method("pub_code") \/ EndPubCode \/ Method("pri_code") \/ EndPriCode
----------------------------------------------------------------------------
(* Counts are those that getValue returns, never negative.                 *)
AreItems(list) ==
  /\ Len(list) \in Nat /\ DOMAIN list = 1..Len(list)
  /\ \A j \in DOMAIN list : /\ list[j].ptr \in BOOLEAN /\ list[j].first \in BOOLEAN
                             /\ list[j].size \in Nat /\ list[j].align \in {0, 1, 3} /\ list[j].count \in Nat \cup {-1}
AreBlocks ==
  /\ Len(blocks) \in Nat /\ DOMAIN blocks = 1..Len(blocks)
  /\ \A k \in DOMAIN blocks :
       /\ blocks[k].kind = "var" => AreItems(blocks[k].items)
       /\ blocks[k].kind \in {"pub", "pri"} =>
            AreItems(blocks[k].params) /\ AreItems(blocks[k].results) /\ AreItems(blocks[k].locals)
       /\ blocks[k].kind \in {"pub", "pri", "dat"} => blocks[k].size \in Nat
       /\ blocks[k].kind = "obj" => blocks[k].count \in Nat
DeclarationsSpec == AreBlocks /\ DeclarationsInit /\ [][DeclarationsNext]_declVars

Errors == {"space", "name", "array", "limit", "methods", "locals", "no_method"}

\* what item j of VAR block k is: a long, or what the last typed item of the line up to it says
Typing(k, j) == {h \in 1..j : LET list == blocks[k].items
                              IN  /\ list[h].name # Nameless /\ list[h].base # "none"
                                  /\ \A g \in (h + 1)..j : ~list[g].first}
Meant(k, j) == IF Typing(k, j) = {} THEN [base |-> "none", ptr |-> FALSE] ELSE blocks[k].items[Max(Typing(k, j))]
Variables(k) == {j \in DOMAIN blocks[k].items : blocks[k].items[j].name # Nameless}
Symbol(k, j) == mainSymbols[blocks[k].items[j].name]
Follow(k, j) ==
  \A l \in BlocksOf("var") : \A h \in Variables(l) :
    l < k \/ (l = k /\ h < j) => Symbol(l, h).at + Symbol(l, h).size <= Symbol(k, j).at
OwnBytes(k, j) ==
  LET list == blocks[k].items
      sym == Symbol(k, j)
  IN  /\ list[j].name \in DOMAIN mainSymbols
      /\ sym.type = Type(Meant(k, j)) /\ (list[j].base = "struct" => sym.id = list[j].id)
      /\ sym.size = Times(list[j]) * UnitSize(Meant(k, j))
      /\ 4 <= sym.at /\ sym.at + sym.size <= varPtr
      /\ j > 1 /\ list[j - 1].name = Nameless => sym.at % (list[j - 1].align + 1) = 0
\* behind the object's pointer, in the order of the source, within the size the object has in its
\* parent; the map reads the same sizes (761)
VariablesOwn ==
  pass.at \notin (Errors \cup {"idle", "var"}) =>
    /\ varPtr % 4 = 0
    /\ \A k \in BlocksOf("var") : \A j \in Variables(k) : OwnBytes(k, j) /\ Follow(k, j)

\* the values lie one behind the other from one byte to another
Packed(syms, list, from, to) ==
  /\ Len(list) = 0 => from = to
  /\ Len(list) > 0 => /\ syms[list[1].name].at = from
                       /\ syms[list[Len(list)].name].at + (4 * ValueLongs(list[Len(list)])) = to
  /\ \A j \in 1..(Len(list) - 1) : syms[list[j + 1].name].at = syms[list[j].name].at + (4 * ValueLongs(list[j]))
\* the locals lie one behind the other, aligned, between two bytes
Between(syms, list, from, to) ==
  \A j \in DOMAIN list :
    LET at == syms[list[j].name].at
        end == at + (Times(list[j]) * UnitSize(list[j]))
    IN  /\ at % (list[j].align + 1) = 0 /\ from <= at /\ end <= to
        /\ \A h \in (j + 1)..Len(list) : end <= syms[list[h].name].at
FrameAgrees(f) ==
  LET b == blocks[f.block]
      e == methods[Entry(mainSymbols[b.name])]
      values == 4 * (e.params + e.results)
  IN  /\ Packed(f.syms, b.params, 0, 4 * e.params) /\ Packed(f.syms, b.results, 4 * e.params, values)
      /\ Between(f.syms, b.locals, values, values + (4 * f.longs))
\* the parameters fill the longs that the table's entry makes a caller push, the results start behind
\* them and fill the longs it makes the caller get, and the method's own code clears the locals' longs
FramesAgree == \A n \in DOMAIN frames : FrameAgrees(frames[n])

\* in the order of the table and without gaps
TableLeadsToCode ==
  pass.at = "done" /\ ~PasmMode(blocks) =>
    /\ Len(methods) = Len(frames) + 1 /\ methods[Len(methods)].code = offset
    /\ \A n \in DOMAIN frames :
         /\ methods[n].code = frames[n].code /\ methods[n + 1].code = frames[n].end
         /\ methods[n].of = blocks[frames[n].block].name /\ (methods[n].public <=> blocks[frames[n].block].kind = "pub")
         /\ Entry(mainSymbols[methods[n].of]) = n
    /\ {frames[n].block : n \in DOMAIN frames} = BlocksOf("pub") \cup BlocksOf("pri")

\* Every variable has the type its line gives it and bytes of its own, aligned and in the order of the
\* source, within the size the object has in its parent (spinResolver.ts:753, 767).  A frame is what
\* callers take it for: parameters, results and locals lie in the longs that the method table makes
\* a caller push and get and that the method clears (3272, 3302, 3735).  Every entry of the table
\* leads to the code of its own method, and its last long to where the code ends (3553, 3731).
MemoryOwned == VariablesOwn /\ FramesAgree /\ TableLeadsToCode
----------------------------------------------------------------------------
(* What an object has to be, read from its source alone.                   *)

\* the names that block k gives to the whole object: those of its items, or its own
DeclaredIn(k) == CASE blocks[k].kind = "var" -> Variables(k) [] blocks[k].kind \in {"dat", "pub", "pri"} -> {0} [] OTHER -> {}
NameAt(k, j) == IF j = 0 THEN blocks[k].name ELSE blocks[k].items[j].name
GlobalNamesApart ==
  \A k, l \in DOMAIN blocks : \A j \in DeclaredIn(k), h \in DeclaredIn(l) : NameAt(k, j) = NameAt(l, h) => k = l /\ j = h
HeaderLists(k) == <<blocks[k].params, blocks[k].results, blocks[k].locals>>
HeaderNamesApart(k) ==
  \A x, y \in 1..3 : \A j \in DOMAIN HeaderLists(k)[x], h \in DOMAIN HeaderLists(k)[y] :
    HeaderLists(k)[x][j].name = HeaderLists(k)[y][h].name => x = y /\ j = h
HeaderNamesNew(k) ==
  \A x \in 1..3 : \A j \in DOMAIN HeaderLists(k)[x] :
    \A l \in DOMAIN blocks : \A h \in DeclaredIn(l) : HeaderLists(k)[x][j].name # NameAt(l, h)
NoPointerArray ==
  /\ \A k \in BlocksOf("var") : \A j \in Variables(k) : Meant(k, j).ptr => blocks[k].items[j].count = -1
  /\ \A k \in BlocksOf("pub") \cup BlocksOf("pri") : \A j \in DOMAIN blocks[k].locals :
       blocks[k].locals[j].ptr => blocks[k].locals[j].count = -1
TotalLongs(list) ==
  LET longs[n \in 0..Len(list)] == IF n = 0 THEN 0 ELSE longs[n - 1] + ValueLongs(list[n])
  IN  longs[Len(list)]
MethodsFit ==
  /\ Cardinality(BlocksOf("pub") \cup BlocksOf("pri")) <= SubsLimit + 1
  /\ \A k \in BlocksOf("pub") \cup BlocksOf("pri") :
       TotalLongs(blocks[k].params) <= MethodParams /\ TotalLongs(blocks[k].results) <= MethodResults
Legal ==
  /\ PasmMode(blocks) \/ BlocksOf("pub") # {}
  /\ GlobalNamesApart
  /\ \A k \in BlocksOf("pub") \cup BlocksOf("pri") : HeaderNamesApart(k) /\ HeaderNamesNew(k)
  /\ NoPointerArray
  /\ MethodsFit

\* An object is refused exactly when it has no method, a name with two meanings where it is seen, a
\* pointer array, or more methods, parameters or results than there is room for; this holds although
\* a name that is declared behind a header is met by the second pass only (spinResolver.ts:3268,
\* 3612).  One that is accepted also fits into the memory there is for its variables; that those of
\* one refused for space do not, or the locals of a method, is not said here.
RefusedRightly ==
  /\ AreBlocks
  /\ pass.at = "done" => Legal /\ varPtr <= HubOrgLimit
  /\ pass.at \in Errors \ {"space", "locals"} => ~Legal
=============================================================================
