------------------------------ MODULE Objects -------------------------------
(***************************************************************************)
(* The image of an object: a table of its child objects, its methods, its  *)
(* code, and behind them the images of the children.  The distiller merges *)
(* objects that are the same.  An image is a sequence of longs, addresses  *)
(* are bytes.  A file stands for a source with its overrides.              *)
(***************************************************************************)
EXTENDS Integers, Sequences, SequencesExt, FiniteSetsExt

CONSTANTS ObjsLimit,  \* child objects of an object
          VarLimit    \* bytes of variables

VARIABLES program,    \* file -> its child objects, variables, methods and code; children have higher numbers
          built,      \* file -> its finished image, as its parents read it
          work        \* the object that is being compiled

objects == <<program, built, work>>
Files == DOMAIN program
NoList == <<>>
Idle == [phase |-> "idle", file |-> 0, image |-> <<>>, sites |-> {}, vars |-> 0, symbols |-> <<>>, list |-> NoList, err |-> ""]
Init == built = <<>> /\ work = Idle

Cell(k, v) == [k |-> k, v |-> v]
At(image, bytes) == image[(bytes \div 4) + 1]
Size(image) == 4 * Len(image)
Phase(p) == work.phase = p /\ work.err = ""
Step(next) == work' = next /\ UNCHANGED <<program, built>>
Subs(f) == program[f].subs
Instances(f) == FoldLeft(LAMBDA n, s : n + s.count, 0, Subs(f))
\* the declaration that an entry of the table is of
EntriesOf(f) == FlattenSeq([d \in DOMAIN Subs(f) |-> [i \in 1..Subs(f)[d].count |-> d]])
----------------------------------------------------------------------------
(* The table of child objects, with the number of the declaration in it.   *)
DeclareObjects ==
  \E f \in Files \ DOMAIN built :
    /\ Phase("idle") /\ \A g \in Files \ DOMAIN built : g <= f
    /\ Step([Idle EXCEPT !.phase = "symbols", !.file = f,
                         !.image = FlattenSeq([i \in 1..Instances(f) |-> <<Cell("sub", EntriesOf(f)[i]), Cell("var", 0)>>]),
                         !.err = IF Instances(f) > ObjsLimit + 1 THEN "limit of OBJ instances exceeded" ELSE ""])

\* longs of the table in front of the first method
Leading(image) == IF image[1].k = "method" THEN 0 ELSE Min({i \in DOMAIN image : image[i].k = "method"}) - 1
TableLongs(image) == Leading(image)
Accepted(child) == child.vars % 4 = 0 /\ child.size % 4 = 0
\* what the parent sees of its children: a method is known by its long in the table
CompileObjSymbols ==
  /\ Phase("symbols")
  /\ LET child(d) == built[Subs(work.file)[d].file]
         pubs(d) == SelectSeq(child(d).list, LAMBDA e : e.k = "pub")
     IN  Step([work EXCEPT !.phase = "methods",
                           !.symbols = [d \in DOMAIN Subs(work.file) |->
                                          [n \in {pubs(d)[i].v : i \in DOMAIN pubs(d)} |->
                                             TableLongs(child(d).image) + (CHOOSE i \in DOMAIN pubs(d) : pubs(d)[i].v = n) - 1]],
                           !.err = IF \A d \in DOMAIN Subs(work.file) : Accepted(child(d)) THEN "" ELSE "invalid object image"])

\* the methods, the size of what is there so far and the code with its breaks
Methods ==
  /\ Phase("methods")
  /\ LET p == program[work.file]
         start == Size(work.image) + (4 * (p.methods + 1))
         size == start + (4 * Len(p.body)) - p.slack
         table == [i \in 1..p.methods |-> Cell("method", i)] \o <<Cell("size", size)>>
     IN  Step([work EXCEPT !.phase = "children", !.vars = p.vars,
                           !.image = @ \o table \o [i \in DOMAIN p.body |-> Cell(p.body[i], p.code)],
                           !.sites = {start + (4 * (i - 1)) : i \in {j \in DOMAIN p.body : p.body[j] = "brk"}}])

\* the sites of a child are eight bytes on, where its head was
Relocated(sites, start, size) == {start + s - 8 : s \in {x \in sites : x - 8 \in 0..size - 1}}
SitesOf(child, start) == Relocated(child.sites, start, child.size)
AppendChild(w, d) ==
  LET child == built[Subs(w.file)[d].file]
  IN  [w EXCEPT !.image = @ \o child.image, !.sites = @ \cup SitesOf(child, Size(w.image))]
\* the entries get the place of the image of the child and of its variables
VarsBefore(w, i) == FoldLeft(LAMBDA n, d : n + built[Subs(w.file)[d].file].vars, w.vars, SubSeq(EntriesOf(w.file), 1, i))
VarPtr(w, i) == VarsBefore(w, i)
CompileObjBlocks ==
  /\ Phase("children")
  /\ LET ds == [d \in DOMAIN Subs(work.file) |-> d]
         start(d) == Size(FoldLeft(AppendChild, work, SubSeq(ds, 1, d - 1)).image)
         entries == EntriesOf(work.file)
         image == FoldLeft(AppendChild, work, ds).image
         linked == [i \in DOMAIN image |->
                      IF i > 2 * Len(entries) THEN image[i]
                      ELSE IF i % 2 = 1 THEN Cell("sub", start(image[i].v)) ELSE Cell("var", VarPtr(work, (i \div 2) - 1))]
         vars == VarsBefore(work, Len(entries))
     IN  Step([FoldLeft(AppendChild, work, ds) EXCEPT !.phase = "distill", !.image = linked, !.vars = vars,
                                                      !.err = IF vars > VarLimit THEN "too much variable space" ELSE ""])
----------------------------------------------------------------------------
(* The distiller.  A record of the list is [id, at, size, subs]; a         *)
(* reference to a child is done when a merge has settled what it is.       *)

SubCount(image, at) == (CHOOSE n \in 0..Len(image) : At(image, at + (8 * n)).k # "sub" /\ \A m \in 0..n - 1 : At(image, at + (8 * m)).k = "sub")
SizeAt(image, at) == image[Min({i \in (at \div 4) + 1..Len(image) : image[i].k = "size"})].v
RECURSIVE BuildObjectTree(_, _, _, _)
BuildObjectTree(image, id, at, next) ==
  LET n == SubCount(image, at)
      record == [id |-> id, at |-> at, size |-> SizeAt(image, at), subs |-> [i \in 1..n |-> [id |-> next + i - 1, done |-> FALSE]]]
  IN  FoldLeft(LAMBDA r, i : LET t == BuildObjectTree(image, next + i - 1, at + At(image, at + (8 * (i - 1))).v, r.next)
                             IN  [list |-> r.list \o t.list, next |-> t.next],
               [list |-> <<record>>, next |-> next + n], [i \in 1..n |-> i])
TableCells(list) == UNION {{(r.at \div 4) + (2 * i) - 1 : i \in DOMAIN r.subs} : r \in Range(list)}
ScrubObjectOffsets(image, list) == [i \in DOMAIN image |-> IF i \in TableCells(list) THEN Cell("sub", 0) ELSE image[i]]
BeginDistilling ==
  /\ Phase("distill")
  /\ LET list == BuildObjectTree(work.image, 0, 0, 1).list
     IN  Step([work EXCEPT !.phase = "eliminate", !.list = list, !.image = ScrubObjectOffsets(@, list)])

Longs(r) == (r.size + 3) \div 4
Content(r) == SubSeq(work.image, (r.at \div 4) + 1, (r.at \div 4) + Longs(r))
\* a slip: which objects the children are is not compared
SameBytes(r, s) == r.size = s.size /\ Content(r) = Content(s)
AreRecordsEquivalent(r, s) == SameBytes(r, s) /\ r.subs = s.subs
ReplaceSubObjectId(list, old, new) ==
  [x \in DOMAIN list |-> [list[x] EXCEPT !.subs = [i \in DOMAIN @ |-> IF @[i].id \in {old, new} THEN [id |-> new, done |-> TRUE] ELSE @[i]]]]
Matches ==
  {m \in (DOMAIN work.list) \X (DOMAIN work.list) :
     /\ m[1] < m[2] /\ AreRecordsEquivalent(work.list[m[1]], work.list[m[2]])
     /\ \A i \in DOMAIN work.list[m[1]].subs : work.list[m[1]].subs[i].done}
FirstMatch == CHOOSE m \in Matches : \A o \in Matches : m[1] < o[1] \/ (m[1] = o[1] /\ m[2] <= o[2])
\* the later of two equal objects stays
EliminateRedundantObjects ==
  /\ Phase("eliminate") /\ Matches # {}
  /\ Step([work EXCEPT !.list = RemoveAt(ReplaceSubObjectId(@, @[FirstMatch[1]].id, @[FirstMatch[2]].id), FirstMatch[1])])

NewAt(list, x) == FoldLeft(LAMBDA n, r : n + (4 * Longs(r)), 0, SubSeq(list, 1, x - 1))
Moved(list, s) ==
  LET from == {x \in DOMAIN list : s >= list[x].at /\ s < list[x].at + (4 * Longs(list[x]))}
  IN  IF from = {} THEN {} ELSE {NewAt(list, Min(from)) + s - list[Min(from)].at}
RebuildOptimizedImage ==
  /\ Phase("eliminate") /\ Matches = {}
  /\ Step([work EXCEPT !.phase = "reconnect", !.image = FlattenSeq([x \in DOMAIN work.list |-> Content(work.list[x])]),
                       !.sites = UNION {Moved(work.list, s) : s \in @},
                       !.list = [x \in DOMAIN @ |-> [@[x] EXCEPT !.at = NewAt(work.list, x)]]])

\* every object of the list is reached from the first
PlaceOf(list, id) == list[CHOOSE x \in DOMAIN list : list[x].id = id].at
Entries(list) ==
  UNION {{[cell |-> (list[x].at \div 4) + (2 * i) - 1, place |-> PlaceOf(list, list[x].subs[i].id) - list[x].at] : i \in DOMAIN list[x].subs} :
           x \in DOMAIN list}
ReconnectReferences ==
  /\ Phase("reconnect")
  /\ Step([work EXCEPT !.phase = "final", !.list = NoList,
                       !.image = FoldSet(LAMBDA e, image : [image EXCEPT ![e.cell] = Cell("sub", e.place)], @, Entries(work.list))])

\* a head of two longs, the checksum and the names of the object
CompileFinal ==
  /\ Phase("final")
  /\ built' = [f \in DOMAIN built \cup {work.file} |->
                 IF f # work.file THEN built[f]
                 ELSE [vars |-> work.vars, size |-> Size(work.image), image |-> work.image, sites |-> {s + 8 : s \in work.sites},
                       list |-> program[f].list, symbols |-> work.symbols]]
  /\ work' = Idle /\ UNCHANGED program

Next == DeclareObjects \/ CompileObjSymbols \/ Methods \/ CompileObjBlocks \/ BeginDistilling \/ EliminateRedundantObjects
        \/ RebuildOptimizedImage \/ ReconnectReferences \/ CompileFinal
=============================================================================
