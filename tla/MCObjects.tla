----------------------------- MODULE MCObjects ------------------------------
(***************************************************************************)
(* Programs of four files: a top object over two others over a fourth, in  *)
(* arrays and alone, with sources that differ and sources that are the     *)
(* same.  The references read the program, and walk through the image as   *)
(* the interpreter does.                                                   *)
(***************************************************************************)
EXTENDS Layout, FiniteSets, TLC

Sub(f, n) == [file |-> f, count |-> n]
Pub(n) == [k |-> "pub", v |-> n]
File(code, vars, methods, body, slack, subs) ==
  [code |-> code, vars |-> vars, methods |-> methods, body |-> body, slack |-> slack, subs |-> subs,
   list |-> <<[k |-> "con", v |-> 0]>> \o [n \in 1..methods |-> Pub(n)]]
Tops == {<<Sub(2, 1), Sub(3, 1)>>, <<Sub(3, 1), Sub(2, 2)>>, <<Sub(2, 1), Sub(4, 2)>>, <<Sub(4, 1), Sub(3, 2), Sub(2, 1)>>}
Middles == {<<>>, <<Sub(4, 2)>>, <<Sub(5, 1)>>, <<Sub(5, 1), Sub(4, 1)>>}
Leaves == {File("x", v, 1, <<"brk", "code">>, s, <<>>) : v \in {4, 8}, s \in {0, 3}} \cup {File("y", 4, 1, <<"code">>, 0, <<>>)}
Programs ==
  {<<File("top", 12, 2, <<"brk">>, 2, top), File("m", 4, 2, <<"code", "brk">>, 1, a), File(c, 4, 2, <<"code", "brk">>, 1, b), l,
     File("x", 4, 1, <<"brk", "code">>, 0, <<>>)>> :
     top \in Tops, a \in Middles, b \in Middles, c \in {"m", "n"}, l \in Leaves}
MCInit == program \in Programs /\ LayoutInit

----------------------------------------------------------------------------
Finished == DOMAIN built = Files
OwnCells(f) ==
  [m \in 1..program[f].methods |-> Cell("method", m)]
  \o <<Cell("size", (8 * Instances(f)) + (4 * (program[f].methods + 1 + Len(program[f].body))) - program[f].slack)>>
  \o [i \in DOMAIN program[f].body |-> Cell(program[f].body[i], program[f].code)]
RECURSIVE Meant(_)
Meant(f) == [own |-> OwnCells(f), subs |-> [i \in DOMAIN EntriesOf(f) |-> Meant(program[f].subs[EntriesOf(f)[i]].file)]]
OwnOf(image, at) ==
  LET n == SubCount(image, at) IN SubSeq(image, (at \div 4) + (2 * n) + 1, (at \div 4) + ((SizeAt(image, at) + 3) \div 4))
RECURSIVE Found(_, _)
Found(image, at) ==
  [own |-> OwnOf(image, at),
   subs |-> [i \in 1..SubCount(image, at) |-> Found(image, at + At(image, at + (8 * (i - 1))).v)]]
RECURSIVE Reached(_, _)
Reached(image, at) == {at} \cup UNION {Reached(image, at + At(image, at + (8 * (i - 1))).v) : i \in 1..SubCount(image, at)}

(* The objects that are reached from the table of an image are those of    *)
(* the source, however many have been merged and moved.                    *)
SameObjects == \A f \in DOMAIN built : Found(built[f].image, 0) = Meant(f)

(* Nothing is left to merge: two objects of an image differ, in their code *)
(* or in an object below them, and no object of it is out of reach.        *)
VarsOf(image, at) == [i \in 1..SubCount(image, at) |-> At(image, at + (8 * i) - 4)]
RECURSIVE Shape(_, _)
Shape(image, at) ==
  [own |-> OwnOf(image, at), vars |-> VarsOf(image, at),
   subs |-> [i \in 1..SubCount(image, at) |-> Shape(image, at + At(image, at + (8 * (i - 1))).v)]]
NothingLeftToMerge ==
  \A f \in DOMAIN built :
    LET image == built[f].image
        reached == Reached(image, 0)
    IN  /\ Cardinality({Shape(image, at) : at \in reached}) = Cardinality(reached)
        /\ FoldSet(LAMBDA at, n : n + ((SizeAt(image, at) + 3) \div 4), 0, reached) = Len(image)

(* The recorded sites of the breaks of an image are its breaks, those of   *)
(* the child objects in it too.                                            *)
ChildBreaksSited ==
  \A f \in DOMAIN built : {(s - 8) \div 4 + 1 : s \in built[f].sites} = {i \in DOMAIN built[f].image : built[f].image[i].k = "brk"}

(* A method of a child object is called by the long of the child's table   *)
(* at which the method is.                                                 *)
PubsIndexed ==
  \A f \in DOMAIN built : \A d \in DOMAIN built[f].symbols : \A n \in DOMAIN built[f].symbols[d] :
    LET image == built[program[f].subs[d].file].image
        x == built[f].symbols[d][n]
    IN  x \in 0..Len(image) - 1 /\ image[x + 1] = Cell("method", n)

RECURSIVE Variables(_, _, _)
Variables(f, at, base) ==
  LET image == Image
      n == SubCount(image, at)
      sub(i) == Variables(program[f].subs[EntriesOf(f)[i]].file, at + At(image, at + (8 * (i - 1))).v, base + At(image, at + (8 * i) - 4).v)
  IN  <<[from |-> base, to |-> base + program[f].vars]>> \o FlattenSeq([i \in 1..n |-> sub(i)])
(* Every object that runs has variables of its own, and together they fill *)
(* what the program says it needs.                                         *)
OwnVariables ==
  TopFile \in DOMAIN built =>
    LET vs == Variables(TopFile, 0, 0)
    IN  /\ \A i, j \in DOMAIN vs : i # j => vs[i].to <= vs[j].from \/ vs[j].to <= vs[i].from
        /\ FoldLeft(LAMBDA n, v : n + v.to - v.from, 0, vs) = built[TopFile].vars /\ \A i \in DOMAIN vs : vs[i].to <= built[TopFile].vars

RECURSIVE Declared(_, _, _)
Total(f) == FoldLeft(LAMBDA n, v : n + v.vars, 0, Declared(f, <<>>, 0))
Declared(f, path, var) ==
  LET e == EntriesOf(f)
      file(i) == program[f].subs[e[i]].file
      before(i) == FoldLeft(LAMBDA n, j : n + Total(file(j)), program[f].vars, [j \in 1..i - 1 |-> j])
      element(i) == Cardinality({j \in 1..i - 1 : e[j] = e[i]})
  IN  <<[path |-> path, file |-> f, var |-> var, vars |-> program[f].vars]>>
      \o FlattenSeq([i \in DOMAIN e |-> Declared(file(i), Append(path, <<e[i] - 1, element(i)>>), var + before(i))])
(* The layout of a compiled program succeeds and names every declared      *)
(* object once, with its own variables, and users of one image are of one  *)
(* code.                                                                   *)
LayoutOfProgram ==
  layout.done =>
    /\ layout.bad = {}
    /\ [i \in DOMAIN layout.instances |->
          LET x == layout.instances[i] IN [path |-> x.path, file |-> x.file, var |-> x.var, vars |-> x.vars]] = Declared(TopFile, <<>>, 0)
    /\ \A n \in DOMAIN layout.images : Cardinality({Meant(u.file) : u \in layout.images[n].users}) = 1
=============================================================================
