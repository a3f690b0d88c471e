------------------------------- MODULE Layout -------------------------------
(***************************************************************************)
(* The layout of a finished program: the declarations the compiler has     *)
(* recorded are laid over the tables of the image, and every instance gets *)
(* the place of its code and of its variables.  What does not fit is a     *)
(* failure.                                                                *)
(***************************************************************************)
EXTENDS Objects

VARIABLE layout  \* what the map of the program is made from, or nothing yet

NoLayout == [instances |-> <<>>, images |-> <<>>, bad |-> {}, done |-> FALSE]
TopFile == 1
Image == built[TopFile].image
----------------------------------------------------------------------------
(* The recorded tree: the compiler records each declaration as it comes to *)
(* it, with the number of the one that is around it.                       *)

RECURSIVE Recorded(_, _, _)
Recorded(list, f, parent) ==
  FoldLeft(LAMBDA l, d : LET s == program[f].subs[d]
                             own == [parent |-> parent, position |-> d - 1, file |-> s.file, count |-> s.count]
                         IN  Recorded(Append(l, own), s.file, Len(l) + 1),
           list, [d \in DOMAIN program[f].subs |-> d])
Children(list, id) ==
  SetToSortSeq({i \in DOMAIN list : list[i].parent = id}, LAMBDA i, j : list[i].position < list[j].position)
----------------------------------------------------------------------------
(* The tables.                                                             *)

DecodeHeader(at) ==
  LET slots == SubCount(Image, at)
      end == Min({i \in (at \div 4) + 1..Len(Image) : Image[i].k = "size"})
      methods == end - 1 - (at \div 4) - (2 * slots)
      pair(i) == [code |-> At(Image, at + (8 * (i - 1))).v, var |-> At(Image, at + (8 * (i - 1)) + 4).v]
  IN  [slots |-> [i \in 1..slots |-> pair(i)], methods |-> methods, size |-> Image[end].v, bytes |-> (4 * end) - at]
BadHeader(h, at) ==
  \/ h.methods = 0 \/ h.size < h.bytes \/ at + h.size > Size(Image)
  \/ \E i \in DOMAIN h.slots : h.slots[i].code = 0 \/ at + h.slots[i].code >= Size(Image)

\* the variables of an element end where those of the next slot begin
\* a slip: the last slot ends with the variables of the program
ExtentToTheEnd(slots, i, extent) == (IF i < Len(slots) THEN slots[i + 1].var ELSE built[TopFile].vars) - slots[i].var
ChildExtent(slots, i, extent) == (IF i < Len(slots) THEN slots[i + 1].var ELSE extent) - slots[i].var
RECURSIVE Visit(_, _, _, _, _, _)
Visit(list, node, path, at, var, extent) ==
  LET h == DecodeHeader(at)
      f == IF node = 0 THEN TopFile ELSE list[node].file
      children == Children(list, node)
      slotsOf == FlattenSeq([c \in DOMAIN children |-> [e \in 1..list[children[c]].count |-> <<children[c], e - 1>>]])
      varBytes == IF h.slots = <<>> THEN extent ELSE h.slots[1].var
      below(i) == Visit(list, slotsOf[i][1], Append(path, <<list[slotsOf[i][1]].position, slotsOf[i][2]>>),
                        at + h.slots[i].code, var + h.slots[i].var, ChildExtent(h.slots, i, extent))
      bad == (IF BadHeader(h, at) THEN {"header"} ELSE {})
             \cup (IF Len(slotsOf) # Len(h.slots) THEN {"slots"} ELSE {})
             \cup (IF varBytes # program[f].vars THEN {"own variables"} ELSE {})
             \cup (IF \E i \in DOMAIN h.slots : ChildExtent(h.slots, i, extent) < 4 \/ ChildExtent(h.slots, i, extent) % 4 # 0 THEN {"extent"} ELSE {})
      own == [path |-> path, file |-> f, at |-> at, var |-> var, vars |-> varBytes, extent |-> extent, bad |-> bad]
  IN  IF bad # {} THEN <<own>> ELSE <<own>> \o FlattenSeq([i \in DOMAIN slotsOf |-> below(i)])

\* the images are the places of the instances, one behind the other
Images(instances) ==
  LET bases == SetToSortSeq({i.at : i \in Range(instances)}, <)
  IN  [n \in DOMAIN bases |-> [base |-> bases[n], size |-> DecodeHeader(bases[n]).size, users |-> {i \in Range(instances) : i.at = bases[n]}]]
Padded(image) == 4 * ((image.size + 3) \div 4)
Gaps(images) ==
  \/ images[1].base # 0 \/ Last(images).base + Padded(Last(images)) # Size(Image)
  \/ \E n \in 2..Len(images) : images[n].base # images[n - 1].base + Padded(images[n - 1])
BuildObjectLayout ==
  /\ work = Idle /\ TopFile \in DOMAIN built /\ ~layout.done
  /\ LET instances == Visit(Recorded(<<>>, TopFile, 0), 0, <<>>, 0, 0, built[TopFile].vars)
         bad == UNION {i.bad : i \in Range(instances)}
     IN  layout' = [instances |-> instances, images |-> IF bad = {} THEN Images(instances) ELSE <<>>, done |-> TRUE,
                    bad |-> bad \cup (IF bad = {} /\ Gaps(Images(instances)) THEN {"gap"} ELSE {})]
  /\ UNCHANGED objects
LayoutInit == Init /\ layout = NoLayout
LayoutNext == (Next /\ UNCHANGED layout) \/ BuildObjectLayout
=============================================================================
