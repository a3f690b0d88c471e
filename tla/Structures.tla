----------------------------- MODULE Structures -----------------------------
(***************************************************************************)
(* STRUCT declarations as the compiler keeps them: one array of bytes in   *)
(* which each structure is a record of its members, the records of nested  *)
(* structures inside, and the two walks that look a path like              *)
(* .point[2].x up in such a record: that of a variable and that of         *)
(* OFFSETOF.  Names are one byte long here.                                *)
(***************************************************************************)
EXTENDS Integers, Sequences, SequencesExt

CONSTANTS Capacity,   \* bytes of the array of records, MAX_SIZE_IN_BYTES
          HubLimit    \* bytes of the hub memory, obj_limit

VARIABLES declarations,  \* the STRUCT declarations of the object, in order
          structs        \* the records of those declared so far

NoStructs == [bytes |-> <<>>, offsets |-> <<>>, start |-> 0, memory |-> 0, err |-> ""]
MT_STRUCT == 3

\* bytes, little end first
Word(v) == <<v % 256, v \div 256>>
Long(v) == Word(v % 65536) \o Word(v \div 65536)

\* an array of bytes; beyond the capacity nothing is written and zero is read
ByteAt(bytes, i) == IF i < Capacity /\ i < Len(bytes) THEN bytes[i + 1] ELSE 0
WordAt(bytes, i) == ByteAt(bytes, i) + (256 * ByteAt(bytes, i + 1))
LongAt(bytes, i) == WordAt(bytes, i) + (65536 * WordAt(bytes, i + 2))

Enter(z, bs) == [z EXCEPT !.bytes = @ \o bs]
Replace(z, i, bs) ==
  [z EXCEPT !.bytes = [j \in DOMAIN @ |-> IF j - i \in DOMAIN bs THEN bs[j - i] ELSE @[j]]]
Reject(z, e) == IF z.err = "" THEN [z EXCEPT !.err = e] ELSE z
EnterName(z, name) == Enter(z, <<Len(name)>> \o name)

ReadRecord(z, id) ==
  LET at == z.offsets[id + 1]
  IN  [i \in 1 .. WordAt(z.bytes, at) |-> ByteAt(z.bytes, at + i - 1)]
StructureSize(z, id) == LongAt(ReadRecord(z, id), 2)
----------------------------------------------------------------------------
(* Declaring a structure.                                                  *)

BeginRecord(z) ==
  Enter([z EXCEPT !.start = Len(z.bytes), !.offsets = Append(@, Len(z.bytes)), !.memory = 0],
        Word(0) \o Long(0))
EndRecord(z) ==
  Replace(Replace(z, z.start, Word(Len(z.bytes) - z.start)), z.start + 2, Long(z.memory))

ElementSize(z, m) == IF m.type = MT_STRUCT THEN StructureSize(z, m.of) ELSE 2 ^ m.type
FinalizeElement(z, size, count) ==
  CASE count > 1 /\ z.memory > 65535 -> Reject(z, "indexed structure")
    [] size * count > 65536 -> Reject(z, "hub range")
    [] z.memory + size * count > HubLimit -> Reject(z, "hub range")
    [] OTHER -> [z EXCEPT !.memory = @ + size * count]

BitsFit(m) == \A i \in DOMAIN m.bits :
                m.type # MT_STRUCT /\ m.bits[i].hi < 8 * 2 ^ m.type /\ m.bits[i].lo <= m.bits[i].hi
Descriptor(b) == b.lo + (32 * (b.hi - b.lo))
EnterBits(z, bits) ==
  FoldSeq(LAMBDA b, acc : Enter(EnterName(Enter(acc, <<2>>), b.name), Word(Descriptor(b))), z, bits)

EnterMember(z, m, more) ==
  LET typed == Enter(Enter(z, Long(z.memory)), <<m.type>>)
      shaped == IF m.type = MT_STRUCT THEN Enter(typed, ReadRecord(z, m.of)) ELSE typed
      named == EnterBits(EnterName(shaped, m.name), m.bits)
      sized == FinalizeElement(named, ElementSize(z, m), m.count)
  IN  IF BitsFit(m) THEN Enter(sized, <<IF more THEN 1 ELSE 0>>) ELSE Reject(z, "bit number")

BuildStructureRecord(z, d) ==
  LET last(i) == i = Len(d.members)
      members == FoldLeftDomain(LAMBDA acc, i : EnterMember(acc, d.members[i], ~last(i)),
                                BeginRecord(z), d.members)
  IN  EndRecord(members)

\* STRUCT name = existing, and the structures of a child object
EnterRecord(z, record) ==
  Enter([z EXCEPT !.start = Len(z.bytes), !.offsets = Append(@, Len(z.bytes))], record)
----------------------------------------------------------------------------
(* Looking a member up.                                                    *)

\* the member whose entry starts at o, and where its continuation byte is
MemberAt(r, o) ==
  LET type == ByteAt(r, o + 4)
      sub == o + 5
      nameAt == IF type = MT_STRUCT THEN sub + WordAt(r, sub) ELSE sub
      name == [i \in 1 .. ByteAt(r, nameAt) |-> ByteAt(r, nameAt + i)]
  IN  [offset |-> LongAt(r, o), type |-> type, sub |-> sub, name |-> name,
       next |-> nameAt + 1 + Len(name), beyond |-> nameAt + Len(name) >= Len(r)]

BadOffset == [err |-> "bad read offset"]
NoMember == [err |-> "no such member"]
Match(m) == [err |-> "", member |-> m]
Ends(r, o) == o >= Len(r)
SkipBitfieldEntry(r, o) == o + 1 + ByteAt(r, o) + 2

RECURSIVE SkipBits(_, _)
SkipBits(r, o) == IF ByteAt(r, o) = 2 THEN SkipBits(r, SkipBitfieldEntry(r, o + 1)) ELSE o

\* that of a variable passes over the bitfields of the members before
RECURSIVE FindMember(_, _, _)
FindMember(r, o, name) ==
  LET Found(m, end) == CASE Ends(r, o) \/ m.beyond -> BadOffset
                         [] ~Ends(r, o) /\ m.name = name -> Match(m)
                         [] ~Ends(r, o) /\ m.name # name /\ ByteAt(r, end) = 0 -> NoMember
                         [] OTHER -> FindMember(r, end + 1, name)
  IN  Found(MemberAt(r, o), SkipBits(r, MemberAt(r, o).next))

\* that of OFFSETOF takes whatever is not the end for another member
RECURSIVE FindOffset(_, _, _)
FindOffset(r, o, name) ==
  LET Found(m) == CASE Ends(r, o) \/ m.beyond -> BadOffset
                    [] ~Ends(r, o) /\ m.name = name -> Match(m)
                    [] ~Ends(r, o) /\ m.name # name /\ ByteAt(r, m.next) = 0 -> NoMember
                    [] OTHER -> FindOffset(r, m.next + 1, name)
  IN  Found(MemberAt(r, o))

RecordWithin(r, sub) == SubSeq(r, sub + 1, sub + WordAt(r, sub))
FirstMember == 6

\* the descriptor of a named bitfield behind a member
RECURSIVE FindBits(_, _, _)
FindBits(r, o, name) ==
  LET length == ByteAt(r, o + 1)
      entry == [i \in 1 .. length |-> ByteAt(r, o + 1 + i)]
  IN  CASE ByteAt(r, o) # 2 -> -1
        [] ByteAt(r, o) = 2 /\ entry = name -> WordAt(r, o + 2 + length)
        [] OTHER -> FindBits(r, SkipBitfieldEntry(r, o + 1), name)

FirstIsNameless(r) == Len(r) >= 12 /\ ByteAt(r, 11) = 0 /\ ByteAt(r, 10) < MT_STRUCT

\* a constant index, if there is one: the offset behind it, -1 if it is out of range
OffsetOfIndex(path, size, offset) ==
  LET e == path[1]
  IN  CASE path = <<>> -> offset
        [] path # <<>> /\ e.t # "index" -> offset
        [] size > 65535 \/ e.v \notin 0 .. 65535 -> -1
        [] OTHER -> IF offset + (e.v * size) > HubLimit THEN -1 ELSE offset + (e.v * size)

\* OFFSETOF(struct path), the path a sequence of names and constant indexes
RECURSIVE OffsetFrom(_, _, _)
RefusedOffset(e) == [err |-> e, offset |-> 0]
Reached(offset) == IF offset = -1 THEN RefusedOffset("index") ELSE [err |-> "", offset |-> offset]
OffsetOfFound(r, found, rest, past) ==
  CASE found.err # "" -> RefusedOffset(found.err)
    [] found.err = "" /\ found.member.type = MT_STRUCT ->
         OffsetFrom(RecordWithin(r, found.member.sub), Tail(rest), past + found.member.offset)
    [] OTHER -> Reached(OffsetOfIndex(Tail(rest), 2 ^ found.member.type, past + found.member.offset))
OffsetFrom(r, path, offset) ==
  LET past == OffsetOfIndex(path, LongAt(r, 2), offset)
      rest == IF path # <<>> /\ path[1].t = "index" THEN Tail(path) ELSE path
  IN  IF past = -1 \/ rest = <<>> THEN Reached(past)
      ELSE OffsetOfFound(r, FindOffset(r, FirstMember, rest[1].name), rest, past)
OffsetOf(z, id, path) == OffsetFrom(ReadRecord(z, id), path, 0)
----------------------------------------------------------------------------
NextDeclaration == declarations[Len(structs.offsets) + 1]
Declaring == structs.err = "" /\ Len(structs.offsets) < Len(declarations)

DefineStruct == /\ Declaring /\ NextDeclaration.kind = "def"
                /\ structs' = BuildStructureRecord(structs, NextDeclaration)
                /\ UNCHANGED declarations
AssignStruct == /\ Declaring /\ NextDeclaration.kind = "same"
                /\ structs' = EnterRecord(structs, ReadRecord(structs, NextDeclaration.of))
                /\ UNCHANGED declarations
Declare == DefineStruct \/ AssignStruct
=============================================================================
