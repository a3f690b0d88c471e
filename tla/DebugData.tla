----------------------------- MODULE DebugData ------------------------------
(***************************************************************************)
(* The DEBUG record table as src/src/classes/debugData.ts keeps it: one    *)
(* byte image whose first HeaderBytes bytes are a table of 16-bit offsets  *)
(* and whose rest holds the records back to back.  Slot 0 is the next free *)
(* offset, slot e (1..MaxEntries) the offset of record e, 0 when unused.   *)
(* The two bytes of a table slot are one number here; the record bytes are *)
(* kept one by one, because the search for an equal record and the ends    *)
(* of records are decided on them.                                         *)
(***************************************************************************)
EXTENDS Naturals, Sequences, FiniteSets

CONSTANTS
  Byte,             (* byte values a record uses, 0 among them           *)
  Record,           (* records offered to the table, terminator included *)
  MaxEntries,       (* DebugData.MAX_ENTRIES: 255                        *)
  MaxRecordLength,  (* DebugRecord.MAX_RECORD_LENGTH: 255                *)
  SizeBytes         (* DebugData.DEBUG_SIZE_IN_BYTES: 0x4000             *)

HeaderBytes == 2 * (MaxEntries + 1)   \* 0x200 in the code

(* A debug record is a list of commands closed by a zero command, so no    *)
(* record is the beginning of another one and none is empty.               *)
IsPrefixOf(s, t) == Len(s) <= Len(t) /\ \A i \in 1..Len(s) : s[i] = t[i]

DebugDataAssumptions ==
  /\ MaxEntries \in Nat \ {0}
  /\ MaxRecordLength \in Nat \ {0}
  /\ SizeBytes \in Nat /\ SizeBytes > HeaderBytes
  /\ Byte \subseteq 0..255 /\ 0 \in Byte
  /\ Record \subseteq Seq(Byte) \ {<< >>}
  /\ \A r, s \in Record : IsPrefixOf(r, s) => r = s

VARIABLES
  word,      (* the table of offsets, slots 0..MaxEntries                *)
  image,     (* the record bytes, at HeaderBytes..SizeBytes-1            *)
  issued,    (* history: <<record, code>> handed to an object            *)
  refused,   (* the message the compile was stopped with, "" if none     *)
  dataOnly   (* the collapsed table written in front of the program      *)

tableVars == <<word, image, issued, refused, dataOnly>>

Address == HeaderBytes..(SizeBytes - 1)

-----------------------------------------------------------------------------

RecordExists(e) == word[e] # 0

(* A slip in the comparison: the terminator is left out of it.             *)
RecordIsMatchButLast(e, r) ==
  \A i \in 1..(Len(r) - 1) :
     /\ word[e] + i - 1 \in Address
     /\ image[word[e] + i - 1] = r[i]

(* Only as many bytes are compared as the new record has.                  *)
RecordIsMatch(e, r) ==
  \A i \in 1..Len(r) :
     /\ word[e] + i - 1 \in Address
     /\ image[word[e] + i - 1] = r[i]

(* The entries the walk of injectRecord looks at: up to the first free one.*)
Walked == {e \in 1..MaxEntries : \A d \in 1..e : RecordExists(d)}

Matches(r) == {e \in Walked : RecordIsMatch(e, r)}

Least(S) == CHOOSE e \in S : \A d \in S : e <= d

(* The number of unique records stored.                                    *)
RecordCount == Cardinality(Walked)

(* The bytes of record e: they end where the next used slot begins, or at  *)
(* the next free offset.                                                   *)
RecordEnd(e) ==
  LET later == {d \in (e + 1)..MaxEntries : RecordExists(d)}
  IN  IF later = {} THEN word[0] ELSE word[Least(later)]

GetRecordBytes(e) ==
  IF RecordExists(e)
  THEN [i \in 1..(RecordEnd(e) - word[e]) |-> image[word[e] + i - 1]]
  ELSE << >>

-----------------------------------------------------------------------------

TableInit ==
  /\ word = [e \in 0..MaxEntries |-> IF e = 0 THEN HeaderBytes ELSE 0]
  /\ image = [a \in Address |-> 0]
  /\ issued = {}
  /\ refused = ""
  /\ dataOnly = << >>

Compiling == refused = "" /\ dataOnly = << >>

(* Where a record that is not in the table goes.                           *)
FreeEntry == RecordCount + 1

(* The next-free offset is advanced one byte short: a slip in setRecord.   *)
SetRecordOverlapping(e, r) ==
  /\ image' = [a \in Address |->
                 IF a - word[0] + 1 \in 1..Len(r) THEN r[a - word[0] + 1] ELSE image[a]]
  /\ word' = [word EXCEPT ![e] = word[0], ![0] = @ + Len(r) - 1]

SetRecord(e, r) ==
  /\ image' = [a \in Address |->
                 IF a - word[0] + 1 \in 1..Len(r) THEN r[a - word[0] + 1] ELSE image[a]]
  /\ word' = [word EXCEPT ![e] = word[0], ![0] = @ + Len(r)]

InjectKnown(r) ==
  /\ Compiling
  /\ Len(r) <= MaxRecordLength
  /\ Matches(r) # {}
  /\ issued' = issued \cup {<<r, Least(Matches(r))>>}
  /\ UNCHANGED <<word, image, refused, dataOnly>>

InjectNew(r) ==
  /\ Compiling
  /\ Len(r) <= MaxRecordLength
  /\ Matches(r) = {}
  /\ FreeEntry <= MaxEntries
  /\ word[0] + Len(r) <= SizeBytes
  /\ SetRecord(FreeEntry, r)
  /\ issued' = issued \cup {<<r, FreeEntry>>}
  /\ UNCHANGED <<refused, dataOnly>>

Throw(msg) ==
  /\ refused' = msg
  /\ UNCHANGED <<word, image, issued, dataOnly>>

RecordTooLong(r) ==
  /\ Compiling
  /\ Len(r) > MaxRecordLength
  /\ Throw("m150")

TooManyRecords(r) ==
  /\ Compiling
  /\ Len(r) <= MaxRecordLength
  /\ Matches(r) = {}
  /\ FreeEntry > MaxEntries
  /\ Throw("m153")

TableFull(r) ==
  /\ Compiling
  /\ Len(r) <= MaxRecordLength
  /\ Matches(r) = {}
  /\ FreeEntry <= MaxEntries
  /\ word[0] + Len(r) > SizeBytes
  /\ Throw("m151")

(* The slots the collapsed table keeps, slot 0 counted.                    *)
CountOfWords == RecordCount + 1

(* What every kept offset is lowered by.                                   *)
Shift == HeaderBytes - 2 * CountOfWords

(* collapseDebugData, once, when the top object has been compiled: the     *)
(* unused slots are squeezed out.  An element is a table slot or a byte;   *)
(* a slot takes two bytes, so it is followed by a filler.                  *)
CollapseDebugData ==
  /\ Compiling
  /\ dataOnly' =
       [o \in 1..(2 * CountOfWords + word[0] - HeaderBytes) |->
          IF o <= 2 * CountOfWords
          THEN IF o % 2 = 1 THEN word[(o - 1) \div 2] - Shift ELSE 0
          ELSE image[HeaderBytes + o - 1 - 2 * CountOfWords]]
  /\ UNCHANGED <<word, image, issued, refused>>

TableNext ==
  \/ \E r \in Record :
       \/ InjectKnown(r)
       \/ InjectNew(r)
       \/ RecordTooLong(r)
       \/ TooManyRecords(r)
       \/ TableFull(r)
  \/ CollapseDebugData

TableSpec == TableInit /\ [][TableNext]_tableVars

-----------------------------------------------------------------------------

(* The type invariant.                                                     *)
TableTyped ==
  /\ word \in [0..MaxEntries -> 0..SizeBytes]
  /\ image \in [Address -> Byte]
  /\ issued \subseteq Record \X (1..MaxEntries)
  /\ refused \in {"", "m150", "m151", "m153"}
  /\ dataOnly \in Seq((0..SizeBytes) \cup Byte)

(* The bytes found for a BRK code are the record it was issued for: the    *)
(* back-to-back layout, the ends getRecordBytes infers from the next slot  *)
(* and the compare that looks only at the new record's bytes agree.        *)
BytesReadBack ==
  \A p \in issued : GetRecordBytes(p[2]) = p[1]

(* The debugger finds the record of every BRK code in the collapsed table: *)
(* the code's slot, counted from the table's start, leads to its bytes.    *)
CollapsedResolves ==
  dataOnly # << >> =>
    \A p \in issued :
      LET start == dataOnly[2 * p[2] + 1]
      IN  \A i \in 1..Len(p[1]) :
            start + i \in DOMAIN dataOnly /\ dataOnly[start + i] = p[1][i]

(* The table as a sequence of records: the refinement mapping.             *)
Table == [e \in 1..RecordCount |-> GetRecordBytes(e)]

Abstract == INSTANCE DebugTable WITH table <- Table, failed <- (refused # "")

(* A record reads back byte for byte as it was entered, at the offset its  *)
(* table entry says, and every BRK code leads to its record in the         *)
(* collapsed table of the program (debugData.ts:96, 178).  The types of    *)
(* the table hold with it.                                                 *)
RecordsReadBack == TableTyped /\ BytesReadBack /\ CollapsedResolves

(* The word table with packed records implements a table of whole records: *)
(* set a record, find an equal one, inject one (debugData.ts:139-220).     *)
ImplementsDebugTable == Abstract!Spec

=============================================================================
