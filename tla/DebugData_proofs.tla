-------------------------- MODULE DebugData_proofs --------------------------
(***************************************************************************)
(* Proofs that the byte image and its table of offsets keep a sequence of  *)
(* records, for every set of records none of which begins another one and  *)
(* for all limits.                                                         *)
(***************************************************************************)
EXTENDS DebugData, FiniteSetTheorems, TLAPS

(* The inductive invariant: the first n slots are used, record after       *)
(* record without a gap, no record is there twice, and every code issued   *)
(* is the slot of its record.                                              *)
Types ==
  /\ word \in [0..MaxEntries -> Nat]
  /\ image \in [Address -> Byte]

Shape(n) ==
  /\ n \in 0..MaxEntries
  /\ \A e \in 1..MaxEntries : word[e] # 0 <=> e <= n

(* Where the bytes of slot e end if n slots are used.                      *)
Ends(n, e) == IF e < n THEN word[e + 1] ELSE word[0]

EntryHolds(n, e, r) ==
  /\ Ends(n, e) = word[e] + Len(r)
  /\ \A i \in 1..Len(r) : image[word[e] + i - 1] = r[i]

Layout(n) ==
  /\ HeaderBytes <= word[0] /\ word[0] <= SizeBytes
  /\ \A e \in 1..n : /\ HeaderBytes <= word[e] /\ Ends(n, e) <= word[0]
                     /\ \E r \in Record : EntryHolds(n, e, r)

Distinct(n) ==
  \A d, e \in 1..n : \A r \in Record : EntryHolds(n, d, r) /\ EntryHolds(n, e, r) => d = e

Codes(n) == \A p \in issued : p \in Record \X (1..n) /\ EntryHolds(n, p[2], p[1])

Good(n) == Types /\ Shape(n) /\ Layout(n) /\ Distinct(n) /\ Codes(n)

Rest == refused \in {"", "m150", "m151", "m153"} /\ dataOnly \in Seq((0..SizeBytes) \cup Byte)

IInv == (\E n : Good(n)) /\ Rest /\ CollapsedResolves

-----------------------------------------------------------------------------
(* What the operators read from a table in this shape.                     *)

(* A record is a sequence of bytes, not empty, and begins no other one.    *)
LEMMA RecordType ==
  ASSUME DebugDataAssumptions, NEW r \in Record
  PROVE  /\ r \in Seq(Byte) /\ Len(r) \in Nat \ {0}
         /\ r = [i \in 1..Len(r) |-> r[i]]
         /\ \A s \in Record : IsPrefixOf(r, s) => r = s
<1>1. r \in Seq(Byte) /\ r # << >>
  BY DEF DebugDataAssumptions
<1>2. Len(r) \in Nat \ {0} /\ r = [i \in 1..Len(r) |-> r[i]]
  BY <1>1
<1> QED
  BY <1>1, <1>2 DEF DebugDataAssumptions

(* The walk for a free slot stops behind the last used one.                *)
LEMMA CountIs ==
  ASSUME DebugDataAssumptions, NEW n, Shape(n)
  PROVE  Walked = 1..n /\ RecordCount = n
<1>1. n \in Nat /\ n <= MaxEntries /\ MaxEntries \in Nat
  BY DEF Shape, DebugDataAssumptions
<1>2. Walked = 1..n
  BY <1>1 DEF Walked, RecordExists, Shape
<1>3. Cardinality(1..n) = n
  BY <1>1, FS_Interval
<1> QED
  BY <1>2, <1>3 DEF RecordCount

(* The next used slot is the next slot.                                    *)
LEMMA EndIs ==
  ASSUME DebugDataAssumptions, NEW n, Shape(n), NEW e \in 1..n
  PROVE  RecordEnd(e) = Ends(n, e)
<1> DEFINE later == {d \in (e + 1)..MaxEntries : RecordExists(d)}
<1>1. n \in Nat /\ n <= MaxEntries /\ MaxEntries \in Nat
  BY DEF Shape, DebugDataAssumptions
<1>2. later = (e + 1)..n
  BY <1>1 DEF RecordExists, Shape
<1>3. CASE e < n
  <2>1. Least(later) = e + 1
    <3>1. e + 1 \in later /\ \A d \in later : e + 1 <= d
      BY <1>1, <1>2, <1>3
    <3>2. Least(later) \in later /\ \A d \in later : Least(later) <= d
      BY <3>1 DEF Least
    <3> QED
      BY <3>1, <3>2, <1>1, <1>2
  <2>2. later # {}
    BY <1>1, <1>2, <1>3
  <2> QED
    BY <2>1, <2>2, <1>3 DEF RecordEnd, Ends
<1>4. CASE ~(e < n)
  <2>1. later = {}
    BY <1>1, <1>2, <1>4
  <2> QED
    BY <2>1, <1>4 DEF RecordEnd, Ends
<1> QED
  BY <1>3, <1>4

(* The bytes of a slot are the record it holds.                            *)
LEMMA BytesAre ==
  ASSUME DebugDataAssumptions, NEW n, Good(n), NEW e \in 1..n, NEW r \in Record,
         EntryHolds(n, e, r)
  PROVE  GetRecordBytes(e) = r
<1>1. n \in Nat /\ n <= MaxEntries /\ MaxEntries \in Nat /\ e \in 1..MaxEntries
  BY DEF Good, Shape, DebugDataAssumptions
<1>2. word[e] \in Nat /\ RecordExists(e)
  BY <1>1 DEF Good, Types, Shape, RecordExists
<1>3. RecordEnd(e) = word[e] + Len(r)
  BY EndIs DEF Good, EntryHolds
<1>4. Len(r) \in Nat /\ r = [i \in 1..Len(r) |-> r[i]]
  BY RecordType
<1>5. RecordEnd(e) - word[e] = Len(r)
  BY <1>2, <1>3, <1>4
<1>6. GetRecordBytes(e) = [i \in 1..Len(r) |-> image[word[e] + i - 1]]
  BY <1>2, <1>5 DEF GetRecordBytes
<1>7. \A i \in 1..Len(r) : image[word[e] + i - 1] = r[i]
  BY DEF EntryHolds
<1> QED
  BY <1>4, <1>6, <1>7

(* Only the bytes of the new record are compared, and that is enough: no   *)
(* record begins another one.                                              *)
LEMMA MatchIs ==
  ASSUME DebugDataAssumptions, NEW n, Good(n), NEW e \in 1..n, NEW r \in Record
  PROVE  RecordIsMatch(e, r) <=> EntryHolds(n, e, r)
<1>1. /\ n \in Nat /\ n <= MaxEntries /\ MaxEntries \in Nat /\ e \in 1..MaxEntries
      /\ HeaderBytes \in Nat /\ SizeBytes \in Nat
  BY DEF Good, Shape, DebugDataAssumptions, HeaderBytes
<1>2. word[e] \in Nat /\ word[0] \in Nat
  BY <1>1 DEF Good, Types
<1>3. HeaderBytes <= word[e] /\ Ends(n, e) <= word[0] /\ word[0] <= SizeBytes
  BY DEF Good, Layout
<1>4. Len(r) \in Nat
  BY RecordType
<1>5. ASSUME EntryHolds(n, e, r) PROVE RecordIsMatch(e, r)
  <2> SUFFICES ASSUME NEW i \in 1..Len(r)
               PROVE  word[e] + i - 1 \in Address /\ image[word[e] + i - 1] = r[i]
    BY DEF RecordIsMatch
  <2>1. word[e] + Len(r) <= SizeBytes
    BY <1>1, <1>2, <1>3, <1>4, <1>5 DEF EntryHolds
  <2>2. word[e] + i - 1 \in Address
    BY <2>1, <1>1, <1>2, <1>3, <1>4 DEF Address
  <2> QED
    BY <2>2, <1>5 DEF EntryHolds
<1>6. ASSUME RecordIsMatch(e, r) PROVE EntryHolds(n, e, r)
  <2>1. PICK s \in Record : EntryHolds(n, e, s)
    BY DEF Good, Layout
  <2>2. Len(s) \in Nat
    BY RecordType
  <2>3. \A i \in 1..Len(r) : image[word[e] + i - 1] = r[i]
    BY <1>6 DEF RecordIsMatch
  <2>4. \A i \in 1..Len(s) : image[word[e] + i - 1] = s[i]
    BY <2>1 DEF EntryHolds
  <2>5. CASE Len(r) <= Len(s)
    <3>1. IsPrefixOf(r, s)
      BY <2>2, <2>3, <2>4, <2>5, <1>4 DEF IsPrefixOf
    <3> QED
      BY <3>1, <2>1, RecordType
  <2>6. CASE Len(s) <= Len(r)
    <3>1. IsPrefixOf(s, r)
      BY <2>2, <2>3, <2>4, <2>6, <1>4 DEF IsPrefixOf
    <3> QED
      BY <3>1, <2>1, RecordType
  <2> QED
    BY <2>2, <2>5, <2>6, <1>4
<1> QED
  BY <1>5, <1>6

(* The table that the offsets and the image stand for.                     *)
LEMMA TableIs ==
  ASSUME DebugDataAssumptions
  PROVE  \A n : Good(n) =>
           /\ RecordCount = n /\ n \in Nat
           /\ Table \in Seq(Record) /\ Len(Table) = n
           /\ \A e \in 1..n : \A r \in Record : EntryHolds(n, e, r) <=> Table[e] = r
           /\ \A e \in 1..n : Table[e] = GetRecordBytes(e)
<1> SUFFICES ASSUME NEW n, Good(n)
             PROVE  /\ RecordCount = n /\ n \in Nat
                    /\ Table \in Seq(Record) /\ Len(Table) = n
                    /\ \A e \in 1..n : \A r \in Record : EntryHolds(n, e, r) <=> Table[e] = r
                    /\ \A e \in 1..n : Table[e] = GetRecordBytes(e)
  OBVIOUS
<1>1. RecordCount = n /\ n \in Nat
  BY CountIs DEF Good, Shape
<1>2. Table = [e \in 1..n |-> GetRecordBytes(e)]
  BY <1>1 DEF Table
<1>3. \A e \in 1..n : \E s \in Record : EntryHolds(n, e, s) /\ GetRecordBytes(e) = s
  BY BytesAre DEF Good, Layout
<1>4. Table \in Seq(Record) /\ Len(Table) = n
  BY <1>1, <1>2, <1>3
<1>5. ASSUME NEW e \in 1..n, NEW r \in Record PROVE EntryHolds(n, e, r) <=> Table[e] = r
  BY <1>2, <1>3, BytesAre
<1> QED
  BY <1>1, <1>2, <1>4, <1>5

-----------------------------------------------------------------------------
(* The steps.                                                              *)

(* The arithmetic of an address inside a record.                           *)
LEMMA Within ==
  ASSUME HeaderBytes \in Nat, SizeBytes \in Nat
  PROVE  \A a, i, l, end \in Nat :
           HeaderBytes <= a /\ a + l <= end /\ end <= SizeBytes /\ 1 <= i /\ i <= l
             => a + i - 1 \in Address /\ a + i - 1 < end
  BY DEF Address

(* The empty table has the shape with no slot used.                        *)
LEMMA InitIInv == ASSUME DebugDataAssumptions PROVE TableInit => IInv
<1> SUFFICES ASSUME TableInit PROVE IInv
  OBVIOUS
<1>1. /\ MaxEntries \in Nat \ {0} /\ SizeBytes \in Nat /\ SizeBytes > HeaderBytes
      /\ HeaderBytes \in Nat \ {0} /\ 0 \in Byte
  BY DEF DebugDataAssumptions, HeaderBytes
<1>2. Types
  BY <1>1 DEF TableInit, Types
<1>a. word[0] = HeaderBytes /\ \A e \in 1..MaxEntries : word[e] = 0
  <2>1. word = [e \in 0..MaxEntries |-> IF e = 0 THEN HeaderBytes ELSE 0]
    BY DEF TableInit
  <2>2. 0 \in 0..MaxEntries /\ \A e \in 1..MaxEntries : e \in 0..MaxEntries /\ e # 0
    BY <1>1
  <2> QED
    BY <2>1, <2>2
<1>b. issued = {} /\ refused = "" /\ dataOnly = << >>
  BY DEF TableInit
<1>3. Shape(0)
  <2>1. \A e \in 1..MaxEntries : ~(e <= 0)
    BY <1>1
  <2> QED
    BY <1>1, <1>a, <2>1 DEF Shape
<1>4. Layout(0) /\ Distinct(0) /\ Codes(0)
  <2>1. HeaderBytes <= word[0] /\ word[0] <= SizeBytes
    BY <1>1, <1>a
  <2>2. 1..0 = {}
    OBVIOUS
  <2>3. Layout(0)
    BY <2>1, <2>2 DEF Layout
  <2>4. Distinct(0)
    BY <2>2 DEF Distinct
  <2>5. Codes(0)
    BY <1>b DEF Codes
  <2> QED
    BY <2>3, <2>4, <2>5
<1>5. Rest /\ CollapsedResolves
  <2>1. dataOnly \in Seq((0..SizeBytes) \cup Byte)
    <3>1. \A S : << >> \in Seq(S)
      OBVIOUS
    <3> QED
      BY <3>1, <1>b
  <2>2. Rest
    BY <2>1, <1>b DEF Rest
  <2>3. CollapsedResolves
    BY <1>b DEF CollapsedResolves
  <2> QED
    BY <2>2, <2>3
<1> QED
  BY <1>2, <1>3, <1>4, <1>5 DEF IInv, Good

(* What the walk finds is the one slot that holds the record.              *)
LEMMA LeastMatch ==
  ASSUME DebugDataAssumptions, NEW n, Good(n), NEW r \in Record
  PROVE  /\ Matches(r) # {} => /\ Least(Matches(r)) \in 1..n
                               /\ EntryHolds(n, Least(Matches(r)), r)
         /\ Matches(r) = {} => \A e \in 1..n : ~EntryHolds(n, e, r)
<1>1. Walked = 1..n /\ n \in Nat
  BY CountIs DEF Good, Shape
<1>2. Matches(r) = {e \in 1..n : EntryHolds(n, e, r)}
  BY <1>1, MatchIs DEF Matches
<1>3. ASSUME NEW k \in Matches(r) PROVE Matches(r) = {k}
  BY <1>2, <1>3 DEF Good, Distinct
<1>4. ASSUME NEW k \in Matches(r) PROVE Least(Matches(r)) = k
  <2>1. k \in 1..n /\ k <= k
    BY <1>1, <1>2
  <2> QED
    BY <1>3, <2>1 DEF Least
<1> QED
  BY <1>2, <1>4

(* A new record goes behind the last one and disturbs none.                *)
LEMMA NewEntry ==
  ASSUME DebugDataAssumptions, NEW n, Good(n), NEW r \in Record, InjectNew(r)
  PROVE  /\ n < MaxEntries /\ Types' /\ Shape(n + 1)'
         /\ HeaderBytes <= word'[0] /\ word'[0] <= SizeBytes
         /\ \A e \in 1..n : /\ word'[e] = word[e] /\ Ends(n + 1, e)' = Ends(n, e)
                            /\ \A s \in Record : EntryHolds(n + 1, e, s)' <=> EntryHolds(n, e, s)
         /\ word'[n + 1] = word[0] /\ Ends(n + 1, n + 1)' = word'[0] /\ word[0] <= word'[0]
         /\ \A s \in Record : EntryHolds(n + 1, n + 1, s)' <=> s = r
<1>1. /\ n \in Nat /\ RecordCount = n /\ MaxEntries \in Nat \ {0}
      /\ HeaderBytes \in Nat /\ SizeBytes \in Nat
  BY CountIs DEF Good, Shape, DebugDataAssumptions, HeaderBytes
<1>2. n < MaxEntries /\ FreeEntry = n + 1
  BY <1>1 DEF InjectNew, FreeEntry
<1>3. word \in [0..MaxEntries -> Nat] /\ image \in [Address -> Byte]
  BY DEF Good, Types
<1>4. /\ r \in Seq(Byte) /\ Len(r) \in Nat \ {0}
  BY RecordType
<1>5. HeaderBytes <= word[0] /\ word[0] + Len(r) <= SizeBytes /\ word[0] \in Nat
  BY <1>1, <1>3 DEF Good, Layout, InjectNew
<1>6. /\ word'[0] = word[0] + Len(r) /\ word'[n + 1] = word[0]
      /\ \A e \in 1..MaxEntries : e # n + 1 => word'[e] = word[e]
      /\ word' \in [0..MaxEntries -> Nat]
  <2>1. word' = [word EXCEPT ![n + 1] = word[0], ![0] = @ + Len(r)]
    BY <1>2 DEF InjectNew, SetRecord
  <2>2. n + 1 \in 0..MaxEntries /\ 0 \in 0..MaxEntries /\ n + 1 # 0
    BY <1>1, <1>2
  <2>3. word'[0] = word[0] + Len(r) /\ word'[n + 1] = word[0]
    BY <2>1, <2>2, <1>3
  <2>4. \A e \in 1..MaxEntries : e \in 0..MaxEntries /\ e # 0
    OBVIOUS
  <2>5. \A e \in 1..MaxEntries : e # n + 1 => word'[e] = word[e]
    BY <2>1, <2>4, <1>3
  <2>6. word[0] + Len(r) \in Nat
    BY <1>4, <1>5
  <2>7. word' \in [0..MaxEntries -> Nat]
    BY <2>1, <2>6, <1>3, <1>5
  <2> QED
    BY <2>3, <2>5, <2>7
<1>7. /\ image' \in [Address -> Byte]
      /\ \A a \in Address : a < word[0] => image'[a] = image[a]
      /\ \A i \in 1..Len(r) : image'[word[0] + i - 1] = r[i]
  <2>1. image' = [a \in Address |->
                    IF a - word[0] + 1 \in 1..Len(r) THEN r[a - word[0] + 1] ELSE image[a]]
    BY DEF InjectNew, SetRecord
  <2>2. \A i \in 1..Len(r) : r[i] \in Byte
    BY <1>4
  <2>3. image' \in [Address -> Byte]
    BY <2>1, <2>2, <1>3
  <2>4. \A a \in Address : a < word[0] => image'[a] = image[a]
    BY <2>1, <1>1, <1>4, <1>5 DEF Address
  <2>5. ASSUME NEW i \in 1..Len(r) PROVE image'[word[0] + i - 1] = r[i]
    <3>1. word[0] + i - 1 \in Address /\ (word[0] + i - 1) - word[0] + 1 = i
      BY <1>1, <1>4, <1>5 DEF Address
    <3> QED
      BY <2>1, <3>1
  <2> QED
    BY <2>3, <2>4, <2>5
<1>8. Types'
  BY <1>6, <1>7 DEF Types
<1>9. Shape(n + 1)'
  <2>1. n + 1 \in 0..MaxEntries
    BY <1>1, <1>2
  <2>2. word'[n + 1] # 0
    BY <1>5, <1>6, <1>1 DEF HeaderBytes, DebugDataAssumptions
  <2>3. \A e \in 1..MaxEntries : word'[e] # 0 <=> e <= n + 1
    BY <1>1, <1>2, <1>6, <2>2 DEF Good, Shape
  <2> QED
    BY <2>1, <2>3 DEF Shape
<1>10. ASSUME NEW e \in 1..n PROVE word'[e] = word[e] /\ Ends(n + 1, e)' = Ends(n, e)
  BY <1>1, <1>2, <1>6 DEF Ends
<1>11. ASSUME NEW e \in 1..n, NEW s \in Record
       PROVE  EntryHolds(n + 1, e, s)' <=> EntryHolds(n, e, s)
  <2>1. word[e] \in Nat /\ HeaderBytes <= word[e] /\ Ends(n, e) <= word[0] /\ Len(s) \in Nat
    BY <1>1, <1>2, <1>3, RecordType DEF Good, Layout
  <2>2. ASSUME Ends(n, e) = word[e] + Len(s), NEW i \in 1..Len(s)
        PROVE  image'[word[e] + i - 1] = image[word[e] + i - 1]
    <3>2. word[e] + Len(s) <= word[0] /\ i \in Nat /\ 1 <= i /\ i <= Len(s)
      BY <2>1, <2>2
    <3>3. word[0] < SizeBytes
      BY <1>1, <1>4, <1>5
    <3>1. word[e] + i - 1 \in Address /\ word[e] + i - 1 < word[0]
      <4>1. /\ word[e] \in Nat /\ i \in Nat /\ Len(s) \in Nat /\ word[0] \in Nat
            /\ HeaderBytes \in Nat /\ SizeBytes \in Nat
        BY <2>1, <3>2, <1>1, <1>5
      <4>2. HeaderBytes <= word[e] /\ word[e] + Len(s) <= word[0] /\ word[0] <= SizeBytes
        BY <4>1, <2>1, <3>2, <3>3
      <4> QED
        BY <4>1, <4>2, <3>2, Within
    <3> QED
      BY <3>1, <1>7
  <2> QED
    BY <1>10, <2>2 DEF EntryHolds
<1>12. Ends(n + 1, n + 1)' = word'[0] /\ word[0] <= word'[0]
  BY <1>1, <1>4, <1>5, <1>6 DEF Ends
<1>13. ASSUME NEW s \in Record PROVE EntryHolds(n + 1, n + 1, s)' <=> s = r
  <2>1. Len(s) \in Nat
    BY RecordType
  <2>2. ASSUME EntryHolds(n + 1, n + 1, s)' PROVE s = r
    <3>1. word[0] + Len(r) = word[0] + Len(s)
      BY <2>2, <1>6, <1>12 DEF EntryHolds
    <3>2. Len(s) = Len(r)
      BY <3>1, <2>1, <1>4, <1>5
    <3>3. \A i \in 1..Len(s) : s[i] = r[i]
      BY <2>2, <3>2, <1>6, <1>7 DEF EntryHolds
    <3>4. IsPrefixOf(s, r)
      BY <3>2, <3>3, <2>1 DEF IsPrefixOf
    <3> QED
      BY <3>4, RecordType
  <2>3. EntryHolds(n + 1, n + 1, r)'
    BY <1>6, <1>7, <1>12 DEF EntryHolds
  <2> QED
    BY <2>2, <2>3
<1>14. HeaderBytes <= word'[0] /\ word'[0] <= SizeBytes
  BY <1>1, <1>4, <1>5, <1>6
<1> QED
  BY <1>2, <1>6, <1>8, <1>9, <1>10, <1>11, <1>12, <1>13, <1>14

(* With the new record the table is in shape again.                        *)
LEMMA NewGood ==
  ASSUME DebugDataAssumptions, NEW n, Good(n), NEW r \in Record, InjectNew(r)
  PROVE  Good(n + 1)'
<1>1. n \in Nat /\ FreeEntry = n + 1
  BY CountIs DEF Good, Shape, FreeEntry
<1>2. \A e \in 1..(n + 1) : e \in 1..n \/ e = n + 1
  BY <1>1
<1>3. Layout(n + 1)'
  <2> SUFFICES ASSUME NEW e \in 1..(n + 1)
               PROVE  /\ HeaderBytes <= word'[e] /\ Ends(n + 1, e)' <= word'[0]
                      /\ \E s \in Record : EntryHolds(n + 1, e, s)'
    BY NewEntry DEF Layout
  <2>1. CASE e \in 1..n
    <3>1. /\ HeaderBytes <= word[e] /\ Ends(n, e) <= word[0]
          /\ \E s \in Record : EntryHolds(n, e, s)
      BY <2>1 DEF Good, Layout
    <3>2. /\ word'[e] = word[e] /\ Ends(n + 1, e)' = Ends(n, e) /\ word[0] <= word'[0]
          /\ \A s \in Record : EntryHolds(n + 1, e, s)' <=> EntryHolds(n, e, s)
      BY <2>1, NewEntry
    <3>3. Ends(n, e) \in Nat /\ word[0] \in Nat /\ word'[0] \in Nat
      <4>1. MaxEntries \in Nat /\ n <= MaxEntries
        BY DEF Good, Shape, DebugDataAssumptions
      <4> QED
        BY <4>1, <1>1, <2>1, NewEntry DEF Good, Types, Ends
    <3> QED
      BY <3>1, <3>2, <3>3
  <2>2. CASE e = n + 1
    <3>1. HeaderBytes <= word[0]
      BY DEF Good, Layout
    <3>2. /\ word'[e] = word[0] /\ Ends(n + 1, e)' = word'[0] /\ EntryHolds(n + 1, e, r)'
      BY <2>2, NewEntry
    <3>3. word'[0] \in Nat
      BY NewEntry DEF Types, DebugDataAssumptions
    <3> QED
      BY <3>1, <3>2, <3>3
  <2> QED
    BY <1>2, <2>1, <2>2
<1>4. Distinct(n + 1)'
  <2> SUFFICES ASSUME NEW d \in 1..(n + 1), NEW e \in 1..(n + 1), NEW s \in Record,
                      EntryHolds(n + 1, d, s)', EntryHolds(n + 1, e, s)'
               PROVE  d = e
    BY DEF Distinct
  <2>1. \A k \in 1..n : ~EntryHolds(n, k, r)
    BY LeastMatch DEF InjectNew
  <2>2. \A k \in 1..n : EntryHolds(n + 1, k, s)' => EntryHolds(n, k, s)
    BY NewEntry
  <2>3. EntryHolds(n + 1, n + 1, s)' => s = r
    BY NewEntry
  <2>4. \A j, k \in 1..n : EntryHolds(n, j, s) /\ EntryHolds(n, k, s) => j = k
    BY DEF Good, Distinct
  <2> QED
    BY <1>2, <2>1, <2>2, <2>3, <2>4
<1>5. Codes(n + 1)'
  <2> SUFFICES ASSUME NEW p \in issued'
               PROVE  p \in Record \X (1..(n + 1)) /\ EntryHolds(n + 1, p[2], p[1])'
    BY DEF Codes
  <2>1. CASE p \in issued
    <3>1. p \in Record \X (1..n) /\ EntryHolds(n, p[2], p[1])
      BY <2>1 DEF Good, Codes
    <3> QED
      BY <3>1, <1>1, NewEntry
  <2>2. CASE p = <<r, n + 1>>
    <3>1. EntryHolds(n + 1, n + 1, r)'
      BY NewEntry
    <3> QED
      BY <2>2, <3>1, <1>1
  <2> QED
    BY <2>1, <2>2, <1>1 DEF InjectNew
<1> QED
  BY <1>3, <1>4, <1>5, NewEntry DEF Good

(* A known record leaves the table as it is and is handed its own slot.    *)
LEMMA KnownGood ==
  ASSUME DebugDataAssumptions, NEW n, Good(n), NEW r \in Record, InjectKnown(r)
  PROVE  Good(n)'
<1>1. UNCHANGED <<word, image>> /\ issued' = issued \cup {<<r, Least(Matches(r))>>}
  BY DEF InjectKnown
<1>2. Least(Matches(r)) \in 1..n /\ EntryHolds(n, Least(Matches(r)), r)
  BY LeastMatch DEF InjectKnown
<1>3. Types' /\ Shape(n)' /\ Layout(n)' /\ Distinct(n)'
  BY <1>1 DEF Good, Types, Shape, Layout, Distinct, Ends, EntryHolds
<1>4. \A e, s : EntryHolds(n, e, s)' <=> EntryHolds(n, e, s)
  BY <1>1 DEF EntryHolds, Ends
<1>5. Codes(n)'
  <2> SUFFICES ASSUME NEW p \in issued'
               PROVE  p \in Record \X (1..n) /\ EntryHolds(n, p[2], p[1])'
    BY DEF Codes
  <2>1. CASE p \in issued
    BY <2>1, <1>4 DEF Good, Codes
  <2>2. CASE p = <<r, Least(Matches(r))>>
    BY <2>2, <1>2, <1>4
  <2> QED
    BY <1>1, <2>1, <2>2
<1> QED
  BY <1>3, <1>5 DEF Good

(* The shape depends on nothing but the slots, the bytes and the codes.    *)
LEMMA SameGood ==
  ASSUME NEW n, Good(n), UNCHANGED <<word, image, issued>>
  PROVE  Good(n)'
BY DEF Good, Types, Shape, Layout, Distinct, Codes, Ends, EntryHolds

(* The slots kept and the bytes behind them fit the collapsed table.       *)
LEMMA CollapseTypes ==
  ASSUME DebugDataAssumptions, NEW n, Good(n), Rest, CollapseDebugData
  PROVE  Rest'
<1> DEFINE cnt == 2 * (n + 1)
<1>1. /\ n \in Nat /\ n <= MaxEntries /\ MaxEntries \in Nat /\ HeaderBytes = 2 * (MaxEntries + 1)
      /\ HeaderBytes \in Nat /\ SizeBytes \in Nat /\ RecordCount = n
  BY CountIs DEF Good, Shape, DebugDataAssumptions, HeaderBytes
<1>2. /\ HeaderBytes <= word[0] /\ word[0] <= SizeBytes /\ word[0] \in Nat
  BY <1>1 DEF Good, Layout, Types
<1>3. 2 * CountOfWords = cnt /\ Shift = HeaderBytes - cnt /\ cnt \in Nat /\ cnt <= HeaderBytes
  BY <1>1 DEF CountOfWords, Shift
<1>4. ASSUME NEW k \in 0..n PROVE word[k] - Shift \in 0..SizeBytes
  <2>1. CASE k = 0
    BY <2>1, <1>1, <1>2, <1>3
  <2>2. CASE k \in 1..n
    <3>1. HeaderBytes <= word[k] /\ Ends(n, k) <= word[0] /\ \E r \in Record : EntryHolds(n, k, r)
      BY <2>2 DEF Good, Layout
    <3>2. PICK r \in Record : Ends(n, k) = word[k] + Len(r)
      BY <3>1 DEF EntryHolds
    <3>3. Len(r) \in Nat /\ word[k] \in Nat
      BY <1>1, <2>2, RecordType DEF Good, Types
    <3> QED
      BY <3>1, <3>2, <3>3, <1>1, <1>2, <1>3
  <2> QED
    BY <1>1, <2>1, <2>2
<1> DEFINE size == cnt + word[0] - HeaderBytes
           Elem(o) == IF o <= cnt
                      THEN IF o % 2 = 1 THEN word[(o - 1) \div 2] - Shift ELSE 0
                      ELSE image[HeaderBytes + o - 1 - cnt]
<1>5. dataOnly' = [o \in 1..size |-> Elem(o)]
  BY <1>3 DEF CollapseDebugData
<1>6. ASSUME NEW o \in 1..size PROVE Elem(o) \in (0..SizeBytes) \cup Byte
  <2>1. CASE o <= cnt /\ o % 2 = 1
    <3>1. (o - 1) \div 2 \in 0..n
      BY <2>1, <1>1, <1>3
    <3> QED
      BY <2>1, <3>1, <1>4
  <2>2. CASE o <= cnt /\ o % 2 # 1
    BY <2>2, <1>1
  <2>3. CASE ~(o <= cnt)
    <3>1. HeaderBytes + o - 1 - cnt \in Address
      BY <2>3, <1>1, <1>2, <1>3 DEF Address
    <3> QED
      BY <2>3, <3>1 DEF Good, Types
  <2> QED
    BY <2>1, <2>2, <2>3
<1>7. size \in Nat
  BY <1>1, <1>2, <1>3
<1>8. dataOnly' \in Seq((0..SizeBytes) \cup Byte)
  <2> HIDE DEF size, Elem
  <2> QED
    BY <1>5, <1>6, <1>7
<1> QED
  BY <1>8 DEF Rest, CollapseDebugData

(* A slot of the collapsed table leads to the bytes its offset led to.     *)
LEMMA CollapseResolves ==
  ASSUME DebugDataAssumptions, NEW n, Good(n), CollapseDebugData
  PROVE  CollapsedResolves'
<1> DEFINE cnt == 2 * (n + 1)
           size == cnt + word[0] - HeaderBytes
<1>1. /\ n \in Nat /\ HeaderBytes \in Nat /\ SizeBytes \in Nat /\ RecordCount = n
      /\ word[0] \in Nat /\ HeaderBytes <= word[0]
  <2>1. n \in Nat /\ RecordCount = n /\ MaxEntries \in Nat
    BY CountIs DEF Good, Shape, DebugDataAssumptions
  <2>2. HeaderBytes \in Nat /\ SizeBytes \in Nat
    BY <2>1 DEF HeaderBytes, DebugDataAssumptions
  <2>3. word[0] \in Nat /\ HeaderBytes <= word[0]
    BY <2>1 DEF Good, Types, Layout
  <2> QED
    BY <2>1, <2>2, <2>3
<1>2. 2 * CountOfWords = cnt /\ Shift = HeaderBytes - cnt
  BY <1>1 DEF CountOfWords, Shift
<1>3. dataOnly' = [o \in 1..size |->
                     IF o <= cnt
                     THEN IF o % 2 = 1 THEN word[(o - 1) \div 2] - Shift ELSE 0
                     ELSE image[HeaderBytes + o - 1 - cnt]]
  BY <1>2 DEF CollapseDebugData
<1> SUFFICES ASSUME NEW p \in issued, NEW i \in 1..Len(p[1])
             PROVE  LET start == dataOnly'[2 * p[2] + 1]
                    IN  start + i \in DOMAIN dataOnly' /\ dataOnly'[start + i] = p[1][i]
  BY DEF CollapsedResolves, CollapseDebugData
<1> DEFINE e == p[2]
           r == p[1]
<1>4. e \in 1..n /\ r \in Record /\ EntryHolds(n, e, r)
  BY DEF Good, Codes
<1>5. /\ word[e] \in Nat /\ HeaderBytes <= word[e] /\ word[e] + Len(r) <= word[0]
      /\ image[word[e] + i - 1] = r[i]
  <2>1. MaxEntries \in Nat /\ n <= MaxEntries
    BY DEF Good, Shape, DebugDataAssumptions
  <2>2. e \in 0..MaxEntries
    BY <2>1, <1>1, <1>4
  <2> HIDE DEF e, r
  <2>3. word[e] \in Nat
    BY <2>2 DEF Good, Types
  <2>4. HeaderBytes <= word[e] /\ Ends(n, e) <= word[0]
    BY <1>4 DEF Good, Layout
  <2>5. Ends(n, e) = word[e] + Len(r) /\ \A k \in 1..Len(r) : image[word[e] + k - 1] = r[k]
    BY <1>4 DEF EntryHolds
  <2>6. i \in 1..Len(r)
    BY DEF r
  <2> QED
    BY <2>3, <2>4, <2>5, <2>6
<1>6. i \in Nat /\ 1 <= i /\ i <= Len(r) /\ Len(r) \in Nat
  BY <1>4, RecordType
<1> HIDE DEF e, r
<1>7. dataOnly'[2 * e + 1] = word[e] - Shift
  <2>1. /\ 2 * e + 1 \in 1..size /\ 2 * e + 1 <= cnt
        /\ (2 * e + 1) % 2 = 1 /\ ((2 * e + 1) - 1) \div 2 = e
    BY <1>1, <1>4
  <2> QED
    BY <1>3, <2>1
<1>8. /\ word[e] - Shift + i \in 1..size /\ ~(word[e] - Shift + i <= cnt)
      /\ HeaderBytes + (word[e] - Shift + i) - 1 - cnt = word[e] + i - 1
  <2>1. cnt \in Nat /\ size = cnt + word[0] - HeaderBytes
    BY <1>1
  <2>2. word[e] - Shift + i = cnt + (word[e] - HeaderBytes) + i
    BY <2>1, <1>1, <1>2, <1>5, <1>6
  <2> DEFINE o == word[e] - Shift + i
  <2> HIDE DEF cnt, size, o
  <2>3. o = cnt + (word[e] - HeaderBytes) + i
    BY <2>2 DEF o
  <2>4. PICK d \in Nat : word[e] = HeaderBytes + d
    <3>1. word[e] - HeaderBytes \in Nat /\ word[e] = HeaderBytes + (word[e] - HeaderBytes)
      BY <1>1, <1>5
    <3> QED
      BY <3>1
  <2>6. d + Len(r) <= word[0] - HeaderBytes /\ o = cnt + d + i
    BY <2>1, <2>3, <2>4, <1>1, <1>5, <1>6
  <2>7. o \in 1..size /\ ~(o <= cnt)
    BY <2>1, <2>6, <1>1, <1>6
  <2>5. o \in 1..size /\ ~(o <= cnt) /\ HeaderBytes + o - 1 - cnt = word[e] + i - 1
    BY <2>1, <2>4, <2>6, <2>7, <1>1, <1>6
  <2> QED
    BY <2>5 DEF o
<1>9. DOMAIN dataOnly' = 1..size /\ dataOnly'[word[e] - Shift + i] = r[i]
  BY <1>3, <1>5, <1>8
<1> QED
  BY <1>7, <1>8, <1>9 DEF e, r

(* Every step preserves the invariant.                                     *)
LEMMA NextIInv == ASSUME DebugDataAssumptions, IInv, [TableNext]_tableVars PROVE IInv'
<1>1. PICK n : Good(n)
  BY DEF IInv
<1>2. Rest /\ CollapsedResolves
  BY DEF IInv
<1>3. ASSUME NEW r \in Record, InjectKnown(r) PROVE IInv'
  <2>1. UNCHANGED <<refused, dataOnly>> /\ dataOnly = << >>
    BY <1>3 DEF InjectKnown, Compiling
  <2> QED
    BY <1>1, <1>2, <1>3, <2>1, KnownGood DEF IInv, Rest, CollapsedResolves
<1>4. ASSUME NEW r \in Record, InjectNew(r) PROVE IInv'
  <2>1. UNCHANGED <<refused, dataOnly>> /\ dataOnly = << >>
    BY <1>4 DEF InjectNew, Compiling
  <2> QED
    BY <1>1, <1>2, <1>4, <2>1, NewGood DEF IInv, Rest, CollapsedResolves
<1>5. ASSUME NEW r \in Record, RecordTooLong(r) \/ TooManyRecords(r) \/ TableFull(r) PROVE IInv'
  <2>1. UNCHANGED <<word, image, issued, dataOnly>> /\ refused' \in {"m150", "m151", "m153"}
    BY <1>5 DEF RecordTooLong, TooManyRecords, TableFull, Throw
  <2>2. Rest' /\ CollapsedResolves'
    BY <1>2, <2>1 DEF Rest, CollapsedResolves
  <2> QED
    BY <1>1, <2>1, <2>2, SameGood DEF IInv
<1>6. CASE CollapseDebugData
  <2>1. UNCHANGED <<word, image, issued>>
    BY <1>6 DEF CollapseDebugData
  <2> QED
    BY <1>1, <1>2, <1>6, <2>1, SameGood, CollapseTypes, CollapseResolves DEF IInv
<1>7. CASE UNCHANGED tableVars
  <2>1. UNCHANGED <<word, image, issued, refused, dataOnly>>
    BY <1>7 DEF tableVars
  <2>2. Rest' /\ CollapsedResolves'
    BY <1>2, <2>1 DEF Rest, CollapsedResolves
  <2> QED
    BY <1>1, <2>1, <2>2, SameGood DEF IInv
<1> QED
  BY <1>3, <1>4, <1>5, <1>6, <1>7 DEF TableNext

(* The inductive invariant holds in every state.                           *)
LEMMA Invariance == ASSUME DebugDataAssumptions PROVE TableSpec => []IInv
  BY InitIInv, NextIInv, PTL DEF TableSpec

-----------------------------------------------------------------------------
(* The refinement.                                                         *)

(* What the table stands for after a step.                                 *)
LEMMA PrimedTableIs ==
  ASSUME DebugDataAssumptions
  PROVE  (\A n : Good(n) =>
           /\ RecordCount = n /\ n \in Nat
           /\ Table \in Seq(Record) /\ Len(Table) = n
           /\ \A e \in 1..n : \A r \in Record : EntryHolds(n, e, r) <=> Table[e] = r
           /\ \A e \in 1..n : Table[e] = GetRecordBytes(e))'
BY TableIs, PTL

(* Before the first record the table is empty.                             *)
LEMMA InitTable == ASSUME DebugDataAssumptions, TableInit PROVE Abstract!Init
<1>1. PICK n : Good(n)
  BY InitIInv DEF IInv
<1>2. n \in Nat /\ Table \in Seq(Record) /\ Len(Table) = n
  BY <1>1, TableIs
<1>3. MaxEntries \in Nat \ {0} /\ n <= MaxEntries
  BY <1>1 DEF Good, Shape, DebugDataAssumptions
<1>4. word[1] = 0
  <2>1. word = [e \in 0..MaxEntries |-> IF e = 0 THEN HeaderBytes ELSE 0]
    BY DEF TableInit
  <2>2. 1 \in 0..MaxEntries
    BY <1>3
  <2> QED
    BY <2>1, <2>2
<1>5. n = 0
  BY <1>1, <1>2, <1>3, <1>4 DEF Good, Shape
<1>6. Table = << >>
  BY <1>2, <1>5
<1>7. issued = {} /\ ~(refused # "")
  BY DEF TableInit
<1> QED
  BY <1>6, <1>7 DEF Abstract!Init

(* Slots and bytes that stay stand for the same records.                   *)
LEMMA SameTable == ASSUME UNCHANGED <<word, image>> PROVE Table' = Table
BY DEF Table, RecordCount, Walked, RecordExists, GetRecordBytes, RecordEnd

(* A record found by the walk is entered again under its own code.         *)
LEMMA KnownEnters ==
  ASSUME DebugDataAssumptions, IInv, NEW r \in Record, InjectKnown(r)
  PROVE  Abstract!Enter(r)
<1>1. PICK n : Good(n)
  BY DEF IInv
<1> DEFINE k == Least(Matches(r))
<1>2. k \in 1..n /\ EntryHolds(n, k, r)
  BY <1>1, LeastMatch DEF InjectKnown
<1>3. Len(Table) = n /\ \A e \in 1..n : EntryHolds(n, e, r) <=> Table[e] = r
  BY <1>1, TableIs
<1>4. Table[k] = r /\ \A e \in 1..Len(Table) : Table[e] = r => e = k
  BY <1>1, <1>2, <1>3 DEF Good, Distinct
<1>5. Abstract!Holds(Table, r) /\ Abstract!IndexOf(Table, r) = k
  <2> HIDE DEF k
  <2> QED
    BY <1>2, <1>3, <1>4 DEF Abstract!Holds, Abstract!IndexOf
<1>6. Table' = Table
  BY SameTable DEF InjectKnown
<1>7. issued' = issued \cup {<<r, k>>} /\ refused = "" /\ refused' = refused
  BY DEF InjectKnown, Compiling
<1> HIDE DEF k
<1> QED
  BY <1>5, <1>6, <1>7 DEF Abstract!Enter, Abstract!CodeOf, Abstract!Entered

(* A record written behind the last one is appended to the table.          *)
LEMMA NewEnters ==
  ASSUME DebugDataAssumptions, IInv, NEW r \in Record, InjectNew(r)
  PROVE  Abstract!Enter(r)
<1>1. PICK n : Good(n)
  BY DEF IInv
<1>2. n \in Nat /\ RecordCount = n /\ Table \in Seq(Record) /\ Len(Table) = n
  BY <1>1, TableIs
<1>3. Good(n + 1)'
  BY <1>1, NewGood
<1>4. Table' \in Seq(Record) /\ Len(Table') = n + 1
  BY <1>3, PrimedTableIs
<1>5. ASSUME NEW e \in 1..n PROVE Table'[e] = Table[e]
  <2>1. PICK s \in Record : EntryHolds(n, e, s)
    BY <1>1 DEF Good, Layout
  <2>2. Table[e] = s
    BY <1>1, <2>1, TableIs
  <2>3. EntryHolds(n + 1, e, s)'
    BY <1>1, <2>1, NewEntry
  <2>4. e \in 1..(n + 1)
    BY <1>2
  <2>5. Table'[e] = s
    BY <1>3, <2>3, <2>4, PrimedTableIs
  <2> QED
    BY <2>2, <2>5
<1>6. Table'[n + 1] = r
  <2>1. EntryHolds(n + 1, n + 1, r)' /\ n + 1 \in 1..(n + 1)
    BY <1>1, <1>2, NewEntry
  <2> QED
    BY <1>3, <2>1, PrimedTableIs
<1>7. Table' = Append(Table, r)
  BY <1>2, <1>4, <1>5, <1>6
<1>8. ~Abstract!Holds(Table, r)
  <2>1. \A e \in 1..n : ~EntryHolds(n, e, r)
    BY <1>1, LeastMatch DEF InjectNew
  <2> QED
    BY <1>1, <1>2, <2>1, TableIs DEF Abstract!Holds
<1>9. n < MaxEntries
  BY <1>1, NewEntry
<1>10. issued' = issued \cup {<<r, n + 1>>} /\ refused = "" /\ refused' = refused
  BY <1>2 DEF InjectNew, FreeEntry, Compiling
<1> QED
  BY <1>2, <1>7, <1>8, <1>9, <1>10 DEF Abstract!Enter, Abstract!CodeOf, Abstract!Entered

(* Every step enters a record, is a limit, or changes no record.           *)
LEMMA StepsOfTable ==
  ASSUME DebugDataAssumptions, IInv, [TableNext]_tableVars
  PROVE  [Abstract!Next]_(Abstract!vars)
<1>1. ASSUME NEW r \in Record, InjectKnown(r) \/ InjectNew(r) PROVE Abstract!Next
  BY <1>1, KnownEnters, NewEnters DEF Abstract!Next
<1>2. ASSUME NEW r \in Record, RecordTooLong(r) \/ TooManyRecords(r) \/ TableFull(r)
      PROVE  Abstract!Next
  <2>1. /\ UNCHANGED <<word, image, issued>> /\ refused = "" /\ refused' # ""
    BY <1>2 DEF RecordTooLong, TooManyRecords, TableFull, Throw, Compiling
  <2>2. Table' = Table
    BY <2>1, SameTable
  <2> QED
    BY <2>1, <2>2 DEF Abstract!Next, Abstract!Reject
<1>3. CASE CollapseDebugData \/ UNCHANGED tableVars
  <2>1. UNCHANGED <<word, image, issued, refused>>
    BY <1>3 DEF CollapseDebugData, tableVars
  <2>2. Table' = Table
    BY <2>1, SameTable
  <2> QED
    BY <2>1, <2>2 DEF Abstract!vars
<1> QED
  BY <1>1, <1>2, <1>3 DEF TableNext

-----------------------------------------------------------------------------

(* The offset table and its image keep their types: no offset leaves the   *)
(* 16 KiB of the buffer and no code leaves 1..255.                         *)
THEOREM TypeCorrect == ASSUME DebugDataAssumptions PROVE TableSpec => []TableTyped
<1>1. IInv => TableTyped
  <2> SUFFICES ASSUME IInv PROVE TableTyped
    OBVIOUS
  <2>1. PICK n : Good(n)
    BY DEF IInv
  <2>2. n \in Nat /\ n <= MaxEntries /\ MaxEntries \in Nat /\ SizeBytes \in Nat
    BY <2>1 DEF Good, Shape, DebugDataAssumptions
  <2>3. word[0] \in 0..SizeBytes
    BY <2>1, <2>2 DEF Good, Types, Layout
  <2>4. ASSUME NEW e \in 1..MaxEntries PROVE word[e] \in 0..SizeBytes
    <3>1. CASE e <= n
      <4>1. e \in 1..n /\ word[e] \in Nat
        BY <2>1, <2>2, <3>1 DEF Good, Types
      <4>2. PICK r \in Record : Ends(n, e) = word[e] + Len(r) /\ Ends(n, e) <= word[0]
        BY <2>1, <4>1 DEF Good, Layout, EntryHolds
      <4>3. Len(r) \in Nat
        BY RecordType
      <4> QED
        BY <2>2, <2>3, <4>1, <4>2, <4>3
    <3>2. CASE ~(e <= n)
      BY <2>1, <2>2, <3>2 DEF Good, Shape
    <3> QED
      BY <3>1, <3>2
  <2>5. word \in [0..MaxEntries -> 0..SizeBytes]
    <3>1. \A e \in 0..MaxEntries : e = 0 \/ e \in 1..MaxEntries
      BY <2>2
    <3>2. \A e \in 0..MaxEntries : word[e] \in 0..SizeBytes
      BY <2>3, <2>4, <3>1
    <3> QED
      BY <2>1, <3>2 DEF Good, Types
  <2>6. issued \subseteq Record \X (1..MaxEntries)
    <3>1. 1..n \subseteq 1..MaxEntries
      BY <2>2
    <3> QED
      BY <2>1, <3>1 DEF Good, Codes
  <2> QED
    BY <2>1, <2>5, <2>6 DEF TableTyped, IInv, Rest, Good, Types
<1> QED
  BY <1>1, Invariance, PTL

(* Whatever records are entered, in whatever order, the bytes found for a  *)
(* BRK code are those of the record it was issued for.                     *)
THEOREM BytesFound == ASSUME DebugDataAssumptions PROVE TableSpec => []BytesReadBack
<1>1. IInv => BytesReadBack
  <2> SUFFICES ASSUME IInv, NEW p \in issued PROVE GetRecordBytes(p[2]) = p[1]
    BY DEF BytesReadBack
  <2>1. PICK n : Good(n)
    BY DEF IInv
  <2>2. p[1] \in Record /\ p[2] \in 1..n /\ EntryHolds(n, p[2], p[1])
    BY <2>1 DEF Good, Codes
  <2> QED
    BY <2>1, <2>2, BytesAre
<1> QED
  BY <1>1, Invariance, PTL

(* The collapsed table in front of the program leads every code to the     *)
(* bytes of its record.                                                    *)
THEOREM Resolves == ASSUME DebugDataAssumptions PROVE TableSpec => []CollapsedResolves
<1>1. IInv => CollapsedResolves
  BY DEF IInv
<1> QED
  BY <1>1, Invariance, PTL

(* All of it at once, as it is checked: whatever records an object enters, *)
(* the table keeps its types, its bytes are those of the records, and the  *)
(* program finds them.                                                     *)
THEOREM ReadBack == ASSUME DebugDataAssumptions PROVE TableSpec => []RecordsReadBack
<1>1. TableTyped /\ BytesReadBack /\ CollapsedResolves => RecordsReadBack
  BY DEF RecordsReadBack
<1> QED
  BY <1>1, TypeCorrect, BytesFound, Resolves, PTL

(* The table of offsets and the byte image implement the table of records. *)
THEOREM Implements == ASSUME DebugDataAssumptions PROVE TableSpec => ImplementsDebugTable
<1>1. TableInit => Abstract!Init
  BY InitTable
<1>2. IInv /\ [TableNext]_tableVars => [Abstract!Next]_(Abstract!vars)
  BY StepsOfTable
<1> QED
  BY <1>1, <1>2, Invariance, PTL DEF TableSpec, Abstract!Spec, ImplementsDebugTable

=============================================================================
