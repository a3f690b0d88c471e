---------------------------- MODULE Code_proofs -----------------------------
(***************************************************************************)
(* Every number that a writer accepts reads back: the septets of a number  *)
(* are its digits to the base of 128, and the length that a writer chooses *)
(* leaves the sign in the highest bit that is read.                        *)
(*                                                                         *)
(* And the image that the assembler writes is whole, whatever the lines.   *)
(* What a line does is a chain of small steps, each of which either puts a *)
(* run of pieces behind what there is (Put) or writes nothing (Calm); only *)
(* DITTO END goes back, to where the block began, and the invariant keeps  *)
(* that place as one where a piece ends (DittoOpen).                       *)
(*                                                                         *)
(* And its symbols stand: what the first pass says a label is, is where    *)
(* the second pass puts the line. Two states, one in each pass, are twins  *)
(* if they are at the same places and the second one knows the labels the  *)
(* first one ends with; every line leads from twins to twins (Twins), and  *)
(* the invariant keeps the whole run of the first pass to walk beside.     *)
(***************************************************************************)
EXTENDS Varints, Assembler, FiniteSetTheorems, WellFoundedInduction, TLAPS

(* What Septets makes for each of the four lengths.                        *)
LEMMA OneByte == \A v \in Int : Septets(v, 1) = <<v % 128>>
<1> SUFFICES ASSUME NEW v \in Int PROVE Septets(v, 1) = <<v % 128>>
  OBVIOUS
<1>1. v \div 128 ^ 0 = v
  OBVIOUS
<1> QED
  BY <1>1 DEF Septets, Septet

(* Two of them, the first of which says that another one follows.          *)
LEMMA TwoBytes == \A v \in Int : Septets(v, 2) = <<(v % 128) + 128, (v \div 128) % 128>>
<1> SUFFICES ASSUME NEW v \in Int PROVE Septets(v, 2) = <<(v % 128) + 128, (v \div 128) % 128>>
  OBVIOUS
<1>1. v \div 128 ^ 0 = v /\ v \div 128 ^ 1 = v \div 128
  OBVIOUS
<1> QED
  BY <1>1 DEF Septets, Septet

(* Three of them.                                                          *)
LEMMA ThreeBytes ==
  \A v \in Int : Septets(v, 3) = <<(v % 128) + 128, ((v \div 128) % 128) + 128, (v \div (2 ^ 14)) % 128>>
<1> SUFFICES ASSUME NEW v \in Int
             PROVE  Septets(v, 3) = <<(v % 128) + 128, ((v \div 128) % 128) + 128, (v \div (2 ^ 14)) % 128>>
  OBVIOUS
<1>1. v \div 128 ^ 0 = v /\ v \div 128 ^ 1 = v \div 128 /\ v \div 128 ^ 2 = v \div (2 ^ 14)
  OBVIOUS
<1> QED
  BY <1>1 DEF Septets, Septet

(* Four of them, the last of which has eight bits.                         *)
LEMMA FourBytes ==
  \A v \in Int : Septets(v, 4) = <<(v % 128) + 128, ((v \div 128) % 128) + 128,
                                   ((v \div (2 ^ 14)) % 128) + 128, (v \div (2 ^ 21)) % 256>>
<1> SUFFICES ASSUME NEW v \in Int
             PROVE  Septets(v, 4) = <<(v % 128) + 128, ((v \div 128) % 128) + 128,
                                     ((v \div (2 ^ 14)) % 128) + 128, (v \div (2 ^ 21)) % 256>>
  OBVIOUS
<1>1. v \div 128 ^ 0 = v /\ v \div 128 ^ 1 = v \div 128 /\ v \div 128 ^ 2 = v \div (2 ^ 14)
  OBVIOUS
<1> QED
  BY <1>1 DEF Septets, Septet

(* A sequence of so many septets is whole and reads back modulo so many    *)
(* bits.                                                                   *)
LEMMA ReadsOne == \A v \in Int :
  /\ Whole(Septets(v, 1)) /\ ValueOf(Septets(v, 1)) = v % 128 /\ BitsOf(Septets(v, 1)) = 7
<1> SUFFICES ASSUME NEW v \in Int
             PROVE  Whole(Septets(v, 1)) /\ ValueOf(Septets(v, 1)) = v % 128 /\ BitsOf(Septets(v, 1)) = 7
  OBVIOUS
<1> DEFINE bs == <<v % 128>>
<1>1. Septets(v, 1) = bs
  BY OneByte
<1>2. Whole(bs)
  BY DEF Whole
<1>3. ValueOf(bs) = v % 128
  BY DEF ValueOf, BitsRead
<1>4. BitsOf(bs) = 7
  BY DEF BitsOf
<1> QED
  BY <1>1, <1>2, <1>3, <1>4

(* So do two, of two septets;                                              *)
LEMMA ReadsTwo == \A v \in Int :
  /\ Whole(Septets(v, 2)) /\ ValueOf(Septets(v, 2)) = v % (2 ^ 14) /\ BitsOf(Septets(v, 2)) = 14
<1> SUFFICES ASSUME NEW v \in Int
             PROVE  Whole(Septets(v, 2)) /\ ValueOf(Septets(v, 2)) = v % (2 ^ 14) /\ BitsOf(Septets(v, 2)) = 14
  OBVIOUS
<1> DEFINE bs == <<(v % 128) + 128, (v \div 128) % 128>>
<1>1. Septets(v, 2) = bs
  BY TwoBytes
<1>2. Whole(bs)
  BY DEF Whole
<1>3. ValueOf(bs) = (v % 128) + (128 * ((v \div 128) % 128))
  BY DEF ValueOf, BitsRead
<1>4. (v % 128) + (128 * ((v \div 128) % 128)) = v % (2 ^ 14)
  OBVIOUS
<1>5. BitsOf(bs) = 14
  BY DEF BitsOf
<1> QED
  BY <1>1, <1>2, <1>3, <1>4, <1>5

(* three, of three;                                                        *)
LEMMA ReadsThree == \A v \in Int :
  /\ Whole(Septets(v, 3)) /\ ValueOf(Septets(v, 3)) = v % (2 ^ 21) /\ BitsOf(Septets(v, 3)) = 21
<1> SUFFICES ASSUME NEW v \in Int
             PROVE  Whole(Septets(v, 3)) /\ ValueOf(Septets(v, 3)) = v % (2 ^ 21) /\ BitsOf(Septets(v, 3)) = 21
  OBVIOUS
<1> DEFINE bs == <<(v % 128) + 128, ((v \div 128) % 128) + 128, (v \div (2 ^ 14)) % 128>>
<1>1. Septets(v, 3) = bs
  BY ThreeBytes
<1>2. Whole(bs)
  BY DEF Whole
<1>3. ValueOf(bs) = (v % 128) + (128 * ((v \div 128) % 128)) + ((2 ^ 14) * ((v \div (2 ^ 14)) % 128))
  BY DEF ValueOf, BitsRead
<1>4. (v % 128) + (128 * ((v \div 128) % 128)) + ((2 ^ 14) * ((v \div (2 ^ 14)) % 128)) = v % (2 ^ 21)
  OBVIOUS
<1>5. BitsOf(bs) = 21
  BY DEF BitsOf
<1> QED
  BY <1>1, <1>2, <1>3, <1>4, <1>5

(* and four, of 29 bits.                                                   *)
LEMMA ReadsFour == \A v \in Int :
  /\ Whole(Septets(v, 4)) /\ ValueOf(Septets(v, 4)) = v % (2 ^ 29) /\ BitsOf(Septets(v, 4)) = 29
<1> SUFFICES ASSUME NEW v \in Int
             PROVE  Whole(Septets(v, 4)) /\ ValueOf(Septets(v, 4)) = v % (2 ^ 29) /\ BitsOf(Septets(v, 4)) = 29
  OBVIOUS
<1> DEFINE bs == <<(v % 128) + 128, ((v \div 128) % 128) + 128, ((v \div (2 ^ 14)) % 128) + 128, (v \div (2 ^ 21)) % 256>>
<1>1. Septets(v, 4) = bs
  BY FourBytes
<1>2. Whole(bs)
  BY DEF Whole
<1>3. ValueOf(bs) = (v % 128) + (128 * ((v \div 128) % 128)) + ((2 ^ 14) * ((v \div (2 ^ 14)) % 128))
                      + ((2 ^ 21) * ((v \div (2 ^ 21)) % 256))
  <2>1. BitsRead(bs, 1) = v % 128 /\ BitsRead(bs, 2) = (v \div 128) % 128
    BY DEF BitsRead
  <2>2. BitsRead(bs, 3) = (v \div (2 ^ 14)) % 128 /\ BitsRead(bs, 4) = (v \div (2 ^ 21)) % 256
    BY DEF BitsRead
  <2> QED
    BY <2>1, <2>2 DEF ValueOf
<1>4. (v % 128) + (128 * ((v \div 128) % 128)) + ((2 ^ 14) * ((v \div (2 ^ 14)) % 128))
        + ((2 ^ 21) * ((v \div (2 ^ 21)) % 256)) = v % (2 ^ 29)
  OBVIOUS
<1>5. BitsOf(bs) = 29
  BY DEF BitsOf
<1> QED
  BY <1>1, <1>2, <1>3, <1>4, <1>5

(* RFVAR: the length holds every bit of the number.                        *)
LEMMA UnsignedReads == \A v \in 0..(2 ^ 29) - 1 : Whole(Rfvar(v)) /\ ValueOf(Rfvar(v)) = v
<1> SUFFICES ASSUME NEW v \in 0..(2 ^ 29) - 1 PROVE Whole(Rfvar(v)) /\ ValueOf(Rfvar(v)) = v
  OBVIOUS
<1>1. v \in Int /\ v >= 0 /\ v < (2 ^ 29)
  OBVIOUS
<1>2. CASE v < 128
  <2>1. Rfvar(v) = Septets(v, 1)
    BY <1>2 DEF Rfvar
  <2> QED
    BY <1>1, <1>2, <2>1, ReadsOne
<1>3. CASE v >= 128 /\ v < (2 ^ 14)
  <2>1. Rfvar(v) = Septets(v, 2)
    BY <1>3 DEF Rfvar
  <2> QED
    BY <1>1, <1>3, <2>1, ReadsTwo
<1>4. CASE v >= (2 ^ 14) /\ v < (2 ^ 21)
  <2>1. Rfvar(v) = Septets(v, 3)
    BY <1>4 DEF Rfvar
  <2> QED
    BY <1>1, <1>4, <2>1, ReadsThree
<1>5. CASE v >= (2 ^ 21)
  <2>1. Rfvar(v) = Septets(v, 4)
    BY <1>5 DEF Rfvar
  <2> QED
    BY <1>1, <1>5, <2>1, ReadsFour
<1> QED
  BY <1>1, <1>2, <1>3, <1>4, <1>5

(* The sign: what is left of a number in so many bits, read with its sign. *)
LEMMA SignedFrom ==
  ASSUME NEW bs, NEW v \in Int, NEW n \in {7, 14, 21, 29}, BitsOf(bs) = n,
         v >= -(2 ^ (n - 1)), v < 2 ^ (n - 1), ValueOf(bs) = v % (2 ^ n)
  PROVE  SignedValueOf(bs) = v
<1>1. CASE n = 7
  BY <1>1 DEF SignedValueOf
<1>2. CASE n = 14
  BY <1>2 DEF SignedValueOf
<1>3. CASE n = 21
  BY <1>3 DEF SignedValueOf
<1>4. CASE n = 29
  BY <1>4 DEF SignedValueOf
<1> QED
  BY <1>1, <1>2, <1>3, <1>4

(* RFVARS: the length leaves room for the sign.                            *)
LEMMA SignedReads == \A v \in -(2 ^ 28)..(2 ^ 28) - 1 : Whole(Rfvars(v)) /\ SignedValueOf(Rfvars(v)) = v
<1> SUFFICES ASSUME NEW v \in -(2 ^ 28)..(2 ^ 28) - 1 PROVE Whole(Rfvars(v)) /\ SignedValueOf(Rfvars(v)) = v
  OBVIOUS
<1>1. v \in Int /\ Fits(v, 29)
  BY DEF Fits
<1>2. CASE Fits(v, 7)
  <2>1. Rfvars(v) = Septets(v, 1)
    BY <1>2 DEF Rfvars
  <2> QED
    BY <1>1, <1>2, <2>1, ReadsOne, SignedFrom DEF Fits
<1>3. CASE ~Fits(v, 7) /\ Fits(v, 14)
  <2>1. Rfvars(v) = Septets(v, 2)
    BY <1>3 DEF Rfvars
  <2> QED
    BY <1>1, <1>3, <2>1, ReadsTwo, SignedFrom DEF Fits
<1>4. CASE ~Fits(v, 7) /\ ~Fits(v, 14) /\ Fits(v, 21)
  <2>1. Rfvars(v) = Septets(v, 3)
    BY <1>4 DEF Rfvars
  <2> QED
    BY <1>1, <1>4, <2>1, ReadsThree, SignedFrom DEF Fits
<1>5. CASE ~Fits(v, 7) /\ ~Fits(v, 14) /\ ~Fits(v, 21)
  <2>1. Rfvars(v) = Septets(v, 4)
    BY <1>5 DEF Rfvars
  <2> QED
    BY <1>1, <1>5, <2>1, ReadsFour, SignedFrom DEF Fits
<1> QED
  BY <1>2, <1>3, <1>4, <1>5

(* A signed number of a DAT block: what is cut off repeats the sign.       *)
LEMMA DatReads == \A v \in -(2 ^ 28)..-1 : Whole(DatRfvars(v)) /\ SignedValueOf(DatRfvars(v)) = v
<1> SUFFICES ASSUME NEW v \in -(2 ^ 28)..-1 PROVE Whole(DatRfvars(v)) /\ SignedValueOf(DatRfvars(v)) = v
  OBVIOUS
<1> DEFINE u == v % (2 ^ 29)
           Extends(bits) == u < 2 ^ (bits - 1) \/ u >= 2 ^ 29 - 2 ^ (bits - 1)
           left == IF Extends(7) THEN u % 2 ^ 7 ELSE IF Extends(14) THEN u % 2 ^ 14 ELSE IF Extends(21) THEN u % 2 ^ 21 ELSE u
<1>1. v \in Int /\ v >= -(2 ^ 28) /\ v < 0 /\ u = v + (2 ^ 29)
  OBVIOUS
<1>2. DatRfvars(v) = Rfvar(left)
  BY DEF DatRfvars
<1>3. /\ Extends(7) <=> v >= -64
      /\ Extends(14) <=> v >= -8192
      /\ Extends(21) <=> v >= -(2 ^ 20)
  BY <1>1
<1>4. CASE v >= -64
  <2>1. left = v % 128 /\ left >= 64 /\ left < 128
    BY <1>1, <1>3, <1>4
  <2>2. Rfvar(left) = Septets(left, 1) /\ left \in Int /\ left % 128 = v % 128
    BY <2>1 DEF Rfvar
  <2> QED
    BY <1>1, <1>2, <1>4, <2>2, ReadsOne, SignedFrom
<1>5. CASE v < -64 /\ v >= -8192
  <2>1. left = v % (2 ^ 14) /\ left >= 8192 /\ left < (2 ^ 14)
    BY <1>1, <1>3, <1>5
  <2>2. Rfvar(left) = Septets(left, 2) /\ left \in Int /\ left % (2 ^ 14) = v % (2 ^ 14)
    BY <2>1 DEF Rfvar
  <2> QED
    BY <1>1, <1>2, <1>5, <2>2, ReadsTwo, SignedFrom
<1>6. CASE v < -8192 /\ v >= -(2 ^ 20)
  <2>1. left = v % (2 ^ 21) /\ left >= (2 ^ 20) /\ left < (2 ^ 21)
    BY <1>1, <1>3, <1>6
  <2>2. Rfvar(left) = Septets(left, 3) /\ left \in Int /\ left % (2 ^ 21) = v % (2 ^ 21)
    BY <2>1 DEF Rfvar
  <2> QED
    BY <1>1, <1>2, <1>6, <2>2, ReadsThree, SignedFrom
<1>7. CASE v < -(2 ^ 20)
  <2>1. left = u /\ left >= (2 ^ 21)
    BY <1>1, <1>3, <1>7
  <2>2. Rfvar(left) = Septets(left, 4) /\ left \in Int /\ left % (2 ^ 29) = v % (2 ^ 29)
    BY <1>1, <2>1 DEF Rfvar
  <2> QED
    BY <1>1, <1>2, <1>7, <2>2, ReadsFour, SignedFrom
<1> QED
  BY <1>1, <1>4, <1>5, <1>6, <1>7

-----------------------------------------------------------------------------

(* Every number of 29 bits that the resolver writes, in a bytecode or in a *)
(* DAT block, signed or not, reads back as the number it was.              *)
THEOREM NumbersRead == NumbersSpec => []NumbersReadBack
<1>1. NumbersInit => NumbersReadBack
  BY DEF NumbersInit, NumbersReadBack
<1>2. NumbersReadBack /\ [NumbersNext]_number => NumbersReadBack'
  <2> SUFFICES ASSUME NumbersReadBack, [NumbersNext]_number PROVE NumbersReadBack'
    OBVIOUS
  <2>1. CASE CompileRfvar \/ CompileRfvarDat
    <3>1. PICK v \in 0..(2 ^ 29) - 1 : number' = [how |-> "unsigned", value |-> v, bytes |-> Rfvar(v)]
      BY <2>1 DEF CompileRfvar, CompileRfvarDat, FvarAccepted, WriteNumber
    <3> QED
      BY <3>1, UnsignedReads DEF NumbersReadBack
  <2>2. CASE CompileRfvars
    <3>1. PICK v \in -(2 ^ 28)..(2 ^ 28) - 1 : number' = [how |-> "signed", value |-> v, bytes |-> Rfvars(v)]
      BY <2>2 DEF CompileRfvars, WriteNumber
    <3> QED
      BY <3>1, SignedReads DEF NumbersReadBack
  <2>3. CASE CompileRfvarsDat
    <3>1. PICK v \in -(2 ^ 28)..-1 : number' = [how |-> "signed", value |-> v, bytes |-> DatRfvars(v)]
      BY <2>3 DEF CompileRfvarsDat, FvarAccepted, WriteNumber
    <3> QED
      BY <3>1, DatReads DEF NumbersReadBack
  <2>4. CASE UNCHANGED number
    BY <2>4 DEF NumbersReadBack
  <2> QED
    BY <2>1, <2>2, <2>3, <2>4 DEF NumbersNext
<1> QED
  BY <1>1, <1>2, PTL DEF NumbersSpec

----------------------------------------------------------------------------

Fields ==
  {"setting", "pass", "at", "offset", "hub", "cogOrg", "cogLimit", "hubOrg", "hubLimit", "orghOffset", "scope", "word",
   "ditto", "labels", "image", "sites", "length", "err"}
IsDitto(d) ==
  /\ DOMAIN d = {"on", "index", "count", "at", "offset"}
  /\ d.on \in BOOLEAN /\ d.index \in Int /\ d.count \in Int /\ d.at \in Int /\ d.offset \in Int
IsLabel(l) == l.hub \in BOOLEAN /\ l.offset \in Int /\ l.cog \in Int
IsState(s) ==
  /\ DOMAIN s = Fields
  /\ s.setting \in Settings /\ s.pass \in 1..3 /\ s.at \in Int /\ s.hub \in BOOLEAN /\ s.scope \in Int
  /\ s.offset \in Int /\ s.cogOrg \in Int /\ s.cogLimit \in Int /\ s.hubOrg \in Int /\ s.hubLimit \in Int /\ s.orghOffset \in Int
  /\ IsDitto(s.ditto)
  /\ \A k \in DOMAIN s.labels : IsLabel(s.labels[k])
  /\ \E S : s.image \in Seq(S)

Sited(s, from) == {s.image[x].offset : x \in {y \in from..Len(s.image) : s.image[y].what.op = "debug" /\ s.image[y].what.a > 0}}
\* the pieces of t behind the first a, which are written from the place of s on
Piece(s, t, a, x, kind) ==
  LET c == t.image[x]
  IN  /\ c.line = s.at /\ c.scope = s.scope /\ c.hub = s.hub
      /\ c.size \in Int /\ c.offset \in Int /\ c.size > 0
      /\ c.offset = IF x = a + 1 THEN s.offset ELSE t.image[x - 1].offset + t.image[x - 1].size
      /\ s.offset <= c.offset /\ c.offset + c.size <= t.offset
      /\ c.org = Here(s) + (c.offset - s.offset)
      /\ (c.what.op \in Fillers <=> kind = "filler")
Grown(s, t, kind) ==
  LET a == Len(s.image)
      b == Len(t.image)
  IN  /\ a <= b
      /\ \A x \in 1..a : t.image[x] = s.image[x]
      /\ \A x \in (a + 1)..b : Piece(s, t, a, x, kind)
      /\ \A x, y \in (a + 1)..b : x < y => t.image[x].offset < t.image[y].offset
      /\ t.offset = IF a = b THEN s.offset ELSE t.image[b].offset + t.image[b].size
      /\ t.sites = s.sites \cup Sited(t, a + 1)
Moved(s, t, n) ==
  /\ t.offset = s.offset + n
  /\ t.hubOrg = IF s.hub THEN s.hubOrg + n ELSE s.hubOrg
  /\ t.cogOrg = IF s.hub THEN s.cogOrg ELSE s.cogOrg + n
Same(s, t) == t.at = s.at /\ t.scope = s.scope /\ t.hub = s.hub /\ t.orghOffset = s.orghOffset /\ t.ditto = s.ditto /\ t.labels = s.labels
Put(s, t, n, kind) ==
  /\ IsState(t) /\ t.setting = s.setting /\ t.pass = s.pass
  /\ t.err = Fine => s.err = Fine /\ Same(s, t) /\ Moved(s, t, n) /\ Grown(s, t, kind)

(* The first error stays; a later one changes nothing.                     *)
LEMMA FailIs ==
  ASSUME NEW s, IsState(s), NEW e
  PROVE  Fail(s, e) = [s EXCEPT !.err = e] \/ Fail(s, e) = s
BY DEF Fail

(* A check that finds nothing wrong changes nothing, and one that does     *)
(* only sets the error.                                                    *)
LEMMA CheckIs ==
  ASSUME NEW s, IsState(s), NEW ok, NEW e, e # Fine
  PROVE  /\ IsState(Check(s, ok, e))
         /\ Check(s, ok, e).setting = s.setting /\ Check(s, ok, e).pass = s.pass
         /\ Check(s, ok, e).err = Fine => Check(s, ok, e) = s
<1>1. Check(s, ok, e) = s \/ (Check(s, ok, e) = [s EXCEPT !.err = e] /\ s.err = Fine)  \/ (Check(s, ok, e) = s)
  BY DEF Check, Fail
<1>2. PICK t : t = [s EXCEPT !.err = e]
  OBVIOUS
<1>3. IsState(t) /\ t.setting = s.setting /\ t.pass = s.pass /\ t.err = e
  BY <1>2 DEF IsState, Fields
<1> QED
  BY <1>1, <1>2, <1>3

(* A state that is left alone has written a run of 0 bytes.                *)
LEMMA Still ==
  ASSUME NEW s, IsState(s), NEW f \in {"code", "filler"}
  PROVE  Put(s, s, 0, f)
<1>1. PICK S : s.image \in Seq(S)
  BY DEF IsState
<1>2. Len(s.image) \in Nat
  BY <1>1
<1>3. Sited(s, Len(s.image) + 1) = {}
  BY <1>2 DEF Sited
<1>4. Grown(s, s, f)
  BY <1>2, <1>3 DEF Grown
<1>5. Moved(s, s, 0)
  BY DEF Moved, IsState
<1> QED
  BY <1>4, <1>5 DEF Put, Same

(* Two runs of pieces, one written behind the other, are one run.          *)
LEMMA Then ==
  ASSUME NEW s, NEW t, NEW u, NEW n \in Int, NEW m \in Int, NEW f \in {"code", "filler"}, IsState(s), Put(s, t, n, f), Put(t, u, m, f)
  PROVE  Put(s, u, n + m, f)
<1>1. IsState(u) /\ u.setting = s.setting /\ u.pass = s.pass /\ IsState(t)
  BY DEF Put
<1>2. SUFFICES ASSUME u.err = Fine
               PROVE  s.err = Fine /\ Same(s, u) /\ Moved(s, u, n + m) /\ Grown(s, u, f)
  BY <1>1 DEF Put
<1>3. t.err = Fine /\ Same(t, u) /\ Moved(t, u, m) /\ Grown(t, u, f)
  BY <1>2 DEF Put
<1>4. s.err = Fine /\ Same(s, t) /\ Moved(s, t, n) /\ Grown(s, t, f)
  BY <1>3 DEF Put
<1>5. Same(s, u)
  BY <1>3, <1>4 DEF Same
<1>6. Moved(s, u, n + m)
  BY <1>3, <1>4 DEF Moved, Same, IsState
<1>7. PICK a \in Nat, b \in Nat, c \in Nat : a = Len(s.image) /\ b = Len(t.image) /\ c = Len(u.image)
  BY <1>1 DEF IsState
<1>8. a <= b /\ b <= c
  BY <1>3, <1>4, <1>7 DEF Grown
<1>9. \A x \in 1..b : u.image[x] = t.image[x]
  BY <1>3, <1>7 DEF Grown
<1>10. \A x \in 1..a : u.image[x] = s.image[x]
  BY <1>4, <1>7, <1>8, <1>9 DEF Grown
<1>11. s.offset \in Int /\ t.offset \in Int /\ u.offset \in Int /\ s.hub \in BOOLEAN /\ Here(s) \in Int /\ Here(t) \in Int
  BY <1>1 DEF IsState, Here
<1>12. Here(t) - t.offset = Here(s) - s.offset
  BY <1>4 DEF Moved, Same, Here, IsState
<1>13. t.offset = IF a = b THEN s.offset ELSE t.image[b].offset + t.image[b].size
  BY <1>4, <1>7 DEF Grown
<1>14. u.offset = IF b = c THEN t.offset ELSE u.image[c].offset + u.image[c].size
  BY <1>3, <1>7 DEF Grown
<1>15. \A x \in (a + 1)..b : Piece(s, t, a, x, f)
  BY <1>4, <1>7 DEF Grown
<1>16. \A x \in (b + 1)..c : Piece(t, u, b, x, f)
  BY <1>3, <1>7 DEF Grown
<1>17. s.offset <= t.offset
  <2>1. CASE a = b
    BY <2>1, <1>13, <1>11
  <2>2. CASE a # b
    <3>1. Piece(s, t, a, b, f)
      BY <2>2, <1>8, <1>15
    <3> QED
      BY <3>1, <1>11 DEF Piece
  <2> QED
    BY <2>1, <2>2
<1>18. t.offset <= u.offset
  <2>1. CASE b = c
    BY <2>1, <1>14, <1>11
  <2>2. CASE b # c
    <3>1. Piece(t, u, b, c, f)
      BY <2>2, <1>8, <1>16
    <3> QED
      BY <3>1, <1>11 DEF Piece
  <2> QED
    BY <2>1, <2>2
<1>19. ASSUME NEW x \in (a + 1)..b PROVE Piece(s, u, a, x, f)
  <2>1. Piece(s, t, a, x, f) /\ u.image[x] = t.image[x] /\ (x # a + 1 => u.image[x - 1] = t.image[x - 1])
    BY <1>9, <1>15
  <2> QED
    BY <2>1, <1>11, <1>18 DEF Piece
<1>20. ASSUME NEW x \in (b + 1)..c PROVE Piece(s, u, a, x, f)
  <2>1. Piece(t, u, b, x, f)
    BY <1>16
  <2>2. x = b + 1 /\ a # b => u.image[x - 1].offset + u.image[x - 1].size = t.offset
    BY <1>9, <1>13, <1>8
  <2>3. x = b + 1 /\ a = b => x = a + 1 /\ t.offset = s.offset
    BY <1>13
  <2>4. t.at = s.at /\ t.scope = s.scope /\ t.hub = s.hub
    BY <1>4 DEF Same
  <2>5. u.image[x].offset = IF x = a + 1 THEN s.offset ELSE u.image[x - 1].offset + u.image[x - 1].size
    BY <2>1, <2>2, <2>3, <1>8 DEF Piece
  <2>6. s.offset <= u.image[x].offset /\ u.image[x].org = Here(s) + (u.image[x].offset - s.offset)
    BY <2>1, <1>11, <1>12, <1>17 DEF Piece
  <2> QED
    BY <2>1, <2>4, <2>5, <2>6 DEF Piece
<1>21. \A x \in (a + 1)..c : Piece(s, u, a, x, f)
  BY <1>19, <1>20, <1>8
<1>22. \A x, y \in (a + 1)..c : x < y => u.image[x].offset < u.image[y].offset
  <2> SUFFICES ASSUME NEW x \in (a + 1)..c, NEW y \in (a + 1)..c, x < y PROVE u.image[x].offset < u.image[y].offset
    OBVIOUS
  <2>1. CASE y <= b
    <3>1. t.image[x].offset < t.image[y].offset
      BY <2>1, <1>4, <1>7 DEF Grown
    <3> QED
      BY <3>1, <2>1, <1>9
  <2>2. CASE x <= b /\ b < y
    <3>1. Piece(s, t, a, x, f) /\ Piece(t, u, b, y, f) /\ u.image[x] = t.image[x]
      BY <2>2, <1>9, <1>15, <1>16
    <3> QED
      BY <3>1, <1>11 DEF Piece
  <2>3. CASE b < x
    <3>1. x \in (b + 1)..c /\ y \in (b + 1)..c
      BY <2>3
    <3> QED
      BY <3>1, <1>3, <1>7 DEF Grown
  <2> QED
    BY <2>1, <2>2, <2>3
<1>23. u.offset = IF a = c THEN s.offset ELSE u.image[c].offset + u.image[c].size
  BY <1>8, <1>9, <1>13, <1>14
<1>24. u.sites = s.sites \cup Sited(u, a + 1)
  <2>1. t.sites = s.sites \cup Sited(t, a + 1)
    BY <1>4, <1>7 DEF Grown
  <2>2. u.sites = t.sites \cup Sited(u, b + 1)
    BY <1>3, <1>7 DEF Grown
  <2> DEFINE Is(y) == u.image[y].what.op = "debug" /\ u.image[y].what.a > 0
  <2>3. Sited(t, a + 1) = {u.image[x].offset : x \in {y \in (a + 1)..b : Is(y)}}
    <3>1. \A x \in (a + 1)..b : u.image[x] = t.image[x]
      BY <1>9
    <3> QED
      BY <3>1, <1>7 DEF Sited
  <2>4. Sited(u, b + 1) = {u.image[x].offset : x \in {y \in (b + 1)..c : Is(y)}}
    BY <1>7 DEF Sited
  <2>5. Sited(u, a + 1) = {u.image[x].offset : x \in {y \in (a + 1)..c : Is(y)}}
    BY <1>7 DEF Sited
  <2>6. (a + 1)..c = ((a + 1)..b) \cup ((b + 1)..c)
    BY <1>8
  <2> HIDE DEF Is
  <2>7. Sited(u, a + 1) = Sited(t, a + 1) \cup Sited(u, b + 1)
    BY <2>3, <2>4, <2>5, <2>6
  <2> QED
    BY <2>1, <2>2, <2>7
<1>25. Grown(s, u, f)
  BY <1>7, <1>8, <1>10, <1>21, <1>22, <1>23, <1>24 DEF Grown
<1> QED
  BY <1>4, <1>5, <1>6, <1>25

(* What Append does to a sequence of any set.                              *)
LEMMA Appended ==
  ASSUME NEW S, NEW q \in Seq(S), NEW c
  PROVE  /\ Append(q, c) \in Seq(S \cup {c}) /\ Len(Append(q, c)) = Len(q) + 1 /\ Len(q) \in Nat
         /\ \A x \in 1..Len(q) : Append(q, c)[x] = q[x]
         /\ Append(q, c)[Len(q) + 1] = c
<1>1. q \in Seq(S \cup {c}) /\ c \in S \cup {c}
  OBVIOUS
<1> QED
  BY <1>1

Site(what, offset) == IF what.op = "debug" /\ what.a > 0 THEN {offset} ELSE {}
\* d is s, but for the site of what is to be entered
Ready(s, d, what) ==
  /\ DOMAIN d = Fields /\ \A x \in Fields \ {"sites"} : d[x] = s[x]
  /\ d.sites = s.sites \cup Site(what, s.offset)

(* enterData with something to write writes one piece, behind what there   *)
(* is.                                                                     *)
LEMMA EnterPiece ==
  ASSUME NEW s, IsState(s), NEW n \in Nat \ {0}, NEW what, NEW d, Ready(s, d, what),
         NEW f \in {"code", "filler"}, what.op \in Fillers <=> f = "filler"
  PROVE  Put(s, EnterData(d, what, n), n, f)
<1>0. /\ d.err = s.err /\ d.at = s.at /\ d.scope = s.scope /\ d.offset = s.offset /\ d.hub = s.hub /\ d.image = s.image
      /\ d.hubOrg = s.hubOrg /\ d.cogOrg = s.cogOrg /\ d.setting = s.setting /\ d.pass = s.pass /\ d.ditto = s.ditto
      /\ d.labels = s.labels /\ d.orghOffset = s.orghOffset /\ d.cogLimit = s.cogLimit /\ d.hubLimit = s.hubLimit /\ Here(d) = Here(s)
  BY DEF Ready, Fields, Here
<1>1. CASE s.err # Fine
  <2>1. EnterData(d, what, n) = d
    BY <1>0, <1>1 DEF EnterData
  <2>2. IsState(d)
    BY <1>0 DEF Ready, IsState
  <2> QED
    BY <1>0, <1>1, <2>1, <2>2 DEF Put
<1>2. CASE s.err = Fine
  <2>1. PICK S : s.image \in Seq(S)
    BY DEF IsState
  <2>2. PICK a \in Nat : a = Len(s.image)
    BY <2>1
  <2>3. PICK c : c = [line |-> s.at, scope |-> s.scope, what |-> what, size |-> n, offset |-> s.offset, org |-> Here(s), hub |-> s.hub]
    OBVIOUS
  <2>4. PICK q : q = Append(s.image, c)
    OBVIOUS
  <2>5. PICK b : b = [d EXCEPT !.offset = @ + n, !.image = q]
    OBVIOUS
  <2>6. PICK w : w = IF b.hub THEN [b EXCEPT !.hubOrg = @ + n] ELSE [b EXCEPT !.cogOrg = @ + n]
    OBVIOUS
  <2>7. EnterData(d, what, n) = Check(w, Here(w) <= IF w.hub THEN w.hubLimit ELSE w.cogLimit, "limit")
    <3>1. EnterData(d, what, n) = Advance(b, n)
      BY <1>0, <1>2, <2>3, <2>4, <2>5 DEF EnterData
    <3> QED
      BY <3>1, <2>6 DEF Advance
  <2>8. q \in Seq(S \cup {c}) /\ Len(q) = a + 1 /\ (\A x \in 1..a : q[x] = s.image[x]) /\ q[a + 1] = c
    BY <2>1, <2>2, <2>4, Appended
  <2>9. /\ DOMAIN w = Fields /\ w.image = q /\ w.offset = s.offset + n /\ Moved(s, w, n) /\ Same(s, w)
        /\ w.setting = s.setting /\ w.pass = s.pass /\ w.cogLimit = s.cogLimit /\ w.hubLimit = s.hubLimit /\ w.sites = d.sites
    BY <1>0, <2>5, <2>6 DEF Ready, Fields, Moved, Same, IsState
  <2>10. IsState(w)
    BY <2>8, <2>9 DEF IsState, Moved, Same
  <2>11. Put(s, w, n, f)
    <3>1. c.line = s.at /\ c.scope = s.scope /\ c.what = what /\ c.size = n /\ c.offset = s.offset /\ c.org = Here(s) /\ c.hub = s.hub
      BY <2>3
    <3>2. Here(s) \in Int /\ s.offset \in Int
      BY DEF Here, IsState
    <3>3. Piece(s, w, a, a + 1, f)
      BY <2>8, <2>9, <3>1, <3>2, <1>2 DEF Piece
    <3>4. Sited(w, a + 1) = Site(what, s.offset)
      <4>1. (a + 1)..Len(w.image) = {a + 1}
        BY <2>8, <2>9
      <4>2. w.image[a + 1].what = what /\ w.image[a + 1].offset = s.offset
        BY <2>8, <2>9, <3>1
      <4> QED
        BY <4>1, <4>2 DEF Sited, Site
    <3>5. w.sites = s.sites \cup Sited(w, a + 1)
      BY <2>9, <3>4 DEF Ready
    <3>6. Grown(s, w, f)
      BY <2>2, <2>8, <2>9, <3>1, <3>2, <3>3, <3>5 DEF Grown
    <3> QED
      BY <1>2, <2>9, <2>10, <3>6 DEF Put
  <2>12. PICK t : t = EnterData(d, what, n)
    OBVIOUS
  <2>13. IsState(t) /\ t.setting = w.setting /\ t.pass = w.pass /\ (t.err = Fine => t = w)
    BY <2>7, <2>10, <2>12, CheckIs DEF Fine
  <2>14. Put(s, t, n, f)
    BY <2>11, <2>13 DEF Put
  <2> QED
    BY <2>12, <2>14
<1> QED
  BY <1>1, <1>2

(* The same for any number of bytes, of which none are written if it is    *)
(* not positive.                                                           *)
LEMMA EnterDataPuts ==
  ASSUME NEW s, IsState(s), NEW n \in Int, NEW what, NEW f \in {"code", "filler"}, what.op # "debug", what.op \in Fillers <=> f = "filler",
         NEW m, m = IF n <= 0 THEN 0 ELSE n
  PROVE  Put(s, EnterData(s, what, n), m, f)
<1>1. CASE n <= 0
  <2>1. EnterData(s, what, n) = s
    BY <1>1 DEF EnterData
  <2> QED
    BY <1>1, <2>1, Still
<1>2. CASE n > 0
  <2>1. Ready(s, s, what)
    BY DEF Ready, Site, IsState
  <2>2. n \in Nat \ {0} /\ m = n
    BY <1>2
  <2> QED
    BY <2>1, <2>2, EnterPiece
<1> QED
  BY <1>1, <1>2

(* A check writes nothing.                                                 *)
LEMMA CheckPuts ==
  ASSUME NEW s, IsState(s), NEW ok, NEW e, e # Fine, NEW f \in {"code", "filler"}
  PROVE  Put(s, Check(s, ok, e), 0, f)
<1>1. PICK t : t = Check(s, ok, e)
  OBVIOUS
<1>2. IsState(t) /\ t.setting = s.setting /\ t.pass = s.pass /\ (t.err = Fine => t = s)
  BY <1>1, CheckIs
<1>3. Put(s, s, 0, f)
  BY Still
<1> QED
  BY <1>1, <1>2, <1>3 DEF Put

(* A piece of code of n bytes.                                             *)
LEMMA Entered ==
  ASSUME NEW s, IsState(s), NEW n \in Nat \ {0}, NEW what, what.op # "debug", what.op \notin Fillers
  PROVE  Put(s, EnterData(s, what, n), n, "code")
<1>1. n = IF n <= 0 THEN 0 ELSE n
  OBVIOUS
<1>2. what.op \in Fillers <=> "code" = "filler"
  OBVIOUS
<1> QED
  BY <1>1, <1>2, EnterDataPuts
-----------------------------------------------------------------------------
(* Operands.                                                               *)

Plain(op) == op # "debug" /\ op \notin Fillers
Pair(p) == DOMAIN p = {"s", "i"} /\ IsState(p.s) /\ "op" \in DOMAIN p.i /\ "a" \in DOMAIN p.i /\ Plain(p.i.op)
Keep(p, q, n) ==
  DOMAIN q = {"s", "i"} /\ DOMAIN q.i = DOMAIN p.i /\ q.i.op = p.i.op /\ Put(p.s, q.s, n, "code")

(* Two steps of an instruction, each of which writes only prefixes, are    *)
(* one such step.                                                          *)
LEMMA KeepThen ==
  ASSUME NEW p, NEW q, NEW r, NEW n \in Int, NEW m \in Int, Pair(p), Keep(p, q, n), Keep(q, r, m)
  PROVE  Keep(p, r, n + m)
BY Then DEF Keep, Pair

(* What is left after such a step is a pair that the next one can start    *)
(* from.                                                                   *)
LEMMA KeepPair ==
  ASSUME NEW p, NEW q, NEW n, Pair(p), Keep(p, q, n)
  PROVE  Pair(q)
BY DEF Keep, Pair, Put

(* Reading a value writes nothing (getValue).                              *)
LEMMA GotKeeps ==
  ASSUME NEW p, NEW o, Pair(p)
  PROVE  Keep(p, Got(p, o), 0)
<1>1. PICK t : t = GetValue(p.s, o.exp, Must(p.s))
  OBVIOUS
<1>2. Put(p.s, t, 0, "code")
  BY <1>1, CheckPuts DEF GetValue, Pair, Fine
<1>3. Got(p, o) = [p EXCEPT !.s = t]
  BY <1>1 DEF Got
<1> QED
  BY <1>2, <1>3 DEF Keep, Pair

(* A prefix takes four bytes (emitAugDS).                                  *)
LEMMA EmitAugKeeps ==
  ASSUME NEW p, NEW field, NEW v, Pair(p)
  PROVE  Keep(p, EmitAug(p, field, v), 4)
<1>1. PICK w : w = [op |-> "aug", field |-> field, cond |-> CondOfAug(p.i.cond), bits |-> v \div (2 ^ SBits)]
  OBVIOUS
<1>2. w.op # "debug" /\ w.op \notin Fillers
  BY <1>1 DEF Fillers
<1>3. PICK t : t = EnterData(p.s, w, 4)
  OBVIOUS
<1>4. Put(p.s, t, 4, "code")
  BY <1>2, <1>3, Entered DEF Pair
<1>5. EmitAug(p, field, v) = [p EXCEPT !.s = t]
  BY <1>1, <1>3 DEF EmitAug
<1> QED
  BY <1>4, <1>5 DEF Keep, Pair

(* A value that is read and checked writes nothing.                        *)
LEMMA CheckedKeeps ==
  ASSUME NEW p, Pair(p), NEW o, NEW ok, NEW e, e # Fine
  PROVE  Keep(p, [Got(p, o) EXCEPT !.s = Check(@, ok, e)], 0)
<1>1. PICK q : q = Got(p, o)
  OBVIOUS
<1>2. Keep(p, q, 0) /\ Pair(q)
  BY <1>1, GotKeeps, KeepPair
<1>3. PICK t : t = Check(q.s, ok, e)
  OBVIOUS
<1>4. Put(q.s, t, 0, "code")
  BY <1>2, <1>3, CheckPuts DEF Pair
<1>5. PICK r : r = [q EXCEPT !.s = t]
  OBVIOUS
<1>6. Keep(q, r, 0)
  BY <1>2, <1>4, <1>5 DEF Keep, Pair
<1>7. Keep(p, r, 0 + 0)
  BY <1>2, <1>6, KeepThen
<1> QED
  BY <1>1, <1>3, <1>5, <1>7

(* A register writes nothing before the instruction (tryValueReg).         *)
LEMMA ValueRegKeeps ==
  ASSUME NEW p, NEW o, Pair(p)
  PROVE  Keep(p, ValueReg(p, o), 0)
BY CheckedKeeps DEF ValueReg, Fine

(* Nor does a constant (tryValueCon).                                      *)
LEMMA ValueConKeeps ==
  ASSUME NEW p, NEW o, Pair(p)
  PROVE  Keep(p, ValueCon(p, o), 0)
BY CheckedKeeps DEF ValueCon, Fine

(* Nor an address (tryImmediateOrRelative).                                *)
LEMMA AddressKeeps ==
  ASSUME NEW p, NEW o, Pair(p)
  PROVE  Keep(p, AddressOk(p, o), 0)
BY CheckedKeeps DEF AddressOk, Fine

Prefix(o) == IF o.k = "aug" THEN 4 ELSE 0

(* An immediate writes its prefix if it is written with ##, whatever its   *)
(* value.                                                                  *)
LEMMA ImmediateKeeps ==
  ASSUME NEW p, NEW o, NEW field, Pair(p)
  PROVE  Keep(p, Immediate(p, o, field), Prefix(o))
<1>1. CASE o.k = "aug"
  <2>1. PICK q : q = Got(p, o)
    OBVIOUS
  <2>2. Keep(p, q, 0) /\ Pair(q)
    BY <2>1, GotKeeps, KeepPair
  <2>3. PICK v : v = Value(p.s, o.exp)
    OBVIOUS
  <2>4. PICK r : r = EmitAug(q, field, v)
    OBVIOUS
  <2>5. Keep(p, r, 0 + 4)
    BY <2>2, <2>4, EmitAugKeeps, KeepThen
  <2> QED
    BY <1>1, <2>1, <2>3, <2>4, <2>5 DEF Immediate, Prefix
<1>2. CASE o.k # "aug"
  BY <1>2, ValueConKeeps DEF Immediate, Prefix
<1> QED
  BY <1>1, <1>2

(* The D operand that is a register.                                       *)
LEMMA TryDKeeps ==
  ASSUME NEW p, NEW o, Pair(p)
  PROVE  Keep(p, TryD(p, o), 0)
<1>1. PICK q : q = ValueReg(p, o)
  OBVIOUS
<1>2. Keep(p, q, 0) /\ Pair(q)
  BY <1>1, ValueRegKeeps, KeepPair
<1>3. PICK v : v = Value(p.s, o.exp)
  OBVIOUS
<1>4. TryD(p, o) = [q EXCEPT !.i.d = v]
  BY <1>1, <1>3 DEF TryD
<1> QED
  BY <1>2, <1>4 DEF Keep, Pair

(* The D operand that may be an immediate.                                 *)
LEMMA TryDImmediateKeeps ==
  ASSUME NEW p, NEW o, Pair(p)
  PROVE  Keep(p, TryDImmediate(p, o), Prefix(o))
<1>1. CASE o.k = "reg"
  BY <1>1, TryDKeeps DEF TryDImmediate, Prefix
<1>2. CASE o.k # "reg"
  <2>1. PICK q : q = Immediate(p, o, "d")
    OBVIOUS
  <2>2. Keep(p, q, Prefix(o)) /\ Pair(q)
    BY <2>1, ImmediateKeeps, KeepPair
  <2>3. PICK v : v = Low(Value(p.s, o.exp))
    OBVIOUS
  <2>4. TryDImmediate(p, o) = [q EXCEPT !.i.d = v, !.i.dimm = TRUE]
    BY <1>2, <2>1, <2>3 DEF TryDImmediate
  <2> QED
    BY <2>2, <2>4 DEF Keep, Pair
<1> QED
  BY <1>1, <1>2

(* The S operand that is a register.                                       *)
LEMMA TrySKeeps ==
  ASSUME NEW p, NEW o, Pair(p)
  PROVE  Keep(p, TryS(p, o), 0)
<1>1. PICK q : q = ValueReg(p, o)
  OBVIOUS
<1>2. Keep(p, q, 0) /\ Pair(q)
  BY <1>1, ValueRegKeeps, KeepPair
<1>3. PICK v : v = Value(p.s, o.exp)
  OBVIOUS
<1>4. TryS(p, o) = [q EXCEPT !.i.s = v]
  BY <1>1, <1>3 DEF TryS
<1> QED
  BY <1>2, <1>4 DEF Keep, Pair

(* The S operand that may be an immediate.                                 *)
LEMMA TrySImmediateKeeps ==
  ASSUME NEW p, NEW o, Pair(p)
  PROVE  Keep(p, TrySImmediate(p, o), Prefix(o))
<1>1. CASE o.k = "reg"
  BY <1>1, TrySKeeps DEF TrySImmediate, Prefix
<1>2. CASE o.k # "reg"
  <2>1. PICK q : q = Immediate(p, o, "s")
    OBVIOUS
  <2>2. Keep(p, q, Prefix(o)) /\ Pair(q)
    BY <2>1, ImmediateKeeps, KeepPair
  <2>3. PICK v : v = Low(Value(p.s, o.exp))
    OBVIOUS
  <2>4. TrySImmediate(p, o) = [q EXCEPT !.i.s = v, !.i.simm = TRUE]
    BY <1>2, <2>1, <2>3 DEF TrySImmediate
  <2> QED
    BY <2>2, <2>4 DEF Keep, Pair
<1> QED
  BY <1>1, <1>2

(* The S operand that is a relative address.                               *)
LEMMA TrySRelKeeps ==
  ASSUME NEW p, NEW o, Pair(p)
  PROVE  Keep(p, TrySRel(p, o), Prefix(o))
<1>1. CASE o.k = "reg"
  BY <1>1, TrySKeeps DEF TrySRel, Prefix
<1>2. CASE o.k # "reg"
  <2> DEFINE v == Value(p.s, o.exp)
             cross == ~Must(p.s) \/ (p.s.hub <=> v >= HubBase)
             bytes == IF ~Must(p.s) THEN 0 ELSE IF o.k = "aug" THEN SpanOfFar(p.s, v) ELSE Span(p.s, v) - 4
  <2>1. PICK g : g = Got(p, o)
    OBVIOUS
  <2>2. Keep(p, g, 0) /\ Pair(g)
    BY <2>1, GotKeeps, KeepPair
  <2>3. PICK c : c = Check(g.s, cross, "crossing")
    OBVIOUS
  <2>4. Put(g.s, c, 0, "code") /\ IsState(c)
    BY <2>2, <2>3, CheckPuts DEF Pair, Fine, Put
  <2>5. PICK a : a = Check(c, bytes % 4 = 0, "unaligned")
    OBVIOUS
  <2>6. Put(c, a, 0, "code") /\ IsState(a)
    BY <2>4, <2>5, CheckPuts DEF Fine, Put
  <2>7. Put(p.s, a, 0, "code")
    <3>1. Put(p.s, c, 0 + 0, "code")
      BY <2>2, <2>4, Then DEF Keep, Pair
    <3>2. Put(p.s, c, 0, "code")
      BY <3>1
    <3>3. Put(p.s, a, 0 + 0, "code")
      BY <3>2, <2>6, Then DEF Pair
    <3> QED
      BY <3>3
  <2>8. PICK q : q = [p EXCEPT !.s = a, !.i.simm = TRUE, !.i.rel = TRUE]
    OBVIOUS
  <2>9. Keep(p, q, 0) /\ Pair(q)
    <3>1. Keep(p, q, 0)
      BY <2>7, <2>8 DEF Keep, Pair
    <3> QED
      BY <3>1, KeepPair
  <2> DEFINE far == (bytes \div 4) % (2 ^ (ABits - 2))
  <2>10. CASE o.k = "aug"
    <3>1. PICK e : e = EmitAug(q, "s", far)
      OBVIOUS
    <3>2. Keep(q, e, 4) /\ Pair(e)
      BY <2>9, <3>1, EmitAugKeeps, KeepPair
    <3>3. Keep(p, e, 0 + 4)
      BY <2>9, <3>2, KeepThen
    <3>4. PICK w : w = Low(far)
      OBVIOUS
    <3>5. TrySRel(p, o) = [e EXCEPT !.i.s = w]
      BY <1>2, <2>1, <2>3, <2>5, <2>8, <2>10, <3>1, <3>4 DEF TrySRel
    <3>6. Keep(p, TrySRel(p, o), 0 + 4)
      BY <3>2, <3>3, <3>5 DEF Keep, Pair
    <3> QED
      BY <3>6, <2>10 DEF Prefix
  <2>11. CASE o.k # "aug"
    <3>1. PICK e : e = Check(a, Signed(bytes \div 4, SBits), "range")
      OBVIOUS
    <3>2. Put(a, e, 0, "code")
      BY <2>6, <3>1, CheckPuts DEF Fine
    <3>3. PICK w : w = Low(bytes \div 4)
      OBVIOUS
    <3>4. TrySRel(p, o) = [q EXCEPT !.s = e, !.i.s = w]
      BY <1>2, <2>1, <2>3, <2>5, <2>8, <2>11, <3>1, <3>3 DEF TrySRel
    <3>5. q.s = a
      BY <2>8 DEF Pair
    <3>6. Keep(q, TrySRel(p, o), 0)
      BY <2>9, <3>2, <3>4, <3>5 DEF Keep, Pair
    <3>7. Keep(p, TrySRel(p, o), 0 + 0)
      BY <2>9, <3>6, KeepThen
    <3> QED
      BY <3>7, <2>11 DEF Prefix
  <2> QED
    BY <2>10, <2>11
<1> QED
  BY <1>1, <1>2

PrefixOfPtr(o) == IF o.k = "ptr" THEN IF o.index = "aug" THEN 4 ELSE 0 ELSE Prefix(o)

(* The S operand that may be a pointer, whose index has a prefix if it is  *)
(* written with ##.                                                        *)
LEMMA TryPtraPtrbKeeps ==
  ASSUME NEW p, NEW o, Pair(p), o.k = "ptr" => o.index \in {"none", "near", "aug"}
  PROVE  Keep(p, TryPtraPtrb(p, o), PrefixOfPtr(o))
<1>1. CASE o.k # "ptr"
  BY <1>1, TrySImmediateKeeps DEF TryPtraPtrb, PrefixOfPtr
<1>2. CASE o.k = "ptr" /\ o.index = "none"
  <2>1. \E w : TryPtraPtrb(p, o) = [p EXCEPT !.i.s = w, !.i.simm = TRUE]
    BY <1>2 DEF TryPtraPtrb
  <2>2. PICK w : TryPtraPtrb(p, o) = [p EXCEPT !.i.s = w, !.i.simm = TRUE]
    BY <2>1
  <2>3. Put(p.s, p.s, 0, "code")
    BY Still DEF Pair
  <2>4. Keep(p, TryPtraPtrb(p, o), 0)
    BY <2>2, <2>3 DEF Keep, Pair
  <2> QED
    BY <1>2, <2>4 DEF PrefixOfPtr
<1>3. CASE o.k = "ptr" /\ o.index = "near"
  <2>1. PICK g : g = Got(p, o)
    OBVIOUS
  <2>2. Keep(p, g, 0) /\ Pair(g)
    BY <2>1, GotKeeps, KeepPair
  <2>3. PICK ok : ok = IF o.inc = 0 THEN Value(p.s, o.exp) \in -32..31 ELSE Value(p.s, o.exp) \in 1..16
    OBVIOUS
  <2>4. PICK c : c = Check(g.s, IF o.inc = 0 THEN Value(p.s, o.exp) \in -32..31 ELSE Value(p.s, o.exp) \in 1..16, "range")
    OBVIOUS
  <2>5. Put(g.s, c, 0, "code")
    BY <2>2, <2>4, CheckPuts DEF Pair, Fine
  <2>6. PICK w : w = [ptr |-> o.ptr, update |-> o.update, n |-> PtrIndex(o, Value(p.s, o.exp))]
    OBVIOUS
  <2>7. TryPtraPtrb(p, o) = [p EXCEPT !.s = c, !.i.s = w, !.i.simm = TRUE]
    BY <1>3, <2>1, <2>4, <2>6 DEF TryPtraPtrb
  <2>8. Put(p.s, c, 0 + 0, "code")
    BY <2>2, <2>5, Then DEF Keep, Pair
  <2>9. Keep(p, TryPtraPtrb(p, o), 0 + 0)
    BY <2>7, <2>8 DEF Keep, Pair
  <2> QED
    BY <1>3, <2>9 DEF PrefixOfPtr
<1>4. CASE o.k = "ptr" /\ o.index = "aug"
  <2>1. PICK g : g = Got(p, o)
    OBVIOUS
  <2>2. Keep(p, g, 0) /\ Pair(g)
    BY <2>1, GotKeeps, KeepPair
  <2>3. PICK far : far = (IF o.inc = -1 THEN -Value(p.s, o.exp) ELSE Value(p.s, o.exp)) % (2 ^ ABits)
    OBVIOUS
  <2>4. PICK e : e = EmitAug(g, "s", far)
    OBVIOUS
  <2>5. Keep(g, e, 4) /\ Pair(e)
    BY <2>2, <2>4, EmitAugKeeps, KeepPair
  <2>6. Keep(p, e, 0 + 4)
    BY <2>2, <2>5, KeepThen
  <2>7. PICK w : w = [ptr |-> o.ptr, update |-> o.update, n |-> Low(far)]
    OBVIOUS
  <2>8. TryPtraPtrb(p, o) = [e EXCEPT !.i.s = w, !.i.simm = TRUE]
    BY <1>4, <2>1, <2>3, <2>4, <2>7 DEF TryPtraPtrb
  <2>9. Keep(p, TryPtraPtrb(p, o), 0 + 4)
    BY <2>5, <2>6, <2>8 DEF Keep, Pair
  <2> QED
    BY <1>4, <2>9 DEF PrefixOfPtr
<1> QED
  BY <1>1, <1>2, <1>3, <1>4

(* The count of lines that REP takes from a label.                         *)
LEMMA RepBlockKeeps ==
  ASSUME NEW p, NEW o, Pair(p)
  PROVE  Keep(p, RepBlock(p, o), 0)
<1>1. PICK n : n = RepCount(p.s, Value(p.s, o.exp))
  OBVIOUS
<1>2. CASE ~Must(p.s)
  <2>1. RepBlock(p, o) = p
    BY <1>2 DEF RepBlock
  <2> QED
    BY <2>1, Still DEF Keep, Pair
<1>3. CASE Must(p.s)
  <2>1. PICK c : c = Check(p.s, Span(p.s, Value(p.s, o.exp)) % 4 = 0, "unaligned")
    OBVIOUS
  <2>2. Put(p.s, c, 0, "code") /\ IsState(c)
    BY <2>1, CheckPuts DEF Pair, Fine, Put
  <2>3. PICK e : e = Check(c, n \in 0..RegMax, "range")
    OBVIOUS
  <2>4. Put(c, e, 0, "code")
    BY <2>2, <2>3, CheckPuts DEF Fine
  <2>5. Put(p.s, e, 0 + 0, "code")
    BY <2>2, <2>4, Then DEF Pair
  <2>6. RepBlock(p, o) = [p EXCEPT !.s = e, !.i.d = n, !.i.dimm = TRUE]
    BY <1>1, <1>3, <2>1, <2>3 DEF RepBlock, Pair
  <2>7. Keep(p, RepBlock(p, o), 0 + 0)
    BY <2>5, <2>6 DEF Keep, Pair
  <2> QED
    BY <2>7
<1> QED
  BY <1>2, <1>3

(* The two operands of REP.                                                *)
LEMMA RepKeeps ==
  ASSUME NEW p, NEW os, Pair(p)
  PROVE  Keep(p, Rep(p, os), Prefix(os[1]) + Prefix(os[2]))
<1>1. Prefix(os[1]) \in Int /\ Prefix(os[2]) \in Int
  BY DEF Prefix
<1>2. CASE os[1].k = "at"
  <2>1. PICK g : g = Got(p, os[1])
    OBVIOUS
  <2>2. Keep(p, g, 0) /\ Pair(g)
    BY <2>1, GotKeeps, KeepPair
  <2>3. PICK t : t = TrySImmediate(g, os[2])
    OBVIOUS
  <2>4. Keep(g, t, Prefix(os[2])) /\ Pair(t)
    BY <2>2, <2>3, TrySImmediateKeeps, KeepPair
  <2>5. Keep(p, t, 0 + Prefix(os[2]))
    BY <1>1, <2>2, <2>4, KeepThen
  <2>6. Keep(t, RepBlock(t, os[1]), 0)
    BY <2>4, RepBlockKeeps
  <2>7. Keep(p, RepBlock(t, os[1]), (0 + Prefix(os[2])) + 0)
    BY <1>1, <2>4, <2>5, <2>6, KeepThen
  <2>8. Rep(p, os) = RepBlock(t, os[1])
    BY <1>2, <2>1, <2>3 DEF Rep
  <2>9. (0 + Prefix(os[2])) + 0 = Prefix(os[1]) + Prefix(os[2])
    BY <1>1, <1>2 DEF Prefix
  <2> QED
    BY <2>7, <2>8, <2>9
<1>3. CASE os[1].k # "at"
  <2>1. PICK t : t = TryDImmediate(p, os[1])
    OBVIOUS
  <2>2. Keep(p, t, Prefix(os[1])) /\ Pair(t)
    BY <2>1, TryDImmediateKeeps, KeepPair
  <2>3. Keep(t, TrySImmediate(t, os[2]), Prefix(os[2]))
    BY <2>2, TrySImmediateKeeps
  <2>4. Keep(p, TrySImmediate(t, os[2]), Prefix(os[1]) + Prefix(os[2]))
    BY <1>1, <2>2, <2>3, KeepThen
  <2> QED
    BY <1>3, <2>1, <2>4 DEF Rep
<1> QED
  BY <1>2, <1>3

(* The address of a branch.                                                *)
LEMMA BranchKeeps ==
  ASSUME NEW p, NEW o, Pair(p)
  PROVE  Keep(p, Branch(p, o), 0)
<1>1. CASE o.k = "reg"
  <2>1. PICK q : q = TryD(p, o)
    OBVIOUS
  <2>2. Keep(p, q, 0) /\ Pair(q)
    BY <2>1, TryDKeeps, KeepPair
  <2>3. Branch(p, o) = [q EXCEPT !.i.allows = {"c", "z"}]
    BY <1>1, <2>1 DEF Branch
  <2> QED
    BY <2>2, <2>3 DEF Keep, Pair
<1>2. CASE o.k # "reg"
  <2>1. PICK q : q = AddressOk(p, o)
    OBVIOUS
  <2>2. Keep(p, q, 0) /\ Pair(q)
    BY <2>1, AddressKeeps, KeepPair
  <2>3. \E r, a : Branch(p, o) = [q EXCEPT !.i.rel = r, !.i.far = TRUE, !.i.a = a]
    BY <1>2, <2>1 DEF Branch
  <2>4. PICK r, a : Branch(p, o) = [q EXCEPT !.i.rel = r, !.i.far = TRUE, !.i.a = a]
    BY <2>3
  <2> QED
    BY <2>2, <2>4 DEF Keep, Pair
<1> QED
  BY <1>1, <1>2

(* CALLD and LOC check a register, then an address.                        *)
LEMMA RegisterAddressKeeps ==
  ASSUME NEW p, NEW d, NEW o, Pair(p)
  PROVE  Keep(p, AddressOk(ValueReg(p, d), o), 0)
<1>1. PICK q : q = ValueReg(p, d)
  OBVIOUS
<1>2. Keep(p, q, 0) /\ Pair(q)
  BY <1>1, ValueRegKeeps, KeepPair
<1>3. Keep(q, AddressOk(q, o), 0)
  BY <1>2, AddressKeeps
<1>4. Keep(p, AddressOk(q, o), 0 + 0)
  BY <1>2, <1>3, KeepThen
<1> QED
  BY <1>1, <1>4

(* The address of CALLD.                                                   *)
LEMMA CalldKeeps ==
  ASSUME NEW p, NEW d, NEW o, Pair(p)
  PROVE  Keep(p, Calld(p, d, o), 0)
<1>1. CASE o.k = "reg"
  <2>1. PICK q : q = TryD(p, d)
    OBVIOUS
  <2>2. Keep(p, q, 0) /\ Pair(q)
    BY <2>1, TryDKeeps, KeepPair
  <2>3. PICK r : r = TryS(q, o)
    OBVIOUS
  <2>4. Keep(q, r, 0) /\ Pair(r)
    BY <2>2, <2>3, TrySKeeps, KeepPair
  <2>5. Keep(p, r, 0 + 0)
    BY <2>2, <2>4, KeepThen
  <2>6. Calld(p, d, o) = [r EXCEPT !.i.allows = {"c", "z"}]
    BY <1>1, <2>1, <2>3 DEF Calld
  <2>7. Keep(p, Calld(p, d, o), 0 + 0)
    BY <2>4, <2>5, <2>6 DEF Keep, Pair
  <2> QED
    BY <2>7
<1>2. CASE o.k # "reg"
  <2>1. PICK q : q = AddressOk(ValueReg(p, d), o)
    OBVIOUS
  <2>2. Keep(p, q, 0) /\ Pair(q)
    BY <2>1, RegisterAddressKeeps, KeepPair
  <2>3. PICK c : c = Check(q.s, d.reg \in Pointers, "pointer")
    OBVIOUS
  <2>4. Put(q.s, c, 0, "code")
    BY <2>2, <2>3, CheckPuts DEF Pair, Fine
  <2>5. PICK pointed : pointed = [q EXCEPT !.s = c, !.i.far = TRUE, !.i.d = d.reg]
    OBVIOUS
  <2>6. Keep(q, pointed, 0) /\ Pair(pointed)
    <3>1. Keep(q, pointed, 0)
      BY <2>2, <2>4, <2>5 DEF Keep, Pair
    <3> QED
      BY <2>2, <3>1, KeepPair
  <2>7. Keep(p, pointed, 0)
    <3>1. Keep(p, pointed, 0 + 0)
      BY <2>2, <2>6, KeepThen
    <3> QED
      BY <3>1
  <2>8. \/ Calld(p, d, o) = q
        \/ \E v, w : Calld(p, d, o) = [q EXCEPT !.i.d = v, !.i.s = w, !.i.simm = TRUE, !.i.rel = TRUE, !.i.allows = {"c", "z"}]
        \/ \E w : Calld(p, d, o) = [pointed EXCEPT !.i.rel = TRUE, !.i.a = w]
        \/ \E w : Calld(p, d, o) = [pointed EXCEPT !.i.a = w]
    <3>1. pointed = [q EXCEPT !.s = Check(q.s, d.reg \in Pointers, "pointer"), !.i.far = TRUE, !.i.d = d.reg]
      BY <2>3, <2>5
    <3>2. CASE ~Must(p.s)
      <4>1. Calld(p, d, o) = q
        BY <1>2, <2>1, <3>2 DEF Calld
      <4> QED
        BY <4>1
    <3> DEFINE v == Value(p.s, o.exp)
               bytes == Span(p.s, v) - 4
               reaches == bytes % 4 = 0 /\ Signed(bytes \div 4, SBits)
               wide == IF p.s.hub THEN bytes ELSE bytes \div 4
    <3>3. CASE Must(p.s) /\ IsRelative(p.s, o, v) /\ reaches
      <4>1. Calld(p, d, o) = [q EXCEPT !.i.d = Value(p.s, d.exp), !.i.s = Low(bytes \div 4), !.i.simm = TRUE, !.i.rel = TRUE,
                                       !.i.allows = {"c", "z"}]
        BY <1>2, <2>1, <3>3 DEF Calld
      <4> QED
        BY <4>1
    <3>4. CASE Must(p.s) /\ IsRelative(p.s, o, v) /\ ~reaches
      <4>1. Calld(p, d, o) = [pointed EXCEPT !.i.rel = TRUE, !.i.a = wide % (2 ^ ABits)]
        BY <1>2, <2>1, <3>1, <3>4 DEF Calld
      <4> QED
        BY <4>1
    <3>5. CASE Must(p.s) /\ ~IsRelative(p.s, o, v)
      <4>1. Calld(p, d, o) = [pointed EXCEPT !.i.a = v]
        BY <1>2, <2>1, <3>1, <3>5 DEF Calld
      <4> QED
        BY <4>1
    <3> QED
      BY <3>2, <3>3, <3>4, <3>5
  <2>9. CASE Calld(p, d, o) = q
    BY <2>2, <2>9
  <2>10. ASSUME NEW v, NEW w, Calld(p, d, o) = [q EXCEPT !.i.d = v, !.i.s = w, !.i.simm = TRUE, !.i.rel = TRUE, !.i.allows = {"c", "z"}]
         PROVE  Keep(p, Calld(p, d, o), 0)
    <3>1. PICK j : j = [q.i EXCEPT !.d = v, !.s = w, !.simm = TRUE, !.rel = TRUE, !.allows = {"c", "z"}]
      OBVIOUS
    <3>2. DOMAIN j = DOMAIN q.i /\ j.op = q.i.op
      BY <2>2, <3>1 DEF Pair
    <3>3. Calld(p, d, o) = [q EXCEPT !.i = j]
      BY <2>2, <2>10, <3>1 DEF Pair
    <3> QED
      BY <2>2, <3>2, <3>3 DEF Keep, Pair
  <2>11. ASSUME NEW w, Calld(p, d, o) = [pointed EXCEPT !.i.rel = TRUE, !.i.a = w]
         PROVE  Keep(p, Calld(p, d, o), 0)
    BY <2>6, <2>7, <2>11 DEF Keep, Pair
  <2>12. ASSUME NEW w, Calld(p, d, o) = [pointed EXCEPT !.i.a = w]
         PROVE  Keep(p, Calld(p, d, o), 0)
    BY <2>6, <2>7, <2>12 DEF Keep, Pair
  <2> QED
    BY <2>8, <2>9, <2>10, <2>11, <2>12
<1> QED
  BY <1>1, <1>2

(* The address of LOC.                                                     *)
LEMMA LocKeeps ==
  ASSUME NEW p, NEW d, NEW o, Pair(p)
  PROVE  Keep(p, Loc(p, d, o), 0)
<1>1. PICK q : q = AddressOk(ValueReg(p, d), o)
  OBVIOUS
<1>2. Keep(p, q, 0) /\ Pair(q)
  BY <1>1, RegisterAddressKeeps, KeepPair
<1>3. PICK c : c = Check(q.s, ~Must(q.s) \/ d.reg \in Pointers, "pointer")
  OBVIOUS
<1>4. Put(q.s, c, 0, "code")
  BY <1>2, <1>3, CheckPuts DEF Pair, Fine
<1>5. \E r, a : Loc(p, d, o) = [q EXCEPT !.s = c, !.i.d = d.reg, !.i.far = TRUE, !.i.rel = r, !.i.a = a]
  BY <1>1, <1>2, <1>3 DEF Loc, Pair
<1>6. PICK r, a : Loc(p, d, o) = [q EXCEPT !.s = c, !.i.d = d.reg, !.i.far = TRUE, !.i.rel = r, !.i.a = a]
  BY <1>5
<1>7. Keep(q, Loc(p, d, o), 0)
  <2>1. PICK j : j = [q.i EXCEPT !.d = d.reg, !.far = TRUE, !.rel = r, !.a = a]
    OBVIOUS
  <2>2. DOMAIN j = DOMAIN q.i /\ j.op = q.i.op
    BY <1>2, <2>1 DEF Pair
  <2>3. Loc(p, d, o) = [q EXCEPT !.s = c, !.i = j]
    BY <1>2, <1>6, <2>1 DEF Pair
  <2> QED
    BY <1>2, <1>4, <2>2, <2>3 DEF Keep, Pair
<1>8. Keep(p, Loc(p, d, o), 0 + 0)
  BY <1>2, <1>7, KeepThen
<1> QED
  BY <1>8

SlotNames == {"D", "L", "S", "R", "P", "B", "N", "A"}
SlotPrefix(slot, o) == IF slot = "P" THEN PrefixOfPtr(o) ELSE IF slot \in {"L", "S", "R"} THEN Prefix(o) ELSE 0

(* The operand of any class: how many bytes of prefixes it writes follows  *)
(* from how it is written, and from nothing that a pass finds out.         *)
LEMMA OperandKeeps ==
  ASSUME NEW p, NEW o, NEW slot \in SlotNames, Pair(p), o.k = "ptr" => o.index \in {"none", "near", "aug"}
  PROVE  Keep(p, Operand(slot, p, o), SlotPrefix(slot, o))
<1>1. CASE slot = "D"
  BY <1>1, TryDKeeps DEF Operand, SlotPrefix
<1>2. CASE slot = "L"
  BY <1>2, TryDImmediateKeeps DEF Operand, SlotPrefix
<1>3. CASE slot = "S"
  BY <1>3, TrySImmediateKeeps DEF Operand, SlotPrefix
<1>4. CASE slot = "R"
  BY <1>4, TrySRelKeeps DEF Operand, SlotPrefix
<1>5. CASE slot = "P"
  BY <1>5, TryPtraPtrbKeeps DEF Operand, SlotPrefix
<1>6. CASE slot = "B"
  BY <1>6, BranchKeeps DEF Operand, SlotPrefix
<1>7. CASE slot = "N"
  <2>1. PICK g : g = Got(p, o)
    OBVIOUS
  <2>2. Keep(p, g, 0) /\ Pair(g)
    BY <2>1, GotKeeps, KeepPair
  <2>3. PICK v : v = Value(p.s, o.exp)
    OBVIOUS
  <2>4. PICK c : c = Check(g.s, v \in 0..p.i.most, "selector")
    OBVIOUS
  <2>5. Put(g.s, c, 0, "code")
    BY <2>2, <2>4, CheckPuts DEF Pair, Fine
  <2>6. Operand(slot, p, o) = [g EXCEPT !.s = c, !.i.n = v]
    BY <1>7, <2>1, <2>2, <2>3, <2>4 DEF Operand, Pair
  <2>7. Keep(g, Operand(slot, p, o), 0)
    BY <2>2, <2>5, <2>6 DEF Keep, Pair
  <2>8. Keep(p, Operand(slot, p, o), 0 + 0)
    BY <2>2, <2>7, KeepThen
  <2> QED
    BY <1>7, <2>8 DEF SlotPrefix
<1>8. CASE slot = "A"
  <2>1. PICK g : g = Got(p, o)
    OBVIOUS
  <2>2. Keep(p, g, 0) /\ Pair(g)
    BY <2>1, GotKeeps, KeepPair
  <2>3. PICK v : v = Value(p.s, o.exp) \div (2 ^ SBits)
    OBVIOUS
  <2>4. Operand(slot, p, o) = [g EXCEPT !.i.a = v]
    BY <1>8, <2>1, <2>3 DEF Operand
  <2>5. Keep(p, Operand(slot, p, o), 0)
    BY <2>2, <2>4 DEF Keep, Pair
  <2> QED
    BY <1>8, <2>5 DEF SlotPrefix
<1> QED
  BY <1>1, <1>2, <1>3, <1>4, <1>5, <1>6, <1>7, <1>8 DEF SlotNames

-----------------------------------------------------------------------------
(* Numbers up to n.                                                        *)

(* A set of naturals that is not empty has a least member.                 *)
LEMMA Least ==
  ASSUME NEW T \in SUBSET Nat, T # {}
  PROVE  \E n \in T : \A m \in T : n <= m
<1>1. PICK n \in T : \A m \in T : <<m, n>> \notin OpToRel(<, Nat)
  BY NatLessThanWellFounded, WFMin
<1>2. \A m \in T : m \in Nat /\ n \in Nat /\ ~(m < n)
  BY <1>1 DEF OpToRel
<1>3. \A m \in T : n <= m
  BY <1>2, SMT
<1> QED
  BY <1>3

(* A set of numbers that has 0, and with each number the next, has all.    *)
LEMMA UpTo ==
  ASSUME NEW n \in Nat, NEW G, 0 \in G, \A k \in 1..n : k - 1 \in G => k \in G
  PROVE  \A k \in 0..n : k \in G
<1> DEFINE T == {k \in 0..n : k \notin G}
<1>1. SUFFICES ASSUME T # {} PROVE FALSE
  OBVIOUS
<1>2. T \in SUBSET Nat
  OBVIOUS
<1>3. PICK k \in T : \A m \in T : k <= m
  BY <1>1, <1>2, Least
<1>4. k \in 1..n /\ k - 1 \in 0..n /\ ~(k <= k - 1)
  BY <1>3
<1>5. k - 1 \in G
  BY <1>3, <1>4
<1> QED
  BY <1>3, <1>4, <1>5

\* the operands one after the other
Taken(p, slots, ops, n, r) == r[0] = p /\ \A x \in 1..n : r[x] = Operand(slots[x], r[x - 1], ops[x])
TakenUpTo(p, slots, ops, n, r) == r = [x \in 0..n |-> IF x = 0 THEN p ELSE Operand(slots[x], r[x - 1], ops[x])]

(* The pairs that an instruction goes through while it takes its           *)
(* operands.                                                               *)
LEMMA TakenExists ==
  ASSUME NEW p, NEW slots, NEW ops, NEW n \in Nat
  PROVE  \E r : TakenUpTo(p, slots, ops, n, r)
<1> DEFINE G == {k \in 0..n : \E r : TakenUpTo(p, slots, ops, k, r)}
<1>1. 0 \in G
  <2>1. PICK r : r = [x \in 0..0 |-> p]
    OBVIOUS
  <2>2. \A x \in 0..0 : x = 0
    OBVIOUS
  <2>3. TakenUpTo(p, slots, ops, 0, r)
    BY <2>1, <2>2 DEF TakenUpTo
  <2>4. \E t : TakenUpTo(p, slots, ops, 0, t)
    BY <2>3
  <2> QED
    BY <2>4
<1>2. ASSUME NEW k \in 1..n, k - 1 \in G PROVE k \in G
  <2>1. PICK r : TakenUpTo(p, slots, ops, k - 1, r)
    BY <1>2
  <2>2. PICK t : t = [x \in 0..k |-> IF x = k THEN Operand(slots[k], r[k - 1], ops[k]) ELSE r[x]]
    OBVIOUS
  <2>3. ASSUME NEW x \in 0..k PROVE t[x] = IF x = 0 THEN p ELSE Operand(slots[x], t[x - 1], ops[x])
    <3>1. CASE x = 0
      <4>1. 0 \in 0..k /\ 0 # k /\ 0 \in 0..(k - 1)
        OBVIOUS
      <4>2. t[0] = r[0] /\ r[0] = p
        BY <2>1, <2>2, <4>1 DEF TakenUpTo
      <4> QED
        BY <3>1, <4>2
    <3>2. CASE x = k
      <4>1. k - 1 \in 0..k /\ k - 1 # k /\ k # 0
        OBVIOUS
      <4>2. t[k - 1] = r[k - 1]
        BY <2>2, <4>1
      <4> QED
        BY <2>2, <3>2, <4>1, <4>2
    <3>3. CASE x # 0 /\ x # k
      <4>1. x - 1 \in 0..k /\ x - 1 # k /\ x \in 0..(k - 1)
        BY <3>3
      <4>2. t[x - 1] = r[x - 1] /\ t[x] = r[x]
        BY <2>2, <3>3, <4>1
      <4>3. r[x] = Operand(slots[x], r[x - 1], ops[x])
        BY <2>1, <3>3, <4>1 DEF TakenUpTo
      <4> QED
        BY <3>3, <4>2, <4>3
    <3> QED
      BY <3>1, <3>2, <3>3
  <2>4. TakenUpTo(p, slots, ops, k, t)
    BY <2>2, <2>3 DEF TakenUpTo
  <2>5. \E u : TakenUpTo(p, slots, ops, k, u)
    BY <2>4
  <2> QED
    BY <2>5
<1> HIDE DEF G
<1>3. n \in G
  BY <1>1, <1>2, UpTo
<1> QED
  BY <1>3 DEF G

(* The operands of an instruction write the same number of bytes in        *)
(* whatever state they are taken.                                          *)
LEMMA TakenKeeps ==
  ASSUME NEW slots, NEW ops, NEW n \in Nat,
         \A x \in 1..n : slots[x] \in SlotNames /\ (ops[x].k = "ptr" => ops[x].index \in {"none", "near", "aug"})
  PROVE  \E m \in Int : \A p, r : Pair(p) /\ Taken(p, slots, ops, n, r) => Keep(p, r[n], m)
<1> DEFINE G == {k \in 0..n : \E m \in Int : \A p, r : Pair(p) /\ Taken(p, slots, ops, k, r) => Keep(p, r[k], m)}
<1>1. 0 \in G
  <2>1. ASSUME NEW p, NEW r, Pair(p), Taken(p, slots, ops, 0, r) PROVE Keep(p, r[0], 0)
    BY <2>1, Still DEF Taken, Keep, Pair
  <2>2. \E m \in Int : \A p, r : Pair(p) /\ Taken(p, slots, ops, 0, r) => Keep(p, r[0], m)
    BY <2>1
  <2> QED
    BY <2>2
<1>2. ASSUME NEW k \in 1..n, k - 1 \in G PROVE k \in G
  <2>1. PICK m \in Int : \A p, r : Pair(p) /\ Taken(p, slots, ops, k - 1, r) => Keep(p, r[k - 1], m)
    BY <1>2
  <2>2. PICK w \in Int : w = SlotPrefix(slots[k], ops[k])
    BY DEF SlotPrefix, Prefix, PrefixOfPtr
  <2>3. ASSUME NEW p, NEW r, Pair(p), Taken(p, slots, ops, k, r) PROVE Keep(p, r[k], m + w)
    <3>1. Taken(p, slots, ops, k - 1, r) /\ r[k] = Operand(slots[k], r[k - 1], ops[k])
      BY <2>3 DEF Taken
    <3>2. Keep(p, r[k - 1], m) /\ Pair(r[k - 1])
      BY <2>1, <2>3, <3>1, KeepPair
    <3>3. Keep(r[k - 1], r[k], w)
      BY <2>2, <3>1, <3>2, OperandKeeps
    <3> QED
      BY <2>3, <3>2, <3>3, KeepThen
  <2>4. m + w \in Int
    OBVIOUS
  <2>5. \E v \in Int : \A p, r : Pair(p) /\ Taken(p, slots, ops, k, r) => Keep(p, r[k], v)
    BY <2>3, <2>4
  <2> QED
    BY <2>5
<1>3. n \in G
  <2> HIDE DEF G
  <2> QED
    BY <1>1, <1>2, UpTo
<1> QED
  BY <1>3

\* the slots of a line and how many of them it fills
SlotsOf(line) == IF line.class = "sel" /\ Len(line.ops) = 1 THEN <<"S">> ELSE Slots(line.class)
FilledOf(line) == IF Len(line.ops) < Len(SlotsOf(line)) THEN Len(line.ops) ELSE Len(SlotsOf(line))

(* The operands that the classes have are operands that there are.         *)
LEMMA SlotsAre ==
  ASSUME NEW line
  PROVE  Len(SlotsOf(line)) \in Nat /\ \A x \in 1..Len(SlotsOf(line)) : SlotsOf(line)[x] \in SlotNames
<1> DEFINE Right(q) == Len(q) \in Nat /\ \A x \in 1..Len(q) : q[x] \in SlotNames
<1>1. Right(<<>>)
  OBVIOUS
<1>2. ASSUME NEW c \in SlotNames PROVE Right(<<c>>)
  OBVIOUS
<1>3. ASSUME NEW c \in SlotNames, NEW d \in SlotNames PROVE Right(<<c, d>>)
  OBVIOUS
<1>4. ASSUME NEW c \in SlotNames, NEW d \in SlotNames, NEW e \in SlotNames PROVE Right(<<c, d, e>>)
  OBVIOUS
<1>5. \/ SlotsOf(line) = <<>> \/ \E c \in SlotNames : SlotsOf(line) = <<c>>
      \/ (\E c, d \in SlotNames : SlotsOf(line) = <<c, d>>) \/ (\E c, d, e \in SlotNames : SlotsOf(line) = <<c, d, e>>)
  <2>1. "D" \in SlotNames /\ "L" \in SlotNames /\ "S" \in SlotNames /\ "R" \in SlotNames
    BY DEF SlotNames
  <2>2. "P" \in SlotNames /\ "B" \in SlotNames /\ "N" \in SlotNames /\ "A" \in SlotNames
    BY DEF SlotNames
  <2> QED
    BY <2>1, <2>2 DEF SlotsOf, Slots
<1> HIDE DEF Right
<1>6. Right(SlotsOf(line))
  BY <1>1, <1>2, <1>3, <1>4, <1>5
<1> QED
  BY <1>6 DEF Right

(* The operands of a line write the same number of bytes in whatever       *)
(* state it is assembled.                                                  *)
LEMMA OperandsKeep ==
  ASSUME NEW line \in Lines
  PROVE  \E m \in Int : \A p : Pair(p) => Keep(p, Operands(p, line), m)
<1>1. PICK slots : slots = SlotsOf(line)
  OBVIOUS
<1>a. Len(slots) \in Nat /\ \A x \in 1..Len(slots) : slots[x] \in SlotNames
  BY <1>1, SlotsAre
<1>2. line.ops \in Seq(Opds)
  BY DEF Lines
<1>3. PICK n \in Nat : n = FilledOf(line)
  BY <1>1, <1>a, <1>2 DEF FilledOf
<1>4. n <= Len(slots) /\ n <= Len(line.ops)
  BY <1>1, <1>a, <1>2, <1>3 DEF FilledOf
<1>5. ASSUME NEW x \in 1..n
      PROVE  slots[x] \in SlotNames /\ (line.ops[x].k = "ptr" => line.ops[x].index \in {"none", "near", "aug"})
  <2>1. x \in 1..Len(slots) /\ x \in 1..Len(line.ops)
    BY <1>a, <1>2, <1>4
  <2>2. slots[x] \in SlotNames /\ line.ops[x] \in Opds
    BY <1>a, <1>2, <2>1
  <2> QED
    BY <2>2 DEF Opds
<1>6. PICK m \in Int : \A p, r : Pair(p) /\ Taken(p, slots, line.ops, n, r) => Keep(p, r[n], m)
  BY <1>5, TakenKeeps
<1>7. ASSUME NEW p, Pair(p) PROVE Keep(p, Operands(p, line), m)
  <2>1. PICK r : r = CHOOSE q : TakenUpTo(p, slots, line.ops, n, q)
    OBVIOUS
  <2>2. TakenUpTo(p, slots, line.ops, n, r)
    BY <2>1, TakenExists
  <2>3. ASSUME NEW x \in 0..n PROVE r[x] = IF x = 0 THEN p ELSE Operand(slots[x], r[x - 1], line.ops[x])
    BY <2>2 DEF TakenUpTo
  <2>4. Taken(p, slots, line.ops, n, r)
    <3>1. r[0] = p
      BY <2>3
    <3>2. ASSUME NEW x \in 1..n PROVE r[x] = Operand(slots[x], r[x - 1], line.ops[x])
      BY <2>3
    <3> QED
      BY <3>1, <3>2 DEF Taken
  <2>5. Keep(p, r[n], m) /\ Pair(r[n])
    BY <1>6, <1>7, <2>4, KeepPair
  <2>6. Operands(p, line) = IF n < Len(slots) THEN [r[n] EXCEPT !.i = Defaulted(line.class, @)] ELSE r[n]
    BY <1>1, <1>3, <2>1 DEF Operands, TakenUpTo, SlotsOf, FilledOf
  <2>7. CASE n < Len(slots)
    <3>1. PICK j : j = Defaulted(line.class, r[n].i)
      OBVIOUS
    <3>2. Operands(p, line) = [r[n] EXCEPT !.i = j]
      BY <2>5, <2>6, <2>7, <3>1 DEF Pair
    <3>3. DOMAIN j = DOMAIN r[n].i /\ j.op = r[n].i.op
      BY <2>5, <3>1 DEF Defaulted, Pair
    <3> QED
      BY <2>5, <3>2, <3>3 DEF Keep, Pair
  <2>8. CASE ~(n < Len(slots))
    BY <2>5, <2>6, <2>8
  <2> QED
    BY <2>7, <2>8
<1> QED
  BY <1>7

(* The instruction itself is one piece of four bytes, under the prefixes.  *)
LEMMA AssembledPuts ==
  ASSUME NEW p, NEW line, Pair(p)
  PROVE  Put(p.s, Assembled(p, line), 4, "code")
<1>1. PICK s : s = Check(p.s, EffectAllowed(line.eff, p.i.allows), "effect")
  OBVIOUS
<1>2. Put(p.s, s, 0, "code") /\ IsState(s)
  BY <1>1, CheckPuts DEF Pair, Fine, Put
<1>3. Put(s, EnterData(s, p.i, 4), 4, "code")
  BY <1>2, Entered DEF Pair, Plain
<1>4. Put(p.s, EnterData(s, p.i, 4), 0 + 4, "code")
  BY <1>2, <1>3, Then DEF Pair
<1> QED
  BY <1>1, <1>4 DEF Assembled

(* Prefixes and an instruction behind them are one run.                    *)
LEMMA KeptPuts ==
  ASSUME NEW p, NEW q, NEW line, NEW n \in Int, Pair(p), Keep(p, q, n)
  PROVE  Put(p.s, Assembled(q, line), n + 4, "code")
<1>1. Pair(q)
  BY KeepPair
<1>2. Put(q.s, Assembled(q, line), 4, "code")
  BY <1>1, AssembledPuts
<1> QED
  BY <1>2, Then DEF Keep, Pair

(* A long of the sequence that ASMCLK stands for.                          *)
LEMMA LongKeeps ==
  ASSUME NEW p, NEW cond, NEW op \in {"hubset", "waitx"}, Pair(p)
  PROVE  Keep(p, Long(p, cond, op), 4) /\ Pair(Long(p, cond, op))
<1>1. PICK w : w = [op |-> op, cond |-> cond]
  OBVIOUS
<1>2. w.op # "debug" /\ w.op \notin Fillers
  BY <1>1 DEF Fillers
<1>3. PICK t : t = EnterData(p.s, w, 4)
  OBVIOUS
<1>4. Put(p.s, t, 4, "code")
  BY <1>2, <1>3, Entered DEF Pair
<1>5. Long(p, cond, op) = [p EXCEPT !.s = t]
  BY <1>1, <1>3 DEF Long, Pair
<1>6. Keep(p, Long(p, cond, op), 4)
  BY <1>4, <1>5 DEF Keep, Pair
<1> QED
  BY <1>6, KeepPair

(* A condition of its own for the instruction that follows.                *)
LEMMA UnderKeeps ==
  ASSUME NEW p, NEW cond, Pair(p)
  PROVE  Keep(p, Under(p, cond), 0) /\ Pair(Under(p, cond))
<1>1. Keep(p, Under(p, cond), 0)
  BY Still DEF Keep, Pair, Under
<1> QED
  BY <1>1, KeepPair

(* ASMCLK takes five longs, or none, by the clock setting.                 *)
LEMMA AsmclkKeeps ==
  ASSUME NEW p, Pair(p)
  PROVE  Keep(p, Asmclk(p), IF p.s.setting.clk = 0 THEN 0 ELSE 20)
<1>1. CASE p.s.setting.clk = 0
  <2>1. Asmclk(p) = p
    BY <1>1 DEF Asmclk
  <2> QED
    BY <1>1, <2>1, Still DEF Keep, Pair
<1>2. CASE p.s.setting.clk # 0
  <2>1. PICK cond : cond = CondOfAug(p.i.cond)
    OBVIOUS
  <2>2. PICK a : a = Under(p, cond)
    OBVIOUS
  <2>3. Keep(p, a, 0) /\ Pair(a)
    BY <2>2, UnderKeeps
  <2>4. PICK b : b = EmitAug(a, "d", p.s.setting.clk)
    OBVIOUS
  <2>5. Keep(a, b, 4) /\ Pair(b)
    BY <2>3, <2>4, EmitAugKeeps, KeepPair
  <2>6. PICK c : c = Long(b, cond, "hubset")
    OBVIOUS
  <2>7. Keep(b, c, 4) /\ Pair(c)
    BY <2>5, <2>6, LongKeeps
  <2>8. PICK d : d = EmitAug(c, "d", 200000)
    OBVIOUS
  <2>9. Keep(c, d, 4) /\ Pair(d)
    BY <2>7, <2>8, EmitAugKeeps, KeepPair
  <2>10. PICK e : e = Long(d, cond, "waitx")
    OBVIOUS
  <2>11. Keep(d, e, 4) /\ Pair(e)
    BY <2>9, <2>10, LongKeeps
  <2>12. PICK f : f = Under(e, p.i.cond)
    OBVIOUS
  <2>13. Keep(e, f, 0) /\ Pair(f)
    BY <2>11, <2>12, UnderKeeps
  <2>14. PICK g : g = EmitAug(f, "d", p.s.setting.clk)
    OBVIOUS
  <2>15. Keep(f, g, 4)
    BY <2>13, <2>14, EmitAugKeeps
  <2>16. Asmclk(p) = g
    BY <1>2, <2>1, <2>2, <2>4, <2>6, <2>8, <2>10, <2>12, <2>14 DEF Asmclk
  <2>17. Keep(p, b, 0 + 4)
    BY <2>3, <2>5, KeepThen
  <2>18. Keep(p, c, (0 + 4) + 4)
    BY <2>5, <2>7, <2>17, KeepThen
  <2>19. Keep(p, d, ((0 + 4) + 4) + 4)
    BY <2>7, <2>9, <2>18, KeepThen
  <2>20. Keep(p, e, (((0 + 4) + 4) + 4) + 4)
    BY <2>9, <2>11, <2>19, KeepThen
  <2>21. Keep(p, f, ((((0 + 4) + 4) + 4) + 4) + 0)
    BY <2>11, <2>13, <2>20, KeepThen
  <2>22. Keep(p, g, (((((0 + 4) + 4) + 4) + 4) + 0) + 4)
    BY <2>13, <2>15, <2>21, KeepThen
  <2> QED
    BY <1>2, <2>16, <2>22
<1> QED
  BY <1>1, <1>2

(* DEBUG takes a break, a jump around it too if it is conditional, and     *)
(* nothing if it is off.                                                   *)
LEMMA DebugPuts ==
  ASSUME NEW s, NEW p, NEW line \in Lines, Pair(p), p.s = s
  PROVE  Put(s, Debug(s, p, line), IF line.on THEN IF DebugSkip(p) THEN 8 ELSE 4 ELSE 0, "code")
<1>0. IsState(s)
  BY DEF Pair
<1>1. CASE ~line.on
  <2>1. Debug(s, p, line) = s
    BY <1>1 DEF Debug
  <2> QED
    BY <1>0, <1>1, <2>1, Still
<1>2. CASE line.on
  <2>1. PICK n \in {0, 4} : n = IF DebugSkip(p) THEN 4 ELSE 0
    OBVIOUS
  <2>2. PICK k : k = IF DebugSkip(p) THEN EnterData(p.s, [op |-> "skip", cond |-> p.i.cond], 4) ELSE p.s
    OBVIOUS
  <2>3. Put(s, k, n, "code") /\ IsState(k)
    <3>1. CASE DebugSkip(p)
      <4>1. PICK w : w = [op |-> "skip", cond |-> p.i.cond]
        OBVIOUS
      <4>2. w.op # "debug" /\ w.op \notin Fillers
        BY <4>1 DEF Fillers
      <4>3. k = EnterData(s, w, 4)
        BY <2>2, <3>1, <4>1
      <4> QED
        BY <1>0, <2>1, <3>1, <4>2, <4>3, Entered DEF Put
    <3>2. CASE ~DebugSkip(p)
      <4>1. k = s /\ n = 0
        BY <2>1, <2>2, <3>2
      <4> QED
        BY <1>0, <4>1, Still
    <3> QED
      BY <3>1, <3>2
  <2>4. PICK brk : brk = [p.i EXCEPT !.op = "debug", !.cond = IF DebugSkip(p) THEN "always" ELSE @, !.a = IF Must(s) THEN line.code ELSE 0]
    OBVIOUS
  <2>5. PICK d : d = IF Must(s) /\ line.code > 0 THEN [k EXCEPT !.sites = @ \cup {k.offset}] ELSE k
    OBVIOUS
  <2>6. Debug(s, p, line) = EnterData(d, brk, 4)
    BY <1>2, <2>2, <2>4, <2>5 DEF Debug
  <2>7. brk.op = "debug" /\ brk.a = (IF Must(s) THEN line.code ELSE 0) /\ line.code \in Nat
    BY <2>4 DEF Pair, Lines
  <2>8. Ready(k, d, brk)
    <3>1. Site(brk, k.offset) = IF Must(s) /\ line.code > 0 THEN {k.offset} ELSE {}
      BY <2>7 DEF Site
    <3> QED
      BY <2>3, <2>5, <3>1 DEF Ready, IsState, Fields
  <2>9. Put(k, EnterData(d, brk, 4), 4, "code")
    BY <2>3, <2>7, <2>8, EnterPiece DEF Fillers
  <2>10. Put(s, EnterData(d, brk, 4), n + 4, "code")
    BY <1>0, <2>3, <2>9, Then
  <2> QED
    BY <1>2, <2>1, <2>6, <2>10
<1> QED
  BY <1>1, <1>2

\* an instruction before its operands are read
BlankOf(line) ==
  [op |-> line.op, cond |-> line.cond, d |-> "none", s |-> "none", dimm |-> FALSE, simm |-> FALSE,
   rel |-> FALSE, far |-> FALSE, a |-> 0, n |-> 0, most |-> line.most, allows |-> line.allows]
PairOf(s, line) == [s |-> s, i |-> BlankOf(line)]

(* Every instruction starts from a word without operands.                  *)
LEMMA BlankIs ==
  ASSUME NEW line \in Lines, NEW s, IsState(s)
  PROVE  Pair(PairOf(s, line)) /\ PairOf(s, line).s = s /\ PairOf(s, line).i = BlankOf(line)
         /\ BlankOf(line).cond = line.cond /\ Plain(BlankOf(line).op)
<1>1. line.op # "debug" /\ line.op \notin Fillers
  BY DEF Lines
<1>2. PICK b : b = BlankOf(line)
  OBVIOUS
<1>3. "op" \in DOMAIN b /\ "a" \in DOMAIN b /\ b.op = line.op /\ b.cond = line.cond
  BY <1>2 DEF BlankOf
<1>4. PairOf(s, line) = [s |-> s, i |-> b]
  BY <1>2 DEF PairOf
<1> QED
  BY <1>1, <1>2, <1>3, <1>4 DEF Pair, Plain

(* An instruction takes the same number of bytes in whatever state it is   *)
(* assembled: only the setting and the way it is written decide.           *)
LEMMA InstructionPuts ==
  ASSUME NEW line \in Lines, NEW setting
  PROVE  \E n \in Int : \A s : IsState(s) /\ s.setting = setting => Put(s, Instruction(s, line), n, "code")
<1>1. CASE line.class = "debug"
  <2>1. PICK n \in Int : n = IF line.on THEN IF Conditional(line.cond) THEN 8 ELSE 4 ELSE 0
    OBVIOUS
  <2>2. ASSUME NEW s, IsState(s) PROVE Put(s, Instruction(s, line), n, "code")
    <3>1. PICK p : p = PairOf(s, line)
      OBVIOUS
    <3>2. Pair(p) /\ p.s = s /\ p.i.cond = line.cond
      BY <2>2, <3>1, BlankIs
    <3>3. DebugSkip(p) <=> Conditional(line.cond)
      BY <3>2 DEF DebugSkip
    <3>4. Put(s, Debug(s, p, line), IF line.on THEN IF DebugSkip(p) THEN 8 ELSE 4 ELSE 0, "code")
      BY <3>2, DebugPuts
    <3>5. Instruction(s, line) = Debug(s, p, line)
      BY <1>1, <3>1 DEF Instruction, PairOf, BlankOf
    <3>6. (IF line.on THEN IF DebugSkip(p) THEN 8 ELSE 4 ELSE 0) = n
      BY <2>1, <3>3
    <3> QED
      BY <3>4, <3>5, <3>6
  <2> QED
    BY <2>2
<1>2. CASE line.class = "nop"
  <2>1. ASSUME NEW s, IsState(s) PROVE Put(s, Instruction(s, line), 4, "code")
    <3>1. PICK c : c = Check(s, line.cond = "always", "condition")
      OBVIOUS
    <3>2. Put(s, c, 0, "code") /\ IsState(c)
      BY <2>1, <3>1, CheckPuts DEF Fine, Put
    <3>3. PICK b : b = BlankOf(line)
      OBVIOUS
    <3>4. Plain(b.op)
      BY <2>1, <3>3, BlankIs
    <3>5. Put(c, EnterData(c, b, 4), 4, "code")
      BY <3>2, <3>4, Entered DEF Plain
    <3>6. Put(s, EnterData(c, b, 4), 0 + 4, "code")
      BY <2>1, <3>2, <3>5, Then
    <3>7. Instruction(s, line) = EnterData(c, b, 4)
      BY <1>2, <3>1, <3>3 DEF Instruction, BlankOf
    <3> QED
      BY <3>6, <3>7
  <2> QED
    BY <2>1
<1>3. CASE line.class = "rep"
  <2>1. PICK m \in Int : m = Prefix(line.ops[1]) + Prefix(line.ops[2])
    BY DEF Prefix
  <2>2. ASSUME NEW s, IsState(s) PROVE Put(s, Instruction(s, line), m + 4, "code")
    <3>1. PICK p : p = PairOf(s, line)
      OBVIOUS
    <3>2. Pair(p) /\ p.s = s
      BY <2>2, <3>1, BlankIs
    <3>3. Keep(p, Rep(p, line.ops), m)
      BY <2>1, <3>2, RepKeeps
    <3>4. Put(s, Assembled(Rep(p, line.ops), line), m + 4, "code")
      BY <3>2, <3>3, KeptPuts
    <3>5. Instruction(s, line) = Assembled(Rep(p, line.ops), line)
      BY <1>3, <3>1 DEF Instruction, PairOf, BlankOf
    <3> QED
      BY <3>4, <3>5
  <2>3. m + 4 \in Int
    OBVIOUS
  <2> QED
    BY <2>2, <2>3
<1>4. CASE line.class = "calld"
  <2>1. ASSUME NEW s, IsState(s) PROVE Put(s, Instruction(s, line), 4, "code")
    <3>1. PICK p : p = PairOf(s, line)
      OBVIOUS
    <3>2. Pair(p) /\ p.s = s
      BY <2>1, <3>1, BlankIs
    <3>3. Keep(p, Calld(p, line.ops[1], line.ops[2]), 0)
      BY <3>2, CalldKeeps
    <3>4. Put(s, Assembled(Calld(p, line.ops[1], line.ops[2]), line), 0 + 4, "code")
      BY <3>2, <3>3, KeptPuts
    <3>5. Instruction(s, line) = Assembled(Calld(p, line.ops[1], line.ops[2]), line)
      BY <1>4, <3>1 DEF Instruction, PairOf, BlankOf
    <3> QED
      BY <3>4, <3>5
  <2> QED
    BY <2>1
<1>5. CASE line.class = "loc"
  <2>1. ASSUME NEW s, IsState(s) PROVE Put(s, Instruction(s, line), 4, "code")
    <3>1. PICK p : p = PairOf(s, line)
      OBVIOUS
    <3>2. Pair(p) /\ p.s = s
      BY <2>1, <3>1, BlankIs
    <3>3. Keep(p, Loc(p, line.ops[1], line.ops[2]), 0)
      BY <3>2, LocKeeps
    <3>4. Put(s, Assembled(Loc(p, line.ops[1], line.ops[2]), line), 0 + 4, "code")
      BY <3>2, <3>3, KeptPuts
    <3>5. Instruction(s, line) = Assembled(Loc(p, line.ops[1], line.ops[2]), line)
      BY <1>5, <3>1 DEF Instruction, PairOf, BlankOf
    <3> QED
      BY <3>4, <3>5
  <2> QED
    BY <2>1
<1>6. CASE line.class = "asmclk"
  <2>1. PICK m \in Int : m = IF setting.clk = 0 THEN 0 ELSE 20
    OBVIOUS
  <2>2. ASSUME NEW s, IsState(s), s.setting = setting PROVE Put(s, Instruction(s, line), m + 4, "code")
    <3>1. PICK p : p = PairOf(s, line)
      OBVIOUS
    <3>2. Pair(p) /\ p.s = s
      BY <2>2, <3>1, BlankIs
    <3>3. Keep(p, Asmclk(p), m)
      BY <2>1, <2>2, <3>2, AsmclkKeeps
    <3>4. Put(s, Assembled(Asmclk(p), line), m + 4, "code")
      BY <3>2, <3>3, KeptPuts
    <3>5. Instruction(s, line) = Assembled(Asmclk(p), line)
      BY <1>6, <3>1 DEF Instruction, PairOf, BlankOf
    <3> QED
      BY <3>4, <3>5
  <2>3. m + 4 \in Int
    OBVIOUS
  <2> QED
    BY <2>2, <2>3
<1>7. CASE line.class \notin {"debug", "nop", "rep", "calld", "loc", "asmclk"}
  <2>1. PICK m \in Int : \A p : Pair(p) => Keep(p, Operands(p, line), m)
    BY OperandsKeep
  <2>2. ASSUME NEW s, IsState(s) PROVE Put(s, Instruction(s, line), m + 4, "code")
    <3>1. PICK p : p = PairOf(s, line)
      OBVIOUS
    <3>2. Pair(p) /\ p.s = s
      BY <2>2, <3>1, BlankIs
    <3>3. Keep(p, Operands(p, line), m)
      BY <2>1, <3>2
    <3>4. Put(s, Assembled(Operands(p, line), line), m + 4, "code")
      BY <3>2, <3>3, KeptPuts
    <3>5. Instruction(s, line) = Assembled(Operands(p, line), line)
      BY <1>7, <3>1 DEF Instruction, PairOf, BlankOf
    <3> QED
      BY <3>4, <3>5
  <2>3. m + 4 \in Int
    OBVIOUS
  <2> QED
    BY <2>2, <2>3
<1> QED
  BY <1>1, <1>2, <1>3, <1>4, <1>5, <1>6, <1>7
-----------------------------------------------------------------------------
(* The image as it is read.                                                *)

EndAt(s, k) == IF k = 0 THEN s.setting.start ELSE s.image[k].offset + s.image[k].size
Contiguous(s) ==
  LET a == Len(s.image)
  IN  /\ \A x \in 1..a : /\ s.image[x].size \in Int /\ s.image[x].size > 0 /\ s.image[x].offset \in Int
                         /\ s.image[x].offset = EndAt(s, x - 1) /\ s.image[x].offset + s.image[x].size <= s.offset
      /\ \A x, y \in 1..a : x < y => s.image[x].offset < s.image[y].offset
      /\ s.offset = EndAt(s, a)
      /\ s.sites = Sited(s, 1)
DittoOpen(s) ==
  s.ditto.on => /\ s.ditto.at \in 1..s.at
                /\ \E k \in 0..Len(s.image) : s.ditto.offset = EndAt(s, k)
Good(s) == IsState(s) /\ (s.err = Fine => s.at >= 1 /\ Contiguous(s) /\ DittoOpen(s))

(* A run that is written behind what there is leaves the image whole.      *)
LEMMA PutGood ==
  ASSUME NEW s, NEW t, NEW n, NEW f \in {"code", "filler"}, Good(s), Put(s, t, n, f)
  PROVE  Good(t)
<1>1. IsState(s) /\ IsState(t) /\ t.setting = s.setting
  BY DEF Good, Put
<1>2. SUFFICES ASSUME t.err = Fine PROVE t.at >= 1 /\ Contiguous(t) /\ DittoOpen(t)
  BY <1>1 DEF Good
<1>3. s.err = Fine /\ Same(s, t) /\ Grown(s, t, f)
  BY <1>2 DEF Put
<1>4. s.at >= 1 /\ Contiguous(s) /\ DittoOpen(s)
  BY <1>3 DEF Good
<1>5. PICK a \in Nat, b \in Nat : a = Len(s.image) /\ b = Len(t.image)
  BY <1>1 DEF IsState
<1>6. a <= b /\ (\A x \in 1..a : t.image[x] = s.image[x]) /\ (\A x \in (a + 1)..b : Piece(s, t, a, x, f))
  BY <1>3, <1>5 DEF Grown
<1>7. s.offset \in Int /\ t.offset \in Int /\ s.setting.start \in Int
  BY <1>1 DEF IsState, Settings
<1>8. \A k \in 0..a : EndAt(t, k) = EndAt(s, k)
  BY <1>1, <1>6 DEF EndAt
<1>9. s.offset = EndAt(s, a)
  BY <1>4, <1>5 DEF Contiguous
<1>10. t.offset = EndAt(t, b) /\ s.offset <= t.offset
  <2>1. t.offset = IF a = b THEN s.offset ELSE t.image[b].offset + t.image[b].size
    BY <1>3, <1>5 DEF Grown
  <2>2. CASE a = b
    BY <2>1, <2>2, <1>5, <1>7, <1>8, <1>9
  <2>3. CASE a # b
    <3>1. Piece(s, t, a, b, f)
      BY <2>3, <1>6
    <3> QED
      BY <2>1, <2>3, <3>1, <1>6, <1>7 DEF Piece, EndAt
  <2> QED
    BY <2>2, <2>3
<1>11. ASSUME NEW x \in 1..b
       PROVE  /\ t.image[x].size \in Int /\ t.image[x].size > 0 /\ t.image[x].offset \in Int
              /\ t.image[x].offset = EndAt(t, x - 1) /\ t.image[x].offset + t.image[x].size <= t.offset
  <2>1. CASE x <= a
    <3>1. /\ s.image[x].size \in Int /\ s.image[x].size > 0 /\ s.image[x].offset \in Int
          /\ s.image[x].offset = EndAt(s, x - 1) /\ s.image[x].offset + s.image[x].size <= s.offset
      BY <2>1, <1>4, <1>5 DEF Contiguous
    <3>2. t.image[x] = s.image[x] /\ EndAt(t, x - 1) = EndAt(s, x - 1)
      BY <2>1, <1>6, <1>8
    <3> QED
      BY <3>1, <3>2, <1>7, <1>10
  <2>2. CASE x > a
    <3>1. Piece(s, t, a, x, f)
      BY <2>2, <1>6
    <3>2. CASE x = a + 1
      <4>1. x - 1 = a
        BY <3>2
      <4>2. EndAt(t, x - 1) = s.offset
        BY <4>1, <1>8, <1>9
      <4> QED
        BY <3>1, <3>2, <4>2 DEF Piece
    <3>3. CASE x # a + 1
      <4>1. x - 1 # 0
        BY <2>2, <3>3
      <4>2. EndAt(t, x - 1) = t.image[x - 1].offset + t.image[x - 1].size
        BY <4>1 DEF EndAt
      <4>3. t.image[x].offset = t.image[x - 1].offset + t.image[x - 1].size
        BY <3>1, <3>3 DEF Piece
      <4>4. t.image[x].size \in Int /\ t.image[x].size > 0 /\ t.image[x].offset \in Int /\ t.image[x].offset + t.image[x].size <= t.offset
        BY <3>1 DEF Piece
      <4> QED
        BY <4>2, <4>3, <4>4
    <3> QED
      BY <3>2, <3>3
  <2> QED
    BY <2>1, <2>2
<1>12. ASSUME NEW x \in 1..b, NEW y \in 1..b, x < y PROVE t.image[x].offset < t.image[y].offset
  <2>1. CASE y <= a
    <3>0. x \in 1..a /\ y \in 1..a
      BY <2>1, <1>12
    <3>1. s.image[x].offset < s.image[y].offset
      BY <3>0, <1>4, <1>5, <1>12 DEF Contiguous
    <3> QED
      BY <3>0, <3>1, <1>6
  <2>2. CASE x <= a /\ a < y
    <3>1. s.image[x].size \in Int /\ s.image[x].size > 0 /\ s.image[x].offset \in Int /\ s.image[x].offset + s.image[x].size <= s.offset
      BY <2>2, <1>4, <1>5 DEF Contiguous
    <3>2. Piece(s, t, a, y, f) /\ t.image[x] = s.image[x]
      BY <2>2, <1>6
    <3> QED
      BY <3>1, <3>2, <1>7 DEF Piece
  <2>3. CASE a < x
    <3>1. x \in (a + 1)..b /\ y \in (a + 1)..b
      BY <2>3, <1>12
    <3> QED
      BY <3>1, <1>3, <1>5, <1>12 DEF Grown
  <2> QED
    BY <2>1, <2>2, <2>3
<1>13. t.sites = Sited(t, 1)
  <2>1. s.sites = Sited(s, 1) /\ t.sites = s.sites \cup Sited(t, a + 1)
    BY <1>3, <1>4, <1>5 DEF Contiguous, Grown
  <2> DEFINE Is(y) == t.image[y].what.op = "debug" /\ t.image[y].what.a > 0
  <2>2. Sited(s, 1) = {t.image[x].offset : x \in {y \in 1..a : Is(y)}}
    BY <1>5, <1>6 DEF Sited
  <2>3. Sited(t, a + 1) = {t.image[x].offset : x \in {y \in (a + 1)..b : Is(y)}}
    BY <1>5 DEF Sited
  <2>4. Sited(t, 1) = {t.image[x].offset : x \in {y \in 1..b : Is(y)}}
    BY <1>5 DEF Sited
  <2>5. 1..b = (1..a) \cup ((a + 1)..b)
    BY <1>6
  <2> HIDE DEF Is
  <2> QED
    BY <2>1, <2>2, <2>3, <2>4, <2>5
<1>14. Contiguous(t)
  BY <1>5, <1>10, <1>11, <1>12, <1>13 DEF Contiguous
<1>15. DittoOpen(t)
  <2>1. SUFFICES ASSUME t.ditto.on PROVE t.ditto.at \in 1..t.at /\ \E k \in 0..b : t.ditto.offset = EndAt(t, k)
    BY <1>5 DEF DittoOpen
  <2>2. s.ditto = t.ditto /\ s.at = t.at
    BY <1>3 DEF Same
  <2>3. s.ditto.at \in 1..s.at /\ \E k \in 0..a : s.ditto.offset = EndAt(s, k)
    BY <1>4, <1>5, <2>1, <2>2 DEF DittoOpen
  <2>4. PICK k \in 0..a : s.ditto.offset = EndAt(s, k)
    BY <2>3
  <2>5. k \in 0..b /\ t.ditto.offset = EndAt(t, k)
    BY <1>6, <1>8, <2>2, <2>4
  <2> QED
    BY <2>2, <2>3, <2>5
<1>16. t.at >= 1
  BY <1>3, <1>4 DEF Same
<1> QED
  BY <1>14, <1>15, <1>16

\* t has the image of s
Quiet(s, t) ==
  IsState(t) /\ t.setting = s.setting /\ t.pass = s.pass
  /\ (t.err = Fine => s.err = Fine /\ t.at = s.at /\ t.image = s.image /\ t.sites = s.sites /\ t.offset = s.offset)

(* Nothing written: the image stays whole.                                 *)
LEMMA QuietGood ==
  ASSUME NEW s, NEW t, Good(s), Quiet(s, t), t.err = Fine => DittoOpen(t)
  PROVE  Good(t)
<1>1. SUFFICES ASSUME t.err = Fine PROVE t.at >= 1 /\ Contiguous(t) /\ DittoOpen(t)
  BY DEF Good, Quiet
<1>2. s.at >= 1 /\ Contiguous(s)
  BY <1>1 DEF Good, Quiet
<1>3. \A k : EndAt(t, k) = EndAt(s, k)
  BY <1>1 DEF Quiet, EndAt
<1>4. Contiguous(t)
  BY <1>1, <1>2, <1>3 DEF Quiet, Contiguous, Sited
<1> QED
  BY <1>1, <1>2, <1>4 DEF Quiet

(* The same for a step that leaves the DITTO block alone.                  *)
LEMMA QuietDitto ==
  ASSUME NEW s, NEW t, Good(s), Quiet(s, t), t.err = Fine => t.ditto = s.ditto
  PROVE  Good(t)
<1>1. ASSUME t.err = Fine PROVE DittoOpen(t)
  <2>1. DittoOpen(s) /\ t.ditto = s.ditto /\ t.at = s.at /\ t.image = s.image /\ t.setting = s.setting
    BY <1>1 DEF Good, Quiet
  <2> QED
    BY <2>1 DEF DittoOpen, EndAt
<1> QED
  BY <1>1, QuietGood
-----------------------------------------------------------------------------
(* What reads a line keeps the image whole.                                *)

\* the pieces of t are the first of s, and pieces of the line of s
Kin(s, t) ==
  \E k \in 0..Len(s.image) :
    /\ k <= Len(t.image)
    /\ \A x \in 1..k : t.image[x] = s.image[x]
    /\ \A x \in (k + 1)..Len(t.image) : t.image[x].line = s.at
Within(f, g) == DOMAIN f \subseteq DOMAIN g /\ \A k \in DOMAIN f : g[k] = f[k]
\* from s, which is good, to t, which is good too
Goes(s, t) ==
  /\ Good(t) /\ t.setting = s.setting /\ t.pass = s.pass
  /\ t.err = Fine => s.err = Fine /\ t.at = s.at /\ Kin(s, t) /\ Within(s.labels, t.labels)
Calm(s, t) == Quiet(s, t) /\ (t.err = Fine => t.ditto = s.ditto /\ Within(s.labels, t.labels))

(* What knows at least as much as what knows at least as much.             *)
LEMMA WithinThen ==
  ASSUME NEW f, NEW g, NEW h, Within(f, g), Within(g, h)
  PROVE  Within(f, h)
BY DEF Within

(* A step that writes nothing keeps the pieces there are.                  *)
LEMMA KinSame ==
  ASSUME NEW s, NEW t, IsState(s), t.image = s.image
  PROVE  Kin(s, t)
<1>1. PICK a \in Nat : a = Len(s.image)
  BY DEF IsState
<1> QED
  BY <1>1 DEF Kin

(* Only the image matters for what is kept of it.                          *)
LEMMA KinImage ==
  ASSUME NEW s, NEW t, NEW u, Kin(s, t), u.image = t.image
  PROVE  Kin(s, u)
BY DEF Kin

(* Two steps of one line keep what both of them keep, and what they add    *)
(* belongs to that line.                                                   *)
LEMMA KinThen ==
  ASSUME NEW s, NEW t, NEW u, Kin(s, t), Kin(t, u), t.at = s.at, IsState(s), IsState(t), IsState(u)
  PROVE  Kin(s, u)
<1>1. PICK a \in Nat, b \in Nat, c \in Nat : a = Len(s.image) /\ b = Len(t.image) /\ c = Len(u.image)
  BY DEF IsState
<1>2. PICK k \in 0..a : k <= b /\ (\A x \in 1..k : t.image[x] = s.image[x]) /\ \A x \in (k + 1)..b : t.image[x].line = s.at
  BY <1>1 DEF Kin
<1>3. PICK l \in 0..b : l <= c /\ (\A x \in 1..l : u.image[x] = t.image[x]) /\ \A x \in (l + 1)..c : u.image[x].line = t.at
  BY <1>1 DEF Kin
<1>4. PICK m \in 0..a : m = IF k <= l THEN k ELSE l
  BY <1>2, <1>3
<1>5. m <= c /\ \A x \in 1..m : u.image[x] = s.image[x]
  BY <1>2, <1>3, <1>4
<1>6. ASSUME NEW x \in (m + 1)..c PROVE u.image[x].line = s.at
  <2>1. CASE x <= l
    <3>1. x \in 1..l /\ x \in (k + 1)..b
      BY <1>2, <1>3, <1>4, <2>1
    <3> QED
      BY <1>2, <1>3, <3>1
  <2>2. CASE x > l
    BY <1>3, <2>2
  <2> QED
    BY <1>3, <2>1, <2>2
<1> QED
  BY <1>1, <1>5, <1>6 DEF Kin

(* Two steps within a line are one.                                        *)
LEMMA GoesThen ==
  ASSUME NEW s, NEW t, NEW u, Goes(s, t), Goes(t, u), IsState(s)
  PROVE  Goes(s, u)
<1>1. IsState(t) /\ IsState(u)
  BY DEF Goes, Good
<1>2. ASSUME u.err = Fine PROVE Kin(s, u) /\ Within(s.labels, u.labels)
  BY <1>1, <1>2, KinThen, WithinThen DEF Goes
<1> QED
  BY <1>2 DEF Goes

(* So is none.                                                             *)
LEMMA GoesStill ==
  ASSUME NEW s, Good(s)
  PROVE  Goes(s, s)
BY KinSame DEF Goes, Good, Within

(* A step that writes nothing is a step within a line.                     *)
LEMMA CalmGoes ==
  ASSUME NEW s, NEW t, Good(s), Calm(s, t)
  PROVE  Goes(s, t)
<1>1. Good(t)
  BY QuietDitto DEF Calm
<1>2. t.err = Fine => Kin(s, t)
  BY KinSame DEF Calm, Quiet, Good
<1> QED
  BY <1>1, <1>2 DEF Goes, Calm, Quiet

(* Two steps that write nothing are one.                                   *)
LEMMA CalmThen ==
  ASSUME NEW s, NEW t, NEW u, Calm(s, t), Calm(t, u)
  PROVE  Calm(s, u)
BY WithinThen DEF Calm, Quiet

(* A run that is written is a step within a line.                          *)
LEMMA PutGoes ==
  ASSUME NEW s, NEW t, NEW n, NEW f \in {"code", "filler"}, Good(s), Put(s, t, n, f)
  PROVE  Goes(s, t)
<1>1. Good(t)
  BY PutGood
<1>2. ASSUME t.err = Fine PROVE Kin(s, t)
  <2>1. Grown(s, t, f) /\ IsState(s) /\ IsState(t)
    BY <1>2 DEF Put, Good
  <2>2. PICK a \in Nat, b \in Nat : a = Len(s.image) /\ b = Len(t.image)
    BY <2>1 DEF IsState
  <2>3. a <= b /\ (\A x \in 1..a : t.image[x] = s.image[x]) /\ \A x \in (a + 1)..b : t.image[x].line = s.at
    BY <2>1, <2>2 DEF Grown, Piece
  <2> QED
    BY <2>2, <2>3 DEF Kin
<1> QED
  BY <1>1, <1>2 DEF Goes, Put, Same, Within

(* A check writes nothing.                                                 *)
LEMMA CheckCalm ==
  ASSUME NEW s, IsState(s), NEW ok, NEW e, e # Fine
  PROVE  Calm(s, Check(s, ok, e))
<1>1. PICK t : t = Check(s, ok, e)
  OBVIOUS
<1>2. IsState(t) /\ t.setting = s.setting /\ t.pass = s.pass /\ (t.err = Fine => t = s)
  BY <1>1, CheckIs
<1> QED
  BY <1>1, <1>2 DEF Calm, Quiet, Within

(* Nothing written leaves a state of the assembler.                        *)
LEMMA CalmIs ==
  ASSUME NEW s, NEW t, Calm(s, t)
  PROVE  IsState(t)
BY DEF Calm, Quiet

(* Every value that an expression may have is a number.                    *)
LEMMA ValueInt ==
  ASSUME NEW s, IsState(s), NEW e \in Exps
  PROVE  Value(s, e) \in Int
<1>1. e.k \in Int /\ s.hub \in BOOLEAN /\ s.hubOrg \in Int /\ s.cogOrg \in Int /\ s.ditto.index \in Int /\ s.orghOffset \in Int
  BY DEF Exps, IsState, IsDitto
<1>2. Defined(s, e) /\ IsName(e) => Key(s, e.ref, e.local) \in DOMAIN s.labels
  BY DEF Defined, Known
<1>3. ASSUME NEW l, IsLabel(l) PROVE Address(s, l, e.at) \in Int
  BY <1>1, <1>3 DEF Address, IsLabel
<1>4. Defined(s, e) /\ IsName(e) => Address(s, s.labels[Key(s, e.ref, e.local)], e.at) \in Int
  BY <1>2, <1>3 DEF IsState
<1>5. CASE e.ref = "number"
  BY <1>1, <1>5 DEF Value
<1>6. CASE e.ref = "origin"
  BY <1>1, <1>6 DEF Value
<1>7. CASE e.ref = "index"
  BY <1>1, <1>7 DEF Value
<1>8. CASE e.ref \notin {"number", "origin", "index"}
  <2>1. IsName(e)
    BY <1>8 DEF IsName
  <2>2. Value(s, e) = IF Defined(s, e) THEN Address(s, s.labels[Key(s, e.ref, e.local)], e.at) + e.k ELSE 0
    BY <1>8 DEF Value
  <2> QED
    BY <2>1, <2>2, <1>1, <1>4
<1> QED
  BY <1>5, <1>6, <1>7, <1>8

(* The head of a line writes nothing.                                      *)
LEMMA BeginCalm ==
  ASSUME NEW s, IsState(s), NEW line
  PROVE  Calm(s, Begin(s, line))
<1>1. PICK t : t = IF line.label.name # Nameless /\ ~line.label.local THEN [s EXCEPT !.scope = @ + 1] ELSE s
  OBVIOUS
<1>2. Calm(s, t)
  BY <1>1 DEF Calm, Quiet, IsState, Fields, Within
<1>3. Calm(t, Check(t, Must(s) \/ ~Known(t, Key(t, line.label.name, line.label.local)), "defined"))
  BY <1>2, CalmIs, CheckCalm DEF Fine
<1>4. Begin(s, line) = Check(t, Must(s) \/ ~Known(t, Key(t, line.label.name, line.label.local)), "defined")
  BY <1>1 DEF Begin
<1> QED
  BY <1>2, <1>3, <1>4, CalmThen

(* Entering a symbol writes nothing (enterDatSymbol).                      *)
LEMMA SymbolCalm ==
  ASSUME NEW s, IsState(s), NEW line, NEW size
  PROVE  Calm(s, EnterDatSymbol(s, line, size))
<1>1. PICK key : key = Key(s, line.label.name, line.label.local)
  OBVIOUS
<1>2. PICK label : label = [hub |-> s.hub, offset |-> s.offset, cog |-> s.cogOrg \div 4, size |-> size]
  OBVIOUS
<1>3. IsLabel(label)
  BY <1>2 DEF IsLabel, IsState
<1>4. CASE line.label.name = Nameless \/ Known(s, key) \/ s.err # Fine
  <2>1. EnterDatSymbol(s, line, size) = [s EXCEPT !.word = size]
    BY <1>1, <1>4 DEF EnterDatSymbol
  <2>2. PICK t : t = [s EXCEPT !.word = size]
    OBVIOUS
  <2>3. Calm(s, t)
    BY <2>2 DEF Calm, Quiet, IsState, Fields, Within
  <2> QED
    BY <2>1, <2>2, <2>3
<1>5. CASE ~(line.label.name = Nameless \/ Known(s, key) \/ s.err # Fine) /\ ~s.hub /\ s.cogOrg % 4 # 0
  <2>1. EnterDatSymbol(s, line, size) = Check(s, FALSE, "unaligned")
    BY <1>1, <1>5 DEF EnterDatSymbol, Check
  <2> QED
    BY <2>1, CheckCalm DEF Fine
<1>6. CASE ~(line.label.name = Nameless \/ Known(s, key) \/ s.err # Fine) /\ ~(~s.hub /\ s.cogOrg % 4 # 0)
  <2>1. PICK m : m = [k \in DOMAIN s.labels \cup {key} |-> IF k = key THEN label ELSE s.labels[k]]
    OBVIOUS
  <2>2. PICK t : t = [s EXCEPT !.word = size, !.labels = m]
    OBVIOUS
  <2>3. EnterDatSymbol(s, line, size) = t
    BY <1>1, <1>2, <1>6, <2>1, <2>2 DEF EnterDatSymbol
  <2>4. \A k \in DOMAIN m : IsLabel(m[k])
    BY <2>1, <1>3 DEF IsState
  <2>5. DOMAIN s = Fields
    BY DEF IsState
  <2>6. /\ DOMAIN t = Fields /\ t.labels = m
        /\ \A x \in Fields \ {"word", "labels"} : t[x] = s[x]
    BY <2>2, <2>5 DEF Fields
  <2>7. /\ t.setting = s.setting /\ t.pass = s.pass /\ t.at = s.at /\ t.hub = s.hub /\ t.scope = s.scope /\ t.offset = s.offset
        /\ t.cogOrg = s.cogOrg /\ t.cogLimit = s.cogLimit /\ t.hubOrg = s.hubOrg /\ t.hubLimit = s.hubLimit
        /\ t.orghOffset = s.orghOffset /\ t.ditto = s.ditto /\ t.image = s.image /\ t.sites = s.sites /\ t.err = s.err
    BY <2>6 DEF Fields
  <2>8. IsState(t)
    BY <2>4, <2>6, <2>7 DEF IsState
  <2>9. Within(s.labels, m)
    BY <1>6, <2>1 DEF Known, Within
  <2> QED
    BY <2>3, <2>6, <2>7, <2>8, <2>9 DEF Calm, Quiet
<1> QED
  BY <1>4, <1>5, <1>6

(* Nor does refusing one (errorIfSymbol).                                  *)
LEMMA ErrorIfCalm ==
  ASSUME NEW s, IsState(s), NEW line
  PROVE  Calm(s, ErrorIfSymbol(s, line))
BY CheckCalm DEF ErrorIfSymbol, Fine

(* Nor does reading a value or an origin.                                  *)
LEMMA GetValueCalm ==
  ASSUME NEW s, IsState(s), NEW e, NEW must
  PROVE  Calm(s, GetValue(s, e, must)) /\ Calm(s, Origin(s, e))
BY CheckCalm DEF GetValue, Origin, Fine

(* Aligning cog code to a long writes at most three bytes of padding       *)
(* (advanceToNextCogLong).                                                 *)
LEMMA AdvancePuts ==
  ASSUME NEW s, IsState(s), NEW m, m = IF s.hub THEN 0 ELSE (-s.cogOrg) % 4
  PROVE  Put(s, AdvanceToNextCogLong(s), m, "filler")
<1>1. CASE s.hub
  BY <1>1, Still DEF AdvanceToNextCogLong
<1>2. CASE ~s.hub
  <2>1. PICK n \in Int : n = (-s.cogOrg) % 4 /\ n >= 0
    BY DEF IsState
  <2>2. PICK what : what = [op |-> "pad"]
    OBVIOUS
  <2>3. what.op # "debug" /\ (what.op \in Fillers <=> "filler" = "filler")
    BY <2>2 DEF Fillers
  <2>4. m = IF n <= 0 THEN 0 ELSE n
    BY <1>2, <2>1
  <2>5. "filler" \in {"code", "filler"}
    OBVIOUS
  <2>6. Put(s, EnterData(s, what, n), m, "filler")
    BY <2>3, <2>4, <2>5, EnterDataPuts
  <2>7. AdvanceToNextCogLong(s) = EnterData(s, what, n)
    BY <1>2, <2>1, <2>2 DEF AdvanceToNextCogLong
  <2> QED
    BY <2>6, <2>7
<1> QED
  BY <1>1, <1>2
-----------------------------------------------------------------------------
(* Data.                                                                   *)

DataOf(v, w) == [op |-> "data", v |-> v, w |-> w]
Copies(s, v, w, n, r) == r = [x \in 0..n |-> IF x = 0 THEN s ELSE EnterData(r[x - 1], DataOf(v, w), Width(w))]

(* The states that a datum with a count goes through.                      *)
LEMMA CopiesExist ==
  ASSUME NEW s, NEW v, NEW w, NEW n \in Nat
  PROVE  \E r : Copies(s, v, w, n, r)
<1> DEFINE G == {k \in 0..n : \E r : Copies(s, v, w, k, r)}
<1>1. 0 \in G
  <2>1. PICK r : r = [x \in 0..0 |-> s]
    OBVIOUS
  <2>2. \A x \in 0..0 : x = 0
    OBVIOUS
  <2>3. Copies(s, v, w, 0, r)
    BY <2>1, <2>2 DEF Copies
  <2>4. \E t : Copies(s, v, w, 0, t)
    BY <2>3
  <2> QED
    BY <2>4
<1>2. ASSUME NEW k \in 1..n, k - 1 \in G PROVE k \in G
  <2>1. PICK r : Copies(s, v, w, k - 1, r)
    BY <1>2
  <2>2. PICK t : t = [x \in 0..k |-> IF x = k THEN EnterData(r[k - 1], DataOf(v, w), Width(w)) ELSE r[x]]
    OBVIOUS
  <2>3. ASSUME NEW x \in 0..k PROVE t[x] = IF x = 0 THEN s ELSE EnterData(t[x - 1], DataOf(v, w), Width(w))
    <3>1. CASE x = 0
      <4>1. 0 \in 0..k /\ 0 # k /\ 0 \in 0..(k - 1)
        OBVIOUS
      <4>2. t[0] = r[0] /\ r[0] = s
        BY <2>1, <2>2, <4>1 DEF Copies
      <4> QED
        BY <3>1, <4>2
    <3>2. CASE x = k
      <4>1. k - 1 \in 0..k /\ k - 1 # k /\ k # 0
        OBVIOUS
      <4>2. t[k - 1] = r[k - 1]
        BY <2>2, <4>1
      <4> QED
        BY <2>2, <3>2, <4>1, <4>2
    <3>3. CASE x # 0 /\ x # k
      <4>1. x - 1 \in 0..k /\ x - 1 # k /\ x \in 0..(k - 1)
        BY <3>3
      <4>2. t[x - 1] = r[x - 1] /\ t[x] = r[x]
        BY <2>2, <3>3, <4>1
      <4>3. r[x] = EnterData(r[x - 1], DataOf(v, w), Width(w))
        BY <2>1, <3>3, <4>1 DEF Copies
      <4> QED
        BY <3>3, <4>2, <4>3
    <3> QED
      BY <3>1, <3>2, <3>3
  <2>4. Copies(s, v, w, k, t)
    BY <2>2, <2>3 DEF Copies
  <2>5. \E u : Copies(s, v, w, k, u)
    BY <2>4
  <2> QED
    BY <2>5
<1> HIDE DEF G
<1>3. n \in G
  BY <1>1, <1>2, UpTo
<1> QED
  BY <1>3 DEF G

(* A datum of w bytes written n times takes n times w bytes.               *)
LEMMA CopiesPut ==
  ASSUME NEW s, IsState(s), NEW v, NEW w \in 0..2, NEW n \in Nat, NEW r, Copies(s, v, w, n, r)
  PROVE  Put(s, r[n], n * Width(w), "code")
<1>1. PICK m \in Nat \ {0} : m = Width(w)
  BY DEF Width
<1>2. PICK what : what = DataOf(v, w)
  OBVIOUS
<1>3. what.op # "debug" /\ what.op \notin Fillers
  BY <1>2 DEF DataOf, Fillers
<1>4. ASSUME NEW x \in 0..n PROVE r[x] = IF x = 0 THEN s ELSE EnterData(r[x - 1], what, m)
  BY <1>1, <1>2 DEF Copies
<1> DEFINE G == {k \in 0..n : Put(s, r[k], k * m, "code")}
<1>5. 0 \in G
  <2>1. r[0] = s /\ 0 * m = 0
    BY <1>4
  <2>2. Put(s, s, 0, "code")
    BY Still
  <2> QED
    BY <2>1, <2>2
<1>6. ASSUME NEW k \in 1..n, k - 1 \in G PROVE k \in G
  <2>1. PICK t : t = r[k - 1]
    OBVIOUS
  <2>2. PICK l \in Int : l = (k - 1) * m
    OBVIOUS
  <2>3. Put(s, t, l, "code")
    BY <1>6, <2>1, <2>2
  <2>4. IsState(t)
    BY <2>3 DEF Put
  <2>5. Put(t, EnterData(t, what, m), m, "code")
    BY <1>3, <2>4, Entered
  <2>6. Put(s, EnterData(t, what, m), l + m, "code")
    BY <2>3, <2>5, Then
  <2>7. r[k] = EnterData(t, what, m) /\ l + m = k * m
    BY <1>4, <2>1, <2>2
  <2> QED
    BY <2>6, <2>7
<1> HIDE DEF G
<1>7. n \in G
  BY <1>5, <1>6, UpTo
<1> QED
  BY <1>1, <1>7 DEF G

Datums == [exp : Exps, w : 0..2, fit : BOOLEAN, count : Exps]
DatumSize(s, x) == IF Value(s, x.count) > 0 THEN Value(s, x.count) * Width(x.w) ELSE 0
\* what is checked of it
DatumChecked(s, x) ==
  Check(Origin(GetValue(s, x.exp, Must(s)), x.count), Value(s, x.count) > 0 /\ x.fit => FitsIn(Value(s, x.exp), x.w), "fit")

(* A datum takes as many bytes as its count and its size say.              *)
LEMMA DatumPuts ==
  ASSUME NEW s, IsState(s), NEW x \in Datums
  PROVE  Put(s, Datum(s, x), DatumSize(s, x), "code") /\ DatumSize(s, x) \in Int
<1>1. x.exp \in Exps /\ x.count \in Exps /\ x.w \in 0..2
  BY DEF Datums
<1>2. PICK n \in Int : n = Value(s, x.count)
  BY <1>1, ValueInt
<1>3. PICK v : v = Value(s, x.exp)
  OBVIOUS
<1>4. PICK w : w = x.w
  OBVIOUS
<1>5. PICK a : a = GetValue(s, x.exp, Must(s))
  OBVIOUS
<1>6. PICK b : b = Origin(a, x.count)
  OBVIOUS
<1>7. PICK t : t = Check(b, n > 0 /\ x.fit => FitsIn(v, w), "fit")
  OBVIOUS
<1>8. Put(s, a, 0, "code") /\ IsState(a)
  BY <1>5, CheckPuts DEF GetValue, Fine, Put
<1>9. Put(a, b, 0, "code") /\ IsState(b)
  BY <1>6, <1>8, CheckPuts DEF Origin, GetValue, Fine, Put
<1>10. Put(b, t, 0, "code") /\ IsState(t)
  BY <1>7, <1>9, CheckPuts DEF Fine, Put
<1>11. Put(s, b, 0 + 0, "code")
  BY <1>8, <1>9, Then
<1>12. Put(s, t, 0 + 0 + 0, "code")
  BY <1>10, <1>11, Then
<1>13. CASE n > 0
  <2>1. PICK r : r = CHOOSE q : Copies(t, v, w, n, q)
    OBVIOUS
  <2>2. Copies(t, v, w, n, r)
    BY <2>1, <1>13, CopiesExist
  <2>3. Put(t, r[n], n * Width(w), "code")
    BY <2>2, <1>1, <1>4, <1>10, <1>13, CopiesPut
  <2>4. Datum(s, x) = r[n]
    BY <1>2, <1>3, <1>4, <1>5, <1>6, <1>7, <1>13, <2>1 DEF Datum, Copies, DataOf
  <2>5. PICK m \in Int : m = n * Width(w)
    BY <1>1, <1>4 DEF Width
  <2>6. Put(s, r[n], 0 + 0 + 0 + m, "code")
    BY <1>12, <2>3, <2>5, Then
  <2>7. DatumSize(s, x) = m
    BY <1>2, <1>4, <1>13, <2>5 DEF DatumSize
  <2> QED
    BY <2>4, <2>5, <2>6, <2>7
<1>14. CASE ~(n > 0)
  <2>1. Datum(s, x) = t
    BY <1>2, <1>3, <1>4, <1>5, <1>6, <1>7, <1>14 DEF Datum
  <2>2. DatumSize(s, x) = 0
    BY <1>2, <1>14 DEF DatumSize
  <2> QED
    BY <2>1, <2>2, <1>12
<1> QED
  BY <1>13, <1>14

ReadUpTo(s, data, n, r) == r = [x \in 0..n |-> IF x = 0 THEN s ELSE Datum(r[x - 1], data[x])]

(* The states that the data of a line go through.                          *)
LEMMA ReadExists ==
  ASSUME NEW s, NEW data, NEW n \in Nat
  PROVE  \E r : ReadUpTo(s, data, n, r)
<1> DEFINE G == {k \in 0..n : \E r : ReadUpTo(s, data, k, r)}
<1>1. 0 \in G
  <2>1. PICK r : r = [x \in 0..0 |-> s]
    OBVIOUS
  <2>2. \A x \in 0..0 : x = 0
    OBVIOUS
  <2>3. ReadUpTo(s, data, 0, r)
    BY <2>1, <2>2 DEF ReadUpTo
  <2>4. \E t : ReadUpTo(s, data, 0, t)
    BY <2>3
  <2> QED
    BY <2>4
<1>2. ASSUME NEW k \in 1..n, k - 1 \in G PROVE k \in G
  <2>1. PICK r : ReadUpTo(s, data, k - 1, r)
    BY <1>2
  <2>2. PICK t : t = [x \in 0..k |-> IF x = k THEN Datum(r[k - 1], data[k]) ELSE r[x]]
    OBVIOUS
  <2>3. ASSUME NEW x \in 0..k PROVE t[x] = IF x = 0 THEN s ELSE Datum(t[x - 1], data[x])
    <3>1. CASE x = 0
      <4>1. 0 \in 0..k /\ 0 # k /\ 0 \in 0..(k - 1)
        OBVIOUS
      <4>2. t[0] = r[0] /\ r[0] = s
        BY <2>1, <2>2, <4>1 DEF ReadUpTo
      <4> QED
        BY <3>1, <4>2
    <3>2. CASE x = k
      <4>1. k - 1 \in 0..k /\ k - 1 # k /\ k # 0
        OBVIOUS
      <4>2. t[k - 1] = r[k - 1]
        BY <2>2, <4>1
      <4> QED
        BY <2>2, <3>2, <4>1, <4>2
    <3>3. CASE x # 0 /\ x # k
      <4>1. x - 1 \in 0..k /\ x - 1 # k /\ x \in 0..(k - 1)
        BY <3>3
      <4>2. t[x - 1] = r[x - 1] /\ t[x] = r[x]
        BY <2>2, <3>3, <4>1
      <4>3. r[x] = Datum(r[x - 1], data[x])
        BY <2>1, <3>3, <4>1 DEF ReadUpTo
      <4> QED
        BY <3>3, <4>2, <4>3
    <3> QED
      BY <3>1, <3>2, <3>3
  <2>4. ReadUpTo(s, data, k, t)
    BY <2>2, <2>3 DEF ReadUpTo
  <2>5. \E u : ReadUpTo(s, data, k, u)
    BY <2>4
  <2> QED
    BY <2>5
<1> HIDE DEF G
<1>3. n \in G
  BY <1>1, <1>2, UpTo
<1> QED
  BY <1>3 DEF G

(* The data of a line leave the image whole.                               *)
LEMMA ReadGoes ==
  ASSUME NEW s, Good(s), NEW data, NEW n \in Nat, NEW r, ReadUpTo(s, data, n, r), \A x \in 1..n : data[x] \in Datums
  PROVE  Goes(s, r[n])
<1>s. IsState(s)
  BY DEF Good
<1>1. ASSUME NEW x \in 0..n PROVE r[x] = IF x = 0 THEN s ELSE Datum(r[x - 1], data[x])
  BY DEF ReadUpTo
<1> DEFINE G == {k \in 0..n : Goes(s, r[k])}
<1>2. 0 \in G
  BY <1>1, GoesStill
<1>3. ASSUME NEW k \in 1..n, k - 1 \in G PROVE k \in G
  <2>1. PICK t : t = r[k - 1]
    OBVIOUS
  <2>2. Goes(s, t) /\ Good(t) /\ IsState(t)
    BY <1>3, <2>1 DEF Goes, Good
  <2>3. Put(t, Datum(t, data[k]), DatumSize(t, data[k]), "code")
    BY <2>2, DatumPuts
  <2>4. Goes(t, Datum(t, data[k]))
    BY <2>2, <2>3, PutGoes
  <2>5. r[k] = Datum(t, data[k])
    BY <1>1, <2>1
  <2> QED
    BY <1>s, <2>2, <2>4, <2>5, GoesThen
<1> HIDE DEF G
<1>4. n \in G
  BY <1>2, <1>3, UpTo
<1> QED
  BY <1>4 DEF G
-----------------------------------------------------------------------------
(* What a DITTO takes back.                                                *)

\* t is s, back at the end of a piece, without the DITTO block
IsTaken(s, o, t) == (\E k \in 0..Len(s.image) : o = EndAt(s, k)) /\ t = [SetOffset(s, o) EXCEPT !.ditto = NoDitto]

(* Going back to where a piece starts takes back the pieces from there on  *)
(* and the BRK sites in them, and nothing else (setOffsetTo).              *)
LEMMA TakenBack ==
  ASSUME NEW s, Good(s), s.err = Fine, NEW o, NEW t, IsTaken(s, o, t)
  PROVE  /\ Good(t) /\ t.setting = s.setting /\ t.pass = s.pass /\ t.at = s.at /\ t.err = Fine
         /\ Kin(s, t) /\ t.labels = s.labels
<1>0. PICK k \in 0..Len(s.image) : o = EndAt(s, k)
  BY DEF IsTaken
<1>c. PICK c : c = SetOffset(s, o) /\ t = [c EXCEPT !.ditto = NoDitto]
  BY DEF IsTaken
<1>1. IsState(s) /\ s.at >= 1 /\ Contiguous(s)
  BY DEF Good
<1>2. PICK S : s.image \in Seq(S)
  BY <1>1 DEF IsState
<1>3. PICK a \in Nat : a = Len(s.image)
  BY <1>2
<1>4. k \in 0..a /\ s.setting.start \in Int
  BY <1>1, <1>3 DEF IsState, Settings
<1>5. ASSUME NEW x \in 1..a
      PROVE  /\ s.image[x].size \in Int /\ s.image[x].size > 0 /\ s.image[x].offset \in Int
             /\ s.image[x].offset = EndAt(s, x - 1) /\ s.image[x].offset + s.image[x].size <= s.offset
  BY <1>1, <1>3 DEF Contiguous
<1>6. \A x, y \in 1..a : x < y => s.image[x].offset < s.image[y].offset
  BY <1>1, <1>3 DEF Contiguous
<1>7. o \in Int
  BY <1>0, <1>4, <1>5 DEF EndAt
<1>8. ASSUME NEW x \in 1..a PROVE s.image[x].offset < o <=> x <= k
  <2>1. CASE x <= k
    <3>1. k \in 1..a /\ o = s.image[k].offset + s.image[k].size
      BY <1>0, <1>4, <2>1 DEF EndAt
    <3>2. s.image[x].offset \in Int /\ s.image[k].offset \in Int /\ s.image[k].size > 0 /\ s.image[k].size \in Int
      BY <1>5, <3>1
    <3>3. s.image[x].offset <= s.image[k].offset
      <4>1. CASE x = k
        BY <4>1, <3>2
      <4>2. CASE x # k
        <5>1. s.image[x].offset < s.image[k].offset
          BY <1>6, <2>1, <3>1, <4>2
        <5> QED
          BY <5>1, <3>2
      <4> QED
        BY <4>1, <4>2
    <3> QED
      BY <2>1, <3>1, <3>2, <3>3
  <2>2. CASE x > k
    <3>1. k + 1 \in 1..a /\ (k + 1) - 1 = k
      BY <1>4, <2>2
    <3>2. s.image[k + 1].offset = o
      BY <1>0, <1>5, <3>1
    <3>3. x = k + 1 \/ s.image[k + 1].offset < s.image[x].offset
      <4>1. x = k + 1 \/ k + 1 < x
        BY <1>4, <2>2
      <4> QED
        BY <1>6, <3>1, <4>1
    <3>4. s.image[x].offset \in Int
      BY <1>5, Zenon
    <3> QED
      BY <1>7, <2>2, <3>2, <3>3, <3>4
  <2> QED
    BY <1>4, <2>1, <2>2
<1>9. {x \in DOMAIN s.image : s.image[x].offset < o} = 1..k
  BY <1>2, <1>3, <1>4, <1>8
<1>10. Cardinality(1..k) = k
  <2>1. 1 \in Int /\ k \in Int
    BY <1>4
  <2>2. Cardinality(1..k) = IF 1 > k THEN 0 ELSE k-1+1
    BY <2>1, FS_Interval, Zenon
  <2> QED
    BY <2>2, <1>4
<1>11. PICK q : q = SubSeq(s.image, 1, k)
  OBVIOUS
<1>12. q \in Seq(S) /\ Len(q) = k /\ \A x \in 1..k : q[x] = s.image[x]
  BY <1>2, <1>3, <1>4, <1>11
<1>13. PICK w : w = {at \in s.sites : at < o}
  OBVIOUS
<1>14. PICK b : b = [s EXCEPT !.offset = o, !.image = q]
  OBVIOUS
<1>15. Before(s, o) = b
  BY <1>9, <1>10, <1>11, <1>14 DEF Before
<1>16. DOMAIN s = Fields
  BY <1>1 DEF IsState
<1>17. b.sites = s.sites /\ DOMAIN b = Fields /\ b.offset = o /\ b.image = q /\ \A x \in Fields \ {"offset", "image"} : b[x] = s[x]
  BY <1>14, <1>16 DEF Fields
<1>18. t = [[b EXCEPT !.sites = w] EXCEPT !.ditto = NoDitto]
  BY <1>c, <1>13, <1>15, <1>17 DEF SetOffset
<1>19. /\ DOMAIN t = Fields /\ t.offset = o /\ t.image = q /\ t.sites = w /\ t.ditto = NoDitto
       /\ \A x \in Fields \ {"offset", "image", "sites", "ditto"} : t[x] = s[x]
  BY <1>17, <1>18 DEF Fields
<1>20. /\ t.setting = s.setting /\ t.pass = s.pass /\ t.at = s.at /\ t.hub = s.hub /\ t.scope = s.scope
       /\ t.cogOrg = s.cogOrg /\ t.cogLimit = s.cogLimit /\ t.hubOrg = s.hubOrg /\ t.hubLimit = s.hubLimit
       /\ t.orghOffset = s.orghOffset /\ t.labels = s.labels /\ t.err = s.err
  BY <1>19 DEF Fields
<1>21. IsDitto(NoDitto) /\ ~NoDitto.on
  BY DEF IsDitto, NoDitto
<1>22. IsState(t)
  BY <1>1, <1>7, <1>12, <1>19, <1>20, <1>21 DEF IsState
<1>23. \A x \in 0..k : EndAt(t, x) = EndAt(s, x)
  BY <1>12, <1>19, <1>20 DEF EndAt
<1>24. ASSUME NEW x \in 1..k
       PROVE  /\ q[x].size \in Int /\ q[x].size > 0 /\ q[x].offset \in Int
              /\ q[x].offset = EndAt(t, x - 1) /\ q[x].offset + q[x].size <= o
  <2>1. x \in 1..a /\ x - 1 \in 0..k /\ k \in 1..a
    BY <1>4
  <2>2. /\ q[x].size \in Int /\ q[x].size > 0 /\ q[x].offset \in Int /\ q[x].offset = EndAt(t, x - 1)
    BY <1>5, <1>12, <1>23, <2>1
  <2>3. q[x].offset + q[x].size <= o
    <3>1. CASE x = k
      <4>1. o = s.image[x].offset + s.image[x].size
        BY <1>0, <3>1, <2>1 DEF EndAt
      <4>2. q[x] = s.image[x]
        BY <1>12
      <4> QED
        BY <4>1, <4>2, <1>7
    <3>2. CASE x # k
      <4>1. x + 1 \in 1..a /\ x + 1 <= k /\ (x + 1) - 1 = x /\ x # 0
        BY <2>1, <3>2
      <4>2. s.image[x + 1].offset = EndAt(s, x) /\ s.image[x + 1].offset < o /\ s.image[x + 1].offset \in Int
        BY <1>5, <1>8, <4>1
      <4>3. EndAt(s, x) = s.image[x].offset + s.image[x].size
        BY <4>1 DEF EndAt
      <4> QED
        BY <4>2, <4>3, <1>7, <1>12, <2>2
    <3> QED
      BY <3>1, <3>2
  <2> QED
    BY <2>2, <2>3
<1>25. \A x, y \in 1..k : x < y => q[x].offset < q[y].offset
  BY <1>4, <1>6, <1>12
<1>26. o = EndAt(t, k)
  BY <1>0, <1>4, <1>23
<1>27. w = Sited(t, 1)
  <2> DEFINE Is(v) == v.what.op = "debug" /\ v.what.a > 0
  <2>1. s.sites = {s.image[x].offset : x \in {y \in 1..a : Is(s.image[y])}}
    BY <1>1, <1>3 DEF Contiguous, Sited
  <2>2. Sited(t, 1) = {q[x].offset : x \in {y \in 1..k : Is(q[y])}}
    BY <1>12, <1>19 DEF Sited
  <2> HIDE DEF Is
  <2>3. ASSUME NEW at \in w PROVE at \in Sited(t, 1)
    <3>1. PICK x \in 1..a : Is(s.image[x]) /\ at = s.image[x].offset /\ at < o
      BY <1>13, <2>1
    <3>2. x \in 1..k
      BY <1>4, <1>8, <3>1
    <3> QED
      BY <1>12, <2>2, <3>1, <3>2
  <2>4. ASSUME NEW at \in Sited(t, 1) PROVE at \in w
    <3>1. PICK x \in 1..k : Is(q[x]) /\ at = q[x].offset
      BY <2>2
    <3>2. x \in 1..a /\ q[x] = s.image[x]
      BY <1>4, <1>12
    <3>3. at \in s.sites /\ at < o
      BY <1>8, <2>1, <3>1, <3>2
    <3> QED
      BY <1>13, <3>3
  <2> QED
    BY <2>3, <2>4
<1>28. Contiguous(t)
  BY <1>12, <1>19, <1>24, <1>25, <1>26, <1>27 DEF Contiguous
<1>29. DittoOpen(t)
  BY <1>19, <1>21 DEF DittoOpen
<1>30. Kin(s, t)
  BY <1>3, <1>4, <1>12, <1>19 DEF Kin
<1> QED
  BY <1>1, <1>20, <1>22, <1>28, <1>29, <1>30 DEF Good
-----------------------------------------------------------------------------
(* The lines.                                                              *)

(* What a line is made of.                                                 *)
LEMMA LineIs ==
  ASSUME NEW line \in Lines
  PROVE  /\ line.exp \in Exps /\ line.w \in 0..2 /\ line.n \in Nat
         /\ line.data \in Seq(Datums) /\ line.org \in Seq(Exps)
BY DEF Lines, Datums

(* The limits of the chip are numbers.                                     *)
LEMMA LimitsAre ==
  /\ CogLimit \in Nat /\ LutBase \in Nat /\ HubBase \in Nat /\ HubLimit \in Nat
BY AssemblerAssumption

(* A step within a line leaves a state of the assembler.                   *)
LEMMA GoesState ==
  ASSUME NEW s, NEW t, Goes(s, t)
  PROVE  Good(t) /\ IsState(t)
BY DEF Goes, Good

(* A step within a line, and one that writes nothing behind it.            *)
LEMMA GoesCalm ==
  ASSUME NEW s, NEW t, NEW u, IsState(s), Goes(s, t), Calm(t, u)
  PROVE  Goes(s, u) /\ IsState(u)
<1>1. Goes(t, u)
  BY GoesState, CalmGoes
<1> QED
  BY <1>1, GoesState, GoesThen

(* A step within a line, and a run behind it.                              *)
LEMMA GoesPut ==
  ASSUME NEW s, NEW t, NEW u, NEW n, NEW f \in {"code", "filler"}, IsState(s), Goes(s, t), Put(t, u, n, f)
  PROVE  Goes(s, u) /\ IsState(u)
<1>1. Goes(t, u)
  BY GoesState, PutGoes
<1> QED
  BY <1>1, GoesState, GoesThen

(* Filling bytes are a run of their own kind.                              *)
LEMMA FilledPuts ==
  ASSUME NEW s, IsState(s), NEW n \in Int, NEW op \in Fillers
  PROVE  \E m \in Int : Put(s, EnterData(s, [op |-> op], n), m, "filler")
<1>1. PICK what : what = [op |-> op]
  OBVIOUS
<1>2. what.op # "debug" /\ (what.op \in Fillers <=> "filler" = "filler")
  BY <1>1 DEF Fillers
<1>3. "filler" \in {"code", "filler"}
  OBVIOUS
<1>4. PICK m \in Int : m = IF n <= 0 THEN 0 ELSE n
  OBVIOUS
<1> QED
  BY <1>1, <1>2, <1>3, <1>4, EnterDataPuts

(* A line with a label alone.                                              *)
LEMMA LabelGoes ==
  ASSUME NEW s, Good(s), NEW line
  PROVE  Goes(s, ReadLabel(s, line))
<1>s. IsState(s)
  BY DEF Good
<1>1. Goes(s, Begin(s, line))
  BY BeginCalm, CalmGoes DEF Good
<1> QED
  BY <1>s, <1>1, GoesState, GoesCalm, SymbolCalm DEF ReadLabel

(* A line of data.                                                         *)
LEMMA DataGoes ==
  ASSUME NEW s, Good(s), NEW line \in Lines
  PROVE  Goes(s, ReadData(s, line))
<1>s. IsState(s)
  BY DEF Good
<1>1. PICK b : b = EnterDatSymbol(Begin(s, line), line, line.w)
  OBVIOUS
<1>2. Goes(s, Begin(s, line))
  BY BeginCalm, CalmGoes DEF Good
<1>3. Goes(s, b) /\ Good(b)
  BY <1>s, <1>1, <1>2, GoesState, GoesCalm, SymbolCalm
<1>4. PICK n \in Nat : n = Len(line.data) /\ \A x \in 1..n : line.data[x] \in Datums
  BY LineIs
<1>5. PICK data : data = line.data
  OBVIOUS
<1>6. PICK r : r = CHOOSE q : ReadUpTo(b, data, n, q)
  OBVIOUS
<1>7. ReadUpTo(b, data, n, r)
  BY <1>6, ReadExists
<1>8. Goes(b, r[n])
  BY <1>3, <1>4, <1>5, <1>7, ReadGoes
<1>9. ReadData(s, line) = r[n]
  BY <1>1, <1>4, <1>5, <1>6 DEF ReadData, ReadUpTo
<1> QED
  BY <1>s, <1>3, <1>8, <1>9, GoesThen

(* A line with an instruction.                                             *)
LEMMA InstructionGoes ==
  ASSUME NEW s, Good(s), NEW line \in Lines
  PROVE  Goes(s, ReadInstruction(s, line))
<1>s. IsState(s)
  BY DEF Good
<1>1. PICK a : a = Begin(s, line)
  OBVIOUS
<1>2. Goes(s, a) /\ IsState(a)
  BY <1>1, BeginCalm, CalmGoes, GoesState DEF Good
<1>3. PICK b : b = AdvanceToNextCogLong(a)
  OBVIOUS
<1>4. PICK m : m = IF a.hub THEN 0 ELSE (-a.cogOrg) % 4
  OBVIOUS
<1>5. Put(a, b, m, "filler") /\ "filler" \in {"code", "filler"}
  BY <1>2, <1>3, <1>4, AdvancePuts
<1>6. Goes(s, b) /\ IsState(b)
  BY <1>s, <1>2, <1>5, GoesPut
<1>7. PICK c : c = EnterDatSymbol(b, line, 2)
  OBVIOUS
<1>8. Goes(s, c) /\ IsState(c)
  BY <1>s, <1>6, <1>7, GoesCalm, SymbolCalm
<1>9. c.setting \in Settings
  BY <1>8 DEF IsState
<1>10. PICK n \in Int : \A t : IsState(t) /\ t.setting = c.setting => Put(t, Instruction(t, line), n, "code")
  BY <1>9, InstructionPuts
<1>11. Put(c, Instruction(c, line), n, "code")
  BY <1>8, <1>10
<1>12. Goes(s, Instruction(c, line))
  BY <1>s, <1>8, <1>11, GoesPut
<1> QED
  BY <1>1, <1>3, <1>7, <1>12 DEF ReadInstruction

(* A line with a file.                                                     *)
LEMMA FileGoes ==
  ASSUME NEW s, Good(s), NEW line \in Lines
  PROVE  Goes(s, ReadFile(s, line))
<1>s. IsState(s)
  BY DEF Good
<1>1. PICK b : b = EnterDatSymbol(Begin(s, line), line, 0)
  OBVIOUS
<1>2. Goes(s, Begin(s, line))
  BY BeginCalm, CalmGoes DEF Good
<1>3. Goes(s, b) /\ IsState(b)
  BY <1>s, <1>1, <1>2, GoesState, GoesCalm, SymbolCalm
<1>4. PICK n \in Nat : n = line.n
  BY LineIs
<1>5. PICK what : what = [op |-> "file"]
  OBVIOUS
<1>6. what.op # "debug" /\ (what.op \in Fillers <=> "code" = "filler")
  BY <1>5 DEF Fillers
<1>7. PICK m : m = IF n <= 0 THEN 0 ELSE n
  OBVIOUS
<1>8. Put(b, EnterData(b, what, n), m, "code")
  BY <1>3, <1>6, <1>7, EnterDataPuts
<1>9. Goes(s, EnterData(b, what, n))
  BY <1>s, <1>3, <1>8, GoesPut
<1> QED
  BY <1>1, <1>4, <1>5, <1>9 DEF ReadFile

(* A line with a structure.                                                *)
LEMMA StructGoes ==
  ASSUME NEW s, Good(s), NEW line \in Lines
  PROVE  Goes(s, ReadStruct(s, line))
<1>s. IsState(s)
  BY DEF Good
<1>1. PICK b : b = Begin(s, line)
  OBVIOUS
<1>2. Goes(s, b) /\ IsState(b)
  BY <1>1, BeginCalm, CalmGoes, GoesState DEF Good
<1>3. PICK c : c = Check(b, b.hub, "mode")
  OBVIOUS
<1>4. Goes(s, c) /\ IsState(c)
  BY <1>s, <1>2, <1>3, CheckCalm, GoesCalm DEF Fine
<1>5. PICK hub : hub = Check(c, line.label.name # Nameless /\ ~Known(b, Key(b, line.label.name, line.label.local)), "label")
  OBVIOUS
<1>6. Goes(s, hub) /\ IsState(hub)
  BY <1>s, <1>4, <1>5, CheckCalm, GoesCalm DEF Fine
<1>7. PICK d : d = EnterDatSymbol(hub, line, "struct")
  OBVIOUS
<1>8. Goes(s, d) /\ IsState(d)
  BY <1>s, <1>6, <1>7, SymbolCalm, GoesCalm
<1>9. PICK e : e = [d EXCEPT !.word = s.word]
  OBVIOUS
<1>10. Calm(d, e)
  BY <1>8, <1>9 DEF Calm, Quiet, IsState, Fields, Within
<1>11. Goes(s, e)
  BY <1>s, <1>8, <1>10, GoesCalm
<1>12. ReadStruct(s, line) = IF Must(s) THEN e ELSE b
  BY <1>1, <1>3, <1>5, <1>7, <1>9 DEF ReadStruct
<1> QED
  BY <1>2, <1>11, <1>12

(* A line with FIT.                                                        *)
LEMMA FitGoes ==
  ASSUME NEW s, Good(s), NEW line \in Lines
  PROVE  Goes(s, ReadFit(s, line))
<1>s. IsState(s)
  BY DEF Good
<1>1. PICK a : a = Begin(s, line)
  OBVIOUS
<1>2. Goes(s, a) /\ IsState(a)
  BY <1>1, BeginCalm, CalmGoes, GoesState DEF Good
<1>3. PICK b : b = ErrorIfSymbol(a, line)
  OBVIOUS
<1>4. Goes(s, b) /\ IsState(b)
  BY <1>s, <1>2, <1>3, ErrorIfCalm, GoesCalm
<1>5. PICK c : c = Origin(b, line.exp)
  OBVIOUS
<1>6. Goes(s, c) /\ IsState(c)
  BY <1>s, <1>4, <1>5, GetValueCalm, GoesCalm
<1>7. PICK ok : ok = (Here(s) <= Value(s, line.exp) * (IF s.hub THEN 1 ELSE 4))
  OBVIOUS
<1>8. Goes(s, Check(c, ok, "fit"))
  BY <1>s, <1>6, CheckCalm, GoesCalm DEF Fine
<1> QED
  BY <1>1, <1>3, <1>5, <1>7, <1>8 DEF ReadFit

(* A line with RES.                                                        *)
LEMMA ResGoes ==
  ASSUME NEW s, Good(s), NEW line \in Lines
  PROVE  Goes(s, ReadRes(s, line))
<1>s. IsState(s)
  BY DEF Good
<1>1. PICK a : a = Begin(s, line)
  OBVIOUS
<1>2. Goes(s, a) /\ IsState(a)
  BY <1>1, BeginCalm, CalmGoes, GoesState DEF Good
<1>3. PICK b : b = Check(a, ~s.hub, "mode")
  OBVIOUS
<1>4. Goes(s, b) /\ IsState(b)
  BY <1>s, <1>2, <1>3, CheckCalm, GoesCalm DEF Fine
<1>5. PICK c : c = AdvanceToNextCogLong(b)
  OBVIOUS
<1>6. PICK m : m = IF b.hub THEN 0 ELSE (-b.cogOrg) % 4
  OBVIOUS
<1>7. Put(b, c, m, "filler") /\ "filler" \in {"code", "filler"}
  BY <1>4, <1>5, <1>6, AdvancePuts
<1>8. Goes(s, c) /\ IsState(c)
  BY <1>s, <1>4, <1>7, GoesPut
<1>9. PICK d : d = EnterDatSymbol(c, line, 2)
  OBVIOUS
<1>10. Goes(s, d) /\ IsState(d)
  BY <1>s, <1>8, <1>9, SymbolCalm, GoesCalm
<1>11. PICK v \in Int : v = Value(d, line.exp)
  BY <1>10, LineIs, ValueInt
<1>12. PICK e : e = Origin(d, line.exp)
  OBVIOUS
<1>13. Goes(s, e) /\ IsState(e)
  BY <1>s, <1>10, <1>12, GetValueCalm, GoesCalm
<1>14. PICK moved : moved = [e EXCEPT !.cogOrg = @ + (4 * v)]
  OBVIOUS
<1>15. Calm(e, moved)
  BY <1>13, <1>14 DEF Calm, Quiet, IsState, Fields, Within
<1>16. Goes(s, moved) /\ IsState(moved)
  BY <1>s, <1>13, <1>15, GoesCalm
<1>17. Goes(s, Check(moved, moved.cogOrg <= d.cogLimit, "limit"))
  BY <1>s, <1>16, CheckCalm, GoesCalm DEF Fine
<1> QED
  BY <1>1, <1>3, <1>5, <1>9, <1>11, <1>12, <1>14, <1>17 DEF ReadRes

(* A line with ORGF.                                                       *)
LEMMA OrgfGoes ==
  ASSUME NEW s, Good(s), NEW line \in Lines
  PROVE  Goes(s, ReadOrgf(s, line))
<1>s. IsState(s)
  BY DEF Good
<1>1. PICK a : a = Begin(s, line)
  OBVIOUS
<1>2. Goes(s, a) /\ IsState(a)
  BY <1>1, BeginCalm, CalmGoes, GoesState DEF Good
<1>3. PICK c : c = Check(a, ~s.hub, "mode")
  OBVIOUS
<1>4. Goes(s, c) /\ IsState(c)
  BY <1>s, <1>2, <1>3, CheckCalm, GoesCalm DEF Fine
<1>5. PICK b : b = ErrorIfSymbol(c, line)
  OBVIOUS
<1>6. Goes(s, b) /\ IsState(b)
  BY <1>s, <1>4, <1>5, ErrorIfCalm, GoesCalm
<1>7. PICK v \in Int : v = Value(b, line.exp)
  BY <1>6, LineIs, ValueInt
<1>8. PICK d : d = Origin(b, line.exp)
  OBVIOUS
<1>9. Goes(s, d) /\ IsState(d)
  BY <1>s, <1>6, <1>8, GetValueCalm, GoesCalm
<1>10. PICK e : e = Check(d, 4 * v <= b.cogLimit, "limit")
  OBVIOUS
<1>11. Goes(s, e) /\ IsState(e)
  BY <1>s, <1>9, <1>10, CheckCalm, GoesCalm DEF Fine
<1>12. PICK f : f = Check(e, b.cogOrg <= 4 * v, "origin")
  OBVIOUS
<1>13. Goes(s, f) /\ IsState(f)
  BY <1>s, <1>11, <1>12, CheckCalm, GoesCalm DEF Fine
<1>14. PICK n \in Int : n = 4 * v - b.cogOrg
  BY <1>6 DEF IsState
<1>15. PICK m \in Int : Put(f, EnterData(f, [op |-> "fill"], n), m, "filler")
  BY <1>13, FilledPuts DEF Fillers
<1>16. "filler" \in {"code", "filler"}
  OBVIOUS
<1>17. Goes(s, EnterData(f, [op |-> "fill"], n))
  BY <1>s, <1>13, <1>15, <1>16, GoesPut
<1> QED
  BY <1>1, <1>3, <1>5, <1>7, <1>8, <1>10, <1>12, <1>14, <1>17 DEF ReadOrgf

(* A line with ALIGNW or ALIGNL.                                           *)
LEMMA AlignGoes ==
  ASSUME NEW s, Good(s), NEW line \in Lines, line.n > 0
  PROVE  Goes(s, ReadAlign(s, line))
<1>s. IsState(s)
  BY DEF Good
<1>1. PICK a : a = Begin(s, line)
  OBVIOUS
<1>2. Goes(s, a) /\ IsState(a)
  BY <1>1, BeginCalm, CalmGoes, GoesState DEF Good
<1>3. PICK b : b = Check(a, ~Inline(s), "inline")
  OBVIOUS
<1>4. Goes(s, b) /\ IsState(b)
  BY <1>s, <1>2, <1>3, CheckCalm, GoesCalm DEF Fine
<1>5. PICK n \in Int : n = (-s.offset) % line.n
  <2>1. s.offset \in Int /\ line.n \in Nat
    BY LineIs DEF Good, IsState
  <2> QED
    BY <2>1
<1>6. PICK m \in Int : Put(b, EnterData(b, [op |-> "pad"], n), m, "filler")
  BY <1>4, FilledPuts DEF Fillers
<1>7. "filler" \in {"code", "filler"}
  OBVIOUS
<1>8. Goes(s, EnterData(b, [op |-> "pad"], n))
  BY <1>s, <1>4, <1>6, <1>7, GoesPut
<1> QED
  BY <1>1, <1>3, <1>5, <1>8 DEF ReadAlign

(* The operands of ORG and ORGH are there if the sequence is long enough.  *)
LEMMA TwoAre ==
  ASSUME NEW S, NEW q \in Seq(S), q # <<>>
  PROVE  q[1] \in S /\ (Len(q) # 1 => q[2] \in S)
<1>1. PICK n \in Nat : n = Len(q)
  OBVIOUS
<1>2. n # 0
  BY <1>1
<1>3. \A x \in 1..n : q[x] \in S
  BY <1>1
<1>4. 1 \in 1..n /\ (n # 1 => 2 \in 1..n)
  BY <1>2
<1> QED
  BY <1>1, <1>3, <1>4

(* Setting an origin or a limit writes nothing.                            *)
LEMMA CogCalm ==
  ASSUME NEW s, IsState(s), NEW org \in Int, NEW limit \in Int
  PROVE  /\ Calm(s, [s EXCEPT !.hub = FALSE, !.cogOrg = org, !.cogLimit = limit])
         /\ Calm(s, [s EXCEPT !.cogOrg = org, !.cogLimit = limit])
         /\ Calm(s, [s EXCEPT !.cogLimit = limit])
         /\ Calm(s, [s EXCEPT !.hubLimit = limit])
         /\ Calm(s, [s EXCEPT !.hubOrg = limit])
<1>1. ASSUME NEW t, t = [s EXCEPT !.hub = FALSE, !.cogOrg = org, !.cogLimit = limit] PROVE Calm(s, t)
  BY <1>1 DEF Calm, Quiet, IsState, Fields, Within
<1>2. ASSUME NEW t, t = [s EXCEPT !.cogOrg = org, !.cogLimit = limit] PROVE Calm(s, t)
  BY <1>2 DEF Calm, Quiet, IsState, Fields, Within
<1>3. ASSUME NEW t, t = [s EXCEPT !.cogLimit = limit] PROVE Calm(s, t)
  BY <1>3 DEF Calm, Quiet, IsState, Fields, Within
<1>4. ASSUME NEW t, t = [s EXCEPT !.hubLimit = limit] PROVE Calm(s, t)
  BY <1>4 DEF Calm, Quiet, IsState, Fields, Within
<1>5. ASSUME NEW t, t = [s EXCEPT !.hubOrg = limit] PROVE Calm(s, t)
  BY <1>5 DEF Calm, Quiet, IsState, Fields, Within
<1> QED
  BY <1>1, <1>2, <1>3, <1>4, <1>5

(* Nor does going over to hub code.                                        *)
LEMMA HubCalm ==
  ASSUME NEW s, IsState(s), NEW base \in Int
  PROVE  Calm(s, HubAt(s, base))
<1>1. PICK o \in Int : o = base - s.offset
  BY DEF IsState
<1>2. PICK t : t = [s EXCEPT !.hub = TRUE, !.hubOrg = base, !.orghOffset = o]
  OBVIOUS
<1>3. Calm(s, t)
  BY <1>2 DEF Calm, Quiet, IsState, Fields, Within
<1> QED
  BY <1>1, <1>2, <1>3 DEF HubAt

(* A line with ORG.                                                        *)
LEMMA OrgGoes ==
  ASSUME NEW s, Good(s), NEW line \in Lines
  PROVE  Goes(s, ReadOrg(s, line))
<1>s. IsState(s)
  BY DEF Good
<1>1. PICK a : a = Begin(s, line)
  OBVIOUS
<1>2. Goes(s, a) /\ IsState(a)
  BY <1>1, BeginCalm, CalmGoes, GoesState DEF Good
<1>3. PICK c : c = Check(a, ~Inline(s), "inline")
  OBVIOUS
<1>4. Goes(s, c) /\ IsState(c)
  BY <1>s, <1>2, <1>3, CheckCalm, GoesCalm DEF Fine
<1>5. PICK d : d = Check(c, ~s.ditto.on, "ditto")
  OBVIOUS
<1>6. Goes(s, d) /\ IsState(d)
  BY <1>s, <1>4, <1>5, CheckCalm, GoesCalm DEF Fine
<1>7. PICK b : b = ErrorIfSymbol(d, line)
  OBVIOUS
<1>8. Goes(s, b) /\ IsState(b)
  BY <1>s, <1>6, <1>7, ErrorIfCalm, GoesCalm
<1>9. PICK top \in Int : top = CogLimit * 4
  BY LimitsAre
<1>10. PICK plain : plain = [b EXCEPT !.hub = FALSE, !.cogOrg = 0, !.cogLimit = top]
  OBVIOUS
<1>11. Goes(s, plain) /\ IsState(plain)
  <2>1. 0 \in Int
    OBVIOUS
  <2>2. PICK zero \in Int : zero = 0
    BY <2>1
  <2>3. Calm(b, [b EXCEPT !.hub = FALSE, !.cogOrg = zero, !.cogLimit = top])
    BY <1>8, <1>9, CogCalm
  <2>4. Calm(b, plain)
    BY <1>10, <2>2, <2>3
  <2> QED
    BY <1>s, <1>8, <2>4, GoesCalm
<1>12. CASE line.org = <<>>
  BY <1>1, <1>3, <1>5, <1>7, <1>9, <1>10, <1>11, <1>12 DEF ReadOrg
<1>13. CASE line.org # <<>>
  <2>1. line.org \in Seq(Exps) /\ line.org[1] \in Exps
    BY <1>13, LineIs
  <2>2. PICK base \in Int : base = Value(plain, line.org[1])
    BY <1>11, <2>1, ValueInt
  <2>3. PICK e : e = Origin(plain, line.org[1])
    OBVIOUS
  <2>4. Goes(s, e) /\ IsState(e)
    BY <1>s, <1>11, <2>3, GetValueCalm, GoesCalm
  <2>5. PICK f : f = Check(e, base <= HubBase, "address")
    OBVIOUS
  <2>6. Goes(s, f) /\ IsState(f)
    BY <1>s, <2>4, <2>5, CheckCalm, GoesCalm DEF Fine
  <2>7. PICK high \in Int : high = (IF base >= LutBase THEN HubBase ELSE LutBase) * 4
    BY LimitsAre
  <2>8. PICK org \in Int : org = base * 4
    OBVIOUS
  <2>9. PICK based : based = [f EXCEPT !.cogOrg = org, !.cogLimit = high]
    OBVIOUS
  <2>10. Goes(s, based) /\ IsState(based)
    <3>1. Calm(f, based)
      BY <2>6, <2>9, CogCalm
    <3> QED
      BY <1>s, <2>6, <3>1, GoesCalm
  <2>11. CASE Len(line.org) = 1
    BY <1>1, <1>3, <1>5, <1>7, <1>9, <1>10, <1>13, <2>2, <2>3, <2>5, <2>7, <2>8, <2>9, <2>10, <2>11 DEF ReadOrg
  <2>12. CASE Len(line.org) # 1
    <3>1. line.org[2] \in Exps
      BY <1>13, <2>1, <2>12, TwoAre
    <3>2. PICK limit \in Int : limit = Value(based, line.org[2])
      BY <2>10, <3>1, ValueInt
    <3>3. PICK g : g = Origin(based, line.org[2])
      OBVIOUS
    <3>4. Goes(s, g) /\ IsState(g)
      BY <1>s, <2>10, <3>3, GetValueCalm, GoesCalm
    <3>5. PICK h : h = Check(g, limit <= HubBase, "address")
      OBVIOUS
    <3>6. Goes(s, h) /\ IsState(h)
      BY <1>s, <3>4, <3>5, CheckCalm, GoesCalm DEF Fine
    <3>7. PICK end \in Int : end = limit * 4
      OBVIOUS
    <3>8. Goes(s, [h EXCEPT !.cogLimit = end])
      BY <1>s, <3>6, CogCalm, GoesCalm
    <3> QED
      BY <1>1, <1>3, <1>5, <1>7, <1>9, <1>10, <1>13, <2>2, <2>3, <2>5, <2>7, <2>8, <2>9, <2>12, <3>2, <3>3, <3>5, <3>7, <3>8 DEF ReadOrg
  <2> QED
    BY <2>11, <2>12
<1> QED
  BY <1>12, <1>13

(* ORGH without an operand.                                                *)
LEMMA HubPlainGoes ==
  ASSUME NEW s, Good(s)
  PROVE  Goes(s, HubPlain(s))
<1>s. IsState(s)
  BY DEF Good
<1>1. IsState(s) /\ s.offset \in Int /\ Goes(s, s)
  BY GoesStill DEF Good, IsState
<1>2. PICK origin \in Int : origin = IF s.setting.pasm THEN s.offset ELSE HubBase
  BY <1>1, LimitsAre
<1>3. PICK d : d = HubAt(s, origin)
  OBVIOUS
<1>4. Goes(s, d) /\ IsState(d)
  BY <1>s, <1>1, <1>2, <1>3, HubCalm, GoesCalm
<1>5. HubLimit \in Int
  BY LimitsAre
<1>6. Goes(s, [d EXCEPT !.hubLimit = HubLimit])
  BY <1>s, <1>4, <1>5, CogCalm, GoesCalm
<1> QED
  BY <1>2, <1>3, <1>6 DEF HubPlain

(* ORGH with an origin.                                                    *)
LEMMA HubBasedGoes ==
  ASSUME NEW s, Good(s), NEW x \in Exps
  PROVE  Goes(s, HubBased(s, x))
<1>s. IsState(s)
  BY DEF Good
<1>1. IsState(s) /\ Goes(s, s)
  BY GoesStill DEF Good
<1>2. PICK base \in Int : base = Value(s, x)
  BY <1>1, ValueInt
<1>3. PICK e : e = Origin(s, x)
  OBVIOUS
<1>4. Goes(s, e) /\ IsState(e)
  BY <1>s, <1>1, <1>3, GetValueCalm, GoesCalm
<1>5. PICK high : high = Check(e, s.setting.pasm \/ base >= HubBase, "low")
  OBVIOUS
<1>6. Goes(s, high) /\ IsState(high)
  BY <1>s, <1>4, <1>5, CheckCalm, GoesCalm DEF Fine
<1>7. PICK f : f = Check(high, base <= ObjLimit, "address")
  OBVIOUS
<1>8. Goes(s, f) /\ IsState(f)
  BY <1>s, <1>6, <1>7, CheckCalm, GoesCalm DEF Fine
<1>9. Goes(s, HubAt(f, base))
  BY <1>s, <1>8, HubCalm, GoesCalm
<1> QED
  BY <1>2, <1>3, <1>5, <1>7, <1>9 DEF HubBased

(* ORGH with an origin and a limit.                                        *)
LEMMA HubLimitedGoes ==
  ASSUME NEW s, Good(s), NEW x \in Exps, NEW base
  PROVE  Goes(s, HubLimited(s, x, base))
<1>s. IsState(s)
  BY DEF Good
<1>1. IsState(s) /\ Goes(s, s)
  BY GoesStill DEF Good
<1>2. PICK limit \in Int : limit = Value(s, x)
  BY <1>1, ValueInt
<1>3. PICK g : g = Origin(s, x)
  OBVIOUS
<1>4. Goes(s, g) /\ IsState(g)
  BY <1>s, <1>1, <1>3, GetValueCalm, GoesCalm
<1>5. PICK h : h = Check(g, base <= limit /\ limit <= HubLimit, "address")
  OBVIOUS
<1>6. Goes(s, h) /\ IsState(h)
  BY <1>s, <1>4, <1>5, CheckCalm, GoesCalm DEF Fine
<1>7. Goes(s, [h EXCEPT !.hubLimit = limit])
  BY <1>s, <1>6, CogCalm, GoesCalm
<1> QED
  BY <1>2, <1>3, <1>5, <1>7 DEF HubLimited

(* The bytes that ORGH fills up to its origin.                             *)
LEMMA FillUpGoes ==
  ASSUME NEW s, Good(s), NEW n \in Int
  PROVE  Goes(s, FillUp(s, n))
<1>s. IsState(s)
  BY DEF Good
<1>1. IsState(s) /\ Goes(s, s)
  BY GoesStill DEF Good
<1>2. PICK g : g = Check(s, n >= 0, "decreases")
  OBVIOUS
<1>3. Goes(s, g) /\ IsState(g)
  BY <1>s, <1>1, <1>2, CheckCalm, GoesCalm DEF Fine
<1>4. PICK o \in Int : o = g.hubOrg - n
  BY <1>3 DEF IsState
<1>5. PICK h : h = [g EXCEPT !.hubOrg = o]
  OBVIOUS
<1>6. Goes(s, h) /\ IsState(h)
  BY <1>s, <1>3, <1>5, CogCalm, GoesCalm
<1>7. PICK m \in Int : Put(h, EnterData(h, [op |-> "fill"], n), m, "filler")
  BY <1>6, FilledPuts DEF Fillers
<1>8. "filler" \in {"code", "filler"}
  OBVIOUS
<1>9. Goes(s, EnterData(h, [op |-> "fill"], n))
  BY <1>s, <1>6, <1>7, <1>8, GoesPut
<1>10. h = [g EXCEPT !.hubOrg = @ - n]
  BY <1>4, <1>5
<1> QED
  BY <1>2, <1>9, <1>10 DEF FillUp

(* A line with ORGH.                                                       *)
LEMMA OrghGoes ==
  ASSUME NEW s, Good(s), NEW line \in Lines
  PROVE  Goes(s, ReadOrgh(s, line))
<1>s. IsState(s)
  BY DEF Good
<1>1. PICK a : a = Begin(s, line)
  OBVIOUS
<1>2. Goes(s, a) /\ IsState(a)
  BY <1>1, BeginCalm, CalmGoes, GoesState DEF Good
<1>3. PICK c : c = Check(a, ~Inline(s), "inline")
  OBVIOUS
<1>4. Goes(s, c) /\ IsState(c)
  BY <1>s, <1>2, <1>3, CheckCalm, GoesCalm DEF Fine
<1>5. PICK b : b = ErrorIfSymbol(c, line)
  OBVIOUS
<1>6. Goes(s, b) /\ IsState(b) /\ Good(b)
  BY <1>s, <1>4, <1>5, ErrorIfCalm, GoesCalm, GoesState
<1>7. PICK plain : plain = HubPlain(b)
  OBVIOUS
<1>8. Goes(s, plain) /\ IsState(plain) /\ Good(plain)
  BY <1>s, <1>6, <1>7, HubPlainGoes, GoesThen, GoesState
<1>9. CASE line.org = <<>>
  BY <1>1, <1>3, <1>5, <1>7, <1>8, <1>9 DEF ReadOrgh
<1>10. CASE line.org # <<>>
  <2>1. line.org[1] \in Exps /\ (Len(line.org) # 1 => line.org[2] \in Exps)
    BY <1>10, LineIs, TwoAre
  <2>2. PICK base \in Int : base = Value(plain, line.org[1])
    BY <1>8, <2>1, ValueInt
  <2>3. PICK based : based = HubBased(plain, line.org[1])
    OBVIOUS
  <2>4. Goes(s, based) /\ Good(based)
    BY <1>s, <1>8, <2>1, <2>3, HubBasedGoes, GoesThen, GoesState
  <2>5. PICK stated : stated = IF Len(line.org) = 1 THEN based ELSE HubLimited(based, line.org[2], base)
    OBVIOUS
  <2>6. Goes(s, stated) /\ Good(stated)
    <3>1. CASE Len(line.org) = 1
      BY <2>4, <2>5, <3>1
    <3>2. CASE Len(line.org) # 1
      <4>1. Goes(based, HubLimited(based, line.org[2], base))
        BY <2>1, <2>4, <3>2, HubLimitedGoes
      <4> QED
        BY <1>s, <2>4, <2>5, <3>2, <4>1, GoesThen, GoesState
    <3> QED
      BY <3>1, <3>2
  <2>7. PICK n \in Int : n = base - b.offset
    BY <1>6 DEF IsState
  <2>8. Goes(s, FillUp(stated, n))
    BY <1>s, <2>6, FillUpGoes, GoesThen
  <2>9. ReadOrgh(s, line) = IF s.setting.pasm THEN FillUp(stated, n) ELSE stated
    BY <1>1, <1>3, <1>5, <1>7, <1>10, <2>2, <2>3, <2>5, <2>7 DEF ReadOrgh
  <2> QED
    BY <2>6, <2>8, <2>9
<1> QED
  BY <1>9, <1>10

\* what is put last
LastOp(s) == s.image[Len(s.image)].what.op

(* The line behind inline code: no DITTO block is open, and the last       *)
(* instruction returns.                                                    *)
LEMMA EndGoes ==
  ASSUME NEW s, Good(s), NEW line \in Lines, NEW t, t = ReadEnd(s, line)
  PROVE  Goes(s, t) /\ (t.err = Fine => ~t.ditto.on /\ t.image # <<>> /\ LastOp(t) = "ret")
<1>s. IsState(s)
  BY DEF Good
<1>1. PICK a : a = Begin(s, line)
  OBVIOUS
<1>2. Goes(s, a) /\ IsState(a) /\ Calm(s, a)
  BY <1>1, BeginCalm, CalmGoes, GoesState DEF Good
<1>3. PICK b : b = Check(a, Inline(s) /\ ~s.ditto.on, "end")
  OBVIOUS
<1>4. Goes(s, b) /\ IsState(b) /\ Calm(a, b)
  BY <1>s, <1>2, <1>3, CheckCalm, GoesCalm DEF Fine
<1>5. PICK what : what = [op |-> "ret", cond |-> "always"]
  OBVIOUS
<1>6. what.op = "ret" /\ what.op # "debug" /\ what.op \notin Fillers /\ 4 \in Nat \ {0}
  BY <1>5 DEF Fillers
<1>7. t = EnterData(b, what, 4)
  BY <1>1, <1>3, <1>5 DEF ReadEnd
<1>8. Put(b, t, 4, "code")
  BY <1>4, <1>6, <1>7, Entered
<1>9. Goes(s, t) /\ IsState(t)
  BY <1>s, <1>4, <1>8, GoesPut
<1>10. ASSUME t.err = Fine PROVE ~t.ditto.on /\ t.image # <<>> /\ LastOp(t) = "ret"
  <2>1. b.err = Fine /\ t.ditto = b.ditto /\ Grown(b, t, "code") /\ Moved(b, t, 4)
    BY <1>8, <1>10 DEF Put, Same
  <2>2. b.ditto = a.ditto /\ a.ditto = s.ditto /\ a.err = Fine
    BY <1>2, <1>4, <2>1 DEF Calm, Quiet
  <2>3. ~s.ditto.on
    BY <1>3, <2>1, <2>2 DEF Check, Fail, Fine
  <2>4. PICK S : b.image \in Seq(S)
    BY <1>4 DEF IsState
  <2>5. PICK c : c = [line |-> b.at, scope |-> b.scope, what |-> what, size |-> 4, offset |-> b.offset, org |-> Here(b), hub |-> b.hub]
    OBVIOUS
  <2>6. PICK q : q = Append(b.image, c)
    OBVIOUS
  <2>7. q # <<>> /\ q[Len(q)] = c /\ c.what = what
    BY <2>4, <2>5, <2>6
  <2>8. PICK e : e = [b EXCEPT !.offset = @ + 4, !.image = q]
    OBVIOUS
  <2>9. PICK w : w = IF e.hub THEN [e EXCEPT !.hubOrg = @ + 4] ELSE [e EXCEPT !.cogOrg = @ + 4]
    OBVIOUS
  <2>10. t = Check(w, Here(w) <= IF w.hub THEN w.hubLimit ELSE w.cogLimit, "limit")
    <3>1. EnterData(b, what, 4) = Advance(e, 4)
      BY <2>1, <2>5, <2>6, <2>8 DEF EnterData
    <3> QED
      BY <1>7, <2>9, <3>1 DEF Advance
  <2>11. DOMAIN b = Fields
    BY <1>4 DEF IsState
  <2>12. e.image = q /\ DOMAIN e = Fields
    BY <2>8, <2>11 DEF Fields
  <2>13. w.image = q
    BY <2>9, <2>12 DEF Fields
  <2>14. t.image = q
    BY <1>10, <2>9, <2>10, <2>12, <2>13 DEF Check, Fail, Fields
  <2> QED
    BY <1>6, <2>1, <2>2, <2>3, <2>7, <2>14 DEF LastOp
<1> QED
  BY <1>9, <1>10
-----------------------------------------------------------------------------
(* The steps.                                                              *)

Stepped(t) == [t EXCEPT !.at = IF t.err = Fine THEN @ + 1 ELSE @]
\* the state after a line is read: it is good, and is at the next line at most
Steps(s, u) ==
  /\ Good(u) /\ u.setting = s.setting /\ u.pass = s.pass
  /\ u.err = Fine => s.err = Fine /\ u.at <= s.at + 1 /\ Kin(s, u) /\ Within(s.labels, u.labels)

(* What holds of an image holds of the same image in another state.        *)
LEMMA SameImage ==
  ASSUME NEW s, NEW t, Contiguous(s), t.image = s.image, t.sites = s.sites, t.offset = s.offset, t.setting = s.setting
  PROVE  Contiguous(t) /\ \A k : EndAt(t, k) = EndAt(s, k)
<1>1. \A k : EndAt(t, k) = EndAt(s, k)
  BY DEF EndAt
<1> QED
  BY <1>1 DEF Contiguous, Sited

(* Going on to the next line changes the line number alone.                *)
LEMMA SteppedIs ==
  ASSUME NEW t, IsState(t), NEW u, u = Stepped(t)
  PROVE  /\ IsState(u) /\ u.setting = t.setting /\ u.pass = t.pass /\ u.err = t.err /\ u.ditto = t.ditto
         /\ u.image = t.image /\ u.sites = t.sites /\ u.offset = t.offset /\ u.labels = t.labels
         /\ u.at = IF t.err = Fine THEN t.at + 1 ELSE t.at
<1>1. PICK n \in Int : n = IF t.err = Fine THEN t.at + 1 ELSE t.at
  BY DEF IsState
<1>2. u = [t EXCEPT !.at = n]
  BY <1>1 DEF Stepped
<1> QED
  BY <1>1, <1>2 DEF IsState, Fields

(* So it leaves the image whole.                                           *)
LEMMA SteppedGood ==
  ASSUME NEW t, Good(t)
  PROVE  Good(Stepped(t))
<1>1. PICK u : u = Stepped(t)
  OBVIOUS
<1>2. IsState(t)
  BY DEF Good
<1>3. /\ IsState(u) /\ u.setting = t.setting /\ u.pass = t.pass /\ u.err = t.err /\ u.ditto = t.ditto
      /\ u.image = t.image /\ u.sites = t.sites /\ u.offset = t.offset
      /\ u.at = IF t.err = Fine THEN t.at + 1 ELSE t.at
  BY <1>1, <1>2, SteppedIs
<1>4. ASSUME u.err = Fine PROVE u.at >= 1 /\ Contiguous(u) /\ DittoOpen(u)
  <2>1. t.at >= 1 /\ Contiguous(t) /\ DittoOpen(t) /\ u.at = t.at + 1 /\ t.at \in Int
    BY <1>2, <1>3, <1>4 DEF Good, IsState
  <2>2. Contiguous(u) /\ \A k : EndAt(u, k) = EndAt(t, k)
    BY <1>3, <2>1, SameImage
  <2>3. DittoOpen(u)
    BY <1>3, <2>1, <2>2 DEF DittoOpen
  <2> QED
    BY <2>1, <2>2, <2>3
<1> QED
  BY <1>1, <1>3, <1>4 DEF Good

(* A step within a line, and on to the next.                               *)
LEMMA GoesSteps ==
  ASSUME NEW s, NEW t, Goes(s, t)
  PROVE  Steps(s, Stepped(t))
<1>1. Good(t) /\ IsState(t)
  BY GoesState
<1>2. PICK u : u = Stepped(t)
  OBVIOUS
<1>3. Good(u)
  BY <1>1, <1>2, SteppedGood
<1>4. /\ u.setting = t.setting /\ u.pass = t.pass /\ u.err = t.err /\ u.at = IF t.err = Fine THEN t.at + 1 ELSE t.at
      /\ u.image = t.image /\ u.labels = t.labels
  BY <1>1, <1>2, SteppedIs
<1>5. t.at \in Int
  BY <1>1 DEF IsState
<1>6. u.err = Fine => Kin(s, u)
  BY <1>4, KinImage DEF Goes
<1> QED
  BY <1>2, <1>3, <1>4, <1>5, <1>6 DEF Steps, Goes

(* A line with DITTO: the block begins where the image ends.               *)
LEMMA DittoSteps ==
  ASSUME NEW s, Good(s), NEW line \in Lines
  PROVE  Steps(s, Stepped(ReadDitto(s, line)))
<1>s. IsState(s)
  BY DEF Good
<1>1. PICK a : a = Begin(s, line)
  OBVIOUS
<1>2. Goes(s, a) /\ IsState(a)
  BY <1>1, BeginCalm, CalmGoes, GoesState DEF Good
<1>3. PICK b : b = EnterDatSymbol(a, line, 2)
  OBVIOUS
<1>4. Goes(s, b) /\ IsState(b)
  BY <1>s, <1>2, <1>3, SymbolCalm, GoesCalm
<1>5. CASE s.ditto.on
  <2>1. ReadDitto(s, line) = Check(b, FALSE, "end")
    BY <1>1, <1>3, <1>5 DEF ReadDitto, Check
  <2>2. Goes(s, Check(b, FALSE, "end"))
    BY <1>s, <1>4, CheckCalm, GoesCalm DEF Fine
  <2> QED
    BY <2>1, <2>2, GoesSteps
<1>6. CASE ~s.ditto.on
  <2>1. PICK v \in Int : v = Value(b, line.exp)
    BY <1>4, LineIs, ValueInt
  <2>2. PICK c : c = Origin(b, line.exp)
    OBVIOUS
  <2>3. Goes(s, c) /\ IsState(c) /\ Calm(b, c)
    BY <1>s, <1>4, <2>2, GetValueCalm, GoesCalm
  <2>4. PICK e : e = Check(c, v >= 0, "count")
    OBVIOUS
  <2>5. Goes(s, e) /\ IsState(e) /\ Calm(c, e)
    BY <1>s, <2>3, <2>4, CheckCalm, GoesCalm DEF Fine
  <2>6. PICK d : d = [on |-> TRUE, index |-> 0, count |-> v, at |-> s.at + 1, offset |-> b.offset]
    OBVIOUS
  <2>7. s.at \in Int /\ b.offset \in Int /\ e.at \in Int
    BY <1>4, <2>5 DEF Good, IsState
  <2>8. IsDitto(d)
    BY <2>1, <2>6, <2>7 DEF IsDitto
  <2>9. ReadDitto(s, line) = [e EXCEPT !.ditto = d]
    BY <1>1, <1>3, <1>6, <2>1, <2>2, <2>4, <2>6 DEF ReadDitto
  <2>10. PICK t : t = [e EXCEPT !.ditto = d]
    OBVIOUS
  <2>11. /\ IsState(t) /\ t.setting = e.setting /\ t.pass = e.pass /\ t.err = e.err /\ t.ditto = d
         /\ t.image = e.image /\ t.sites = e.sites /\ t.offset = e.offset /\ t.at = e.at /\ t.labels = e.labels
    BY <2>5, <2>8, <2>10 DEF IsState, Fields
  <2>12. PICK u : u = Stepped(t)
    OBVIOUS
  <2>13. /\ IsState(u) /\ u.setting = e.setting /\ u.pass = e.pass /\ u.err = e.err /\ u.ditto = d
         /\ u.image = e.image /\ u.sites = e.sites /\ u.offset = e.offset /\ u.at = IF e.err = Fine THEN e.at + 1 ELSE e.at
         /\ u.labels = e.labels
    BY <2>11, <2>12, SteppedIs
  <2>14. ASSUME u.err = Fine PROVE s.err = Fine /\ u.at = s.at + 1 /\ u.at >= 1 /\ Contiguous(u) /\ DittoOpen(u)
    <3>1. e.err = Fine /\ e.at = s.at /\ s.err = Fine
      BY <2>5, <2>13, <2>14 DEF Goes
    <3>2. s.at >= 1 /\ u.at = s.at + 1
      BY <2>13, <3>1 DEF Good
    <3>3. Contiguous(e)
      BY <2>5, <3>1 DEF Goes, Good
    <3>4. Contiguous(u)
      BY <2>13, <3>3, SameImage
    <3>5. e.offset = b.offset
      BY <2>3, <2>5, <3>1 DEF Calm, Quiet
    <3>6. u.offset = EndAt(u, Len(u.image))
      BY <3>4 DEF Contiguous
    <3>7. Len(u.image) \in 0..Len(u.image)
      <4>1. Len(u.image) \in Nat
        BY <2>13 DEF IsState
      <4> QED
        BY <4>1
    <3>8. DittoOpen(u)
      BY <2>6, <2>7, <2>13, <3>2, <3>5, <3>6, <3>7 DEF DittoOpen
    <3> QED
      BY <2>7, <3>1, <3>2, <3>4, <3>8
  <2>15. Good(u)
    BY <2>13, <2>14 DEF Good
  <2>16. Steps(s, u)
    <3>1. u.err = Fine => Kin(s, u) /\ Within(s.labels, u.labels)
      BY <2>5, <2>13, KinImage DEF Goes
    <3> QED
      BY <2>5, <2>7, <2>13, <2>14, <2>15, <3>1 DEF Steps, Goes
  <2> QED
    BY <2>9, <2>10, <2>12, <2>16
<1> QED
  BY <1>5, <1>6

(* Of the pieces of an image at most all stand before a place.             *)
LEMMA FewerThan ==
  ASSUME NEW S, NEW q \in Seq(S), NEW P
  PROVE  LET c == Cardinality({x \in DOMAIN q : q[x].offset < P}) IN c \in Nat /\ c <= Len(q)
<1>1. PICK n \in Nat : n = Len(q) /\ DOMAIN q = 1..n
  OBVIOUS
<1>2. PICK T : T = {x \in DOMAIN q : q[x].offset < P}
  OBVIOUS
<1>3. T \subseteq 1..n
  BY <1>1, <1>2
<1>4. 1 \in Int /\ n \in Int
  OBVIOUS
<1>5. IsFiniteSet(1..n) /\ Cardinality(1..n) = IF 1 > n THEN 0 ELSE n-1+1
  BY <1>4, FS_Interval, Zenon
<1>6. IsFiniteSet(T) /\ Cardinality(T) <= Cardinality(1..n)
  BY <1>3, <1>5, FS_Subset
<1>7. Cardinality(T) \in Nat
  BY <1>6, FS_CardinalityType
<1> QED
  BY <1>1, <1>2, <1>5, <1>6, <1>7

(* A line with DITTO END: the block is assembled again, or left, or taken  *)
(* back whole if its count is 0.                                           *)
LEMMA DittoEndSteps ==
  ASSUME NEW s, Good(s), s.err = Fine, NEW line \in Lines
  PROVE  Steps(s, Stepped(ReadDittoEnd(s, line)))
<1>s. IsState(s)
  BY DEF Good
<1>1. PICK b : b = Begin(s, line)
  OBVIOUS
<1>2. Goes(s, b) /\ IsState(b) /\ Calm(s, b) /\ Good(b)
  BY <1>1, BeginCalm, CalmGoes, GoesState DEF Good
<1>3. CASE ~s.ditto.on
  <2>1. ReadDittoEnd(s, line) = Check(b, FALSE, "end")
    BY <1>1, <1>3 DEF ReadDittoEnd, Check
  <2>2. Goes(s, Check(b, FALSE, "end"))
    BY <1>s, <1>2, CheckCalm, GoesCalm DEF Fine
  <2> QED
    BY <2>1, <2>2, GoesSteps
<1>4. CASE s.ditto.on /\ s.ditto.count > 0 /\ DittoRepeated(s)
  <2>1. IsState(s) /\ s.ditto.at \in 1..s.at /\ s.at \in Int /\ IsDitto(b.ditto)
    BY <1>2, <1>4 DEF Good, DittoOpen, IsState
  <2>2. PICK d : d = [b.ditto EXCEPT !.index = @ + 1]
    OBVIOUS
  <2>3. IsDitto(d) /\ d.on = b.ditto.on /\ d.at = b.ditto.at /\ d.offset = b.ditto.offset
    BY <2>1, <2>2 DEF IsDitto
  <2>4. PICK n \in Int : n = s.ditto.at - 1
    BY <2>1
  <2>5. PICK t : t = [b EXCEPT !.ditto = d, !.at = n]
    OBVIOUS
  <2>6. ReadDittoEnd(s, line) = t
    BY <1>1, <1>4, <2>2, <2>4, <2>5 DEF ReadDittoEnd
  <2>7. /\ IsState(t) /\ t.setting = b.setting /\ t.pass = b.pass /\ t.err = b.err /\ t.ditto = d
        /\ t.image = b.image /\ t.sites = b.sites /\ t.offset = b.offset /\ t.at = n /\ t.labels = b.labels
    BY <1>2, <2>3, <2>5 DEF IsState, Fields
  <2>8. PICK u : u = Stepped(t)
    OBVIOUS
  <2>9. /\ IsState(u) /\ u.setting = b.setting /\ u.pass = b.pass /\ u.err = b.err /\ u.ditto = d
        /\ u.image = b.image /\ u.sites = b.sites /\ u.offset = b.offset /\ u.at = IF b.err = Fine THEN n + 1 ELSE n
        /\ u.labels = b.labels
    BY <2>7, <2>8, SteppedIs
  <2>10. ASSUME u.err = Fine PROVE u.at <= s.at + 1 /\ u.at >= 1 /\ Contiguous(u) /\ DittoOpen(u)
    <3>1. b.err = Fine /\ b.ditto = s.ditto /\ Contiguous(b) /\ DittoOpen(b)
      BY <1>2, <2>9, <2>10 DEF Calm, Quiet, Good
    <3>2. u.at = s.ditto.at
      BY <2>1, <2>4, <2>9, <3>1
    <3>3. Contiguous(u) /\ \A k : EndAt(u, k) = EndAt(b, k)
      BY <2>9, <3>1, SameImage
    <3>4. \E k \in 0..Len(b.image) : b.ditto.offset = EndAt(b, k)
      BY <1>4, <3>1 DEF DittoOpen
    <3>5. DittoOpen(u)
      BY <2>1, <2>3, <2>9, <3>1, <3>2, <3>3, <3>4 DEF DittoOpen
    <3> QED
      BY <2>1, <3>2, <3>3, <3>5
  <2>11. Good(u)
    BY <2>9, <2>10 DEF Good
  <2>12. Steps(s, u)
    <3>1. u.err = Fine => Kin(s, u) /\ Within(s.labels, u.labels)
      BY <1>2, <2>9, KinImage DEF Goes
    <3> QED
      BY <1>2, <2>9, <2>10, <2>11, <3>1 DEF Steps, Goes
  <2> QED
    BY <2>6, <2>8, <2>12
<1>5. CASE s.ditto.on /\ ~(s.ditto.count > 0 /\ DittoRepeated(s))
  <2>1. PICK dropped : dropped = IF s.ditto.count = 0 THEN SetOffset(b, s.ditto.offset) ELSE b
    OBVIOUS
  <2>2. PICK t : t = [dropped EXCEPT !.ditto = NoDitto]
    OBVIOUS
  <2>3. ReadDittoEnd(s, line) = EnterDatSymbol(t, line, 2)
    BY <1>1, <1>5, <2>1, <2>2 DEF ReadDittoEnd
  <2>4. Goes(s, t)
    <3>1. CASE s.ditto.count = 0 /\ b.err = Fine
      <4>1. b.ditto = s.ditto /\ DittoOpen(b)
        BY <1>2, <3>1 DEF Calm, Quiet, Good
      <4>2. PICK k \in 0..Len(b.image) : s.ditto.offset = EndAt(b, k)
        BY <1>5, <4>1 DEF DittoOpen
      <4>a. PICK o : o = s.ditto.offset
        OBVIOUS
      <4>3. dropped = SetOffset(b, o) /\ t = [dropped EXCEPT !.ditto = NoDitto] /\ \E x \in 0..Len(b.image) : o = EndAt(b, x)
        BY <2>1, <2>2, <3>1, <4>a, <4>2
      <4>6. Good(b) /\ b.err = Fine /\ (\E x \in 0..Len(b.image) : o = EndAt(b, x))
        BY <1>2, <3>1, <4>3
      <4>7. IsTaken(b, o, t)
        BY <4>3 DEF IsTaken
      <4>4. Good(t) /\ t.setting = b.setting /\ t.pass = b.pass /\ t.at = b.at /\ t.err = Fine /\ Kin(b, t) /\ t.labels = b.labels
        BY <4>6, <4>7, TakenBack, Zenon
      <4>5. Goes(b, t)
        BY <3>1, <4>4 DEF Goes, Within
      <4> QED
        BY <1>s, <1>2, <4>5, GoesThen
    <3>2. CASE s.ditto.count # 0
      <4>1. t = [b EXCEPT !.ditto = NoDitto]
        BY <2>1, <2>2, <3>2
      <4>2. IsDitto(NoDitto) /\ ~NoDitto.on
        BY DEF IsDitto, NoDitto
      <4>7. DOMAIN t = Fields /\ t.ditto = NoDitto /\ \A x \in Fields \ {"ditto"} : t[x] = b[x]
        BY <1>2, <4>1 DEF IsState, Fields
      <4>8. /\ t.setting = b.setting /\ t.pass = b.pass /\ t.at = b.at /\ t.hub = b.hub /\ t.scope = b.scope
            /\ t.cogOrg = b.cogOrg /\ t.cogLimit = b.cogLimit /\ t.hubOrg = b.hubOrg /\ t.hubLimit = b.hubLimit
            /\ t.orghOffset = b.orghOffset /\ t.labels = b.labels /\ t.err = b.err
            /\ t.offset = b.offset /\ t.image = b.image /\ t.sites = b.sites
        BY <4>7 DEF Fields
      <4>9. IsState(t)
        BY <1>2, <4>2, <4>7, <4>8 DEF IsState
      <4>3. Quiet(b, t) /\ t.ditto = NoDitto /\ t.labels = b.labels /\ t.image = b.image
        BY <4>7, <4>8, <4>9 DEF Quiet
      <4>4. DittoOpen(t)
        BY <4>2, <4>3 DEF DittoOpen
      <4>5. Good(t)
        BY <1>2, <4>3, <4>4, QuietGood
      <4>6. Goes(b, t)
        BY <1>2, <4>3, <4>5, KinSame DEF Goes, Quiet, Within
      <4> QED
        BY <1>s, <1>2, <4>6, GoesThen
    <3>3. CASE s.ditto.count = 0 /\ b.err # Fine
      <4>1. PICK c : c = Cardinality({x \in DOMAIN b.image : b.image[x].offset < s.ditto.offset})
        OBVIOUS
      <4>2. PICK S : b.image \in Seq(S)
        BY <1>2 DEF IsState
      <4>3. c \in Nat /\ c <= Len(b.image)
        BY <4>1, <4>2, FewerThan
      <4>4. PICK q : q = SubSeq(b.image, 1, c)
        OBVIOUS
      <4>5. q \in Seq(S)
        BY <4>2, <4>3, <4>4
      <4>6. PICK w : w = {at \in b.sites : at < s.ditto.offset}
        OBVIOUS
      <4>7. PICK o \in Int : o = s.ditto.offset
        BY DEF Good, IsState, IsDitto
      <4>8. PICK e : e = [b EXCEPT !.offset = o, !.image = q]
        OBVIOUS
      <4>9. DOMAIN e = Fields /\ e.sites = b.sites
        BY <1>2, <4>8 DEF IsState, Fields
      <4>10. SetOffset(b, o) = [e EXCEPT !.sites = w]
        BY <4>1, <4>4, <4>6, <4>7, <4>8, <4>9 DEF SetOffset, Before
      <4>11. t = [[e EXCEPT !.sites = w] EXCEPT !.ditto = NoDitto]
        BY <2>1, <2>2, <3>3, <4>7, <4>10
      <4>12. /\ DOMAIN t = Fields /\ t.offset = o /\ t.image = q /\ t.ditto = NoDitto
             /\ \A x \in Fields \ {"offset", "image", "sites", "ditto"} : t[x] = b[x]
        BY <1>2, <4>8, <4>9, <4>11 DEF IsState, Fields
      <4>13. /\ t.setting = b.setting /\ t.pass = b.pass /\ t.at = b.at /\ t.hub = b.hub /\ t.scope = b.scope
             /\ t.cogOrg = b.cogOrg /\ t.cogLimit = b.cogLimit /\ t.hubOrg = b.hubOrg /\ t.hubLimit = b.hubLimit
             /\ t.orghOffset = b.orghOffset /\ t.labels = b.labels /\ t.err = b.err
        BY <4>12 DEF Fields
      <4>14. IsDitto(NoDitto)
        BY DEF IsDitto, NoDitto
      <4>15. IsState(t)
        BY <1>2, <4>5, <4>12, <4>13, <4>14 DEF IsState
      <4> QED
        BY <1>2, <3>3, <4>13, <4>15 DEF Goes, Good
    <3> QED
      BY <3>1, <3>2, <3>3
  <2>5. Goes(s, EnterDatSymbol(t, line, 2))
    BY <1>s, <2>4, GoesState, SymbolCalm, GoesCalm
  <2> QED
    BY <2>3, <2>5, GoesSteps
<1> QED
  BY <1>3, <1>4, <1>5
-----------------------------------------------------------------------------
(* The image is whole.                                                     *)

\* what the interpreter loads of an inline block
Loaded(s) ==
  /\ s.image # <<>> /\ LastOp(s) = "ret"
  /\ 4 * (IF s.setting.inline = "org" THEN s.length + 1 ELSE s.length) \in s.offset - s.setting.start..s.offset - s.setting.start + 3
Sound(l, s) ==
  /\ Good(s)
  /\ s.err = Fine =>
       /\ Inline(s) /\ l # <<>> /\ l[Len(l)].t = "end" /\ s.at > Len(l) => s.image # <<>> /\ LastOp(s) = "ret"
       /\ s.pass = 3 /\ Inline(s) => Loaded(s)

(* Every line but the one behind inline code leaves the image whole.       *)
LEMMA OtherLine ==
  ASSUME NEW l \in Seq(Lines), NEW s, NEW u, Sound(l, s), s.err = Fine, s.pass < 3, s.at <= Len(l), l[s.at].t # "end", Steps(s, u)
  PROVE  Sound(l, u)
<1>1. Good(u) /\ u.setting = s.setting /\ u.pass = s.pass /\ (u.err = Fine => u.at <= s.at + 1)
  BY DEF Steps
<1>2. ASSUME u.err = Fine, l # <<>>, l[Len(l)].t = "end", u.at > Len(l) PROVE FALSE
  <2>1. s.at \in Int /\ u.at \in Int /\ Len(l) \in Nat
    BY <1>1 DEF Sound, Good, IsState
  <2>2. s.at = Len(l)
    BY <1>1, <1>2, <2>1
  <2> QED
    BY <1>2, <2>2
<1>3. u.pass # 3
  BY <1>1
<1> QED
  BY <1>1, <1>2, <1>3 DEF Sound

(* So does that one, and what is behind it is the length of inline code.   *)
LEMMA EndLine ==
  ASSUME NEW l \in Seq(Lines), NEW s, NEW t, NEW u, Sound(l, s), s.err = Fine, s.pass < 3, s.at <= Len(l), t = ReadEnd(s, l[s.at]),
         u = Stepped([t EXCEPT !.at = Len(l)])
  PROVE  Sound(l, u)
<1>1. Good(s) /\ s.at >= 1 /\ s.at \in Int
  BY DEF Sound, Good, IsState
<1>2. l[s.at] \in Lines
  BY <1>1
<1>3. Goes(s, t) /\ (t.err = Fine => ~t.ditto.on /\ t.image # <<>> /\ LastOp(t) = "ret")
  BY <1>1, <1>2, EndGoes
<1>4. Good(t) /\ IsState(t) /\ t.pass = s.pass
  BY <1>3, GoesState DEF Goes
<1>5. PICK n \in Nat : n = Len(l) /\ n >= 1
  BY <1>1
<1>6. PICK w : w = [t EXCEPT !.at = n]
  OBVIOUS
<1>7. /\ IsState(w) /\ w.setting = t.setting /\ w.pass = t.pass /\ w.err = t.err /\ w.ditto = t.ditto
      /\ w.image = t.image /\ w.sites = t.sites /\ w.offset = t.offset /\ w.at = n
  BY <1>4, <1>5, <1>6 DEF IsState, Fields
<1>8. Good(w)
  <2>1. ASSUME w.err = Fine PROVE w.at >= 1 /\ Contiguous(w) /\ DittoOpen(w)
    <3>1. Contiguous(t) /\ ~w.ditto.on
      BY <1>3, <1>4, <1>7, <2>1 DEF Good
    <3>2. Contiguous(w)
      BY <1>7, <3>1, SameImage
    <3> QED
      BY <1>5, <1>7, <3>1, <3>2 DEF DittoOpen
  <2> QED
    BY <1>7, <2>1 DEF Good
<1>9. Good(u)
  BY <1>5, <1>6, <1>8, SteppedGood
<1>a. u = Stepped(w)
  BY <1>5, <1>6
<1>10. u.pass = w.pass /\ u.err = w.err /\ u.image = w.image
  BY <1>7, <1>a, SteppedIs
<1>11. u.pass # 3
  BY <1>4, <1>7, <1>10
<1>12. u.err = Fine => u.image # <<>> /\ LastOp(u) = "ret"
  BY <1>3, <1>7, <1>10 DEF LastOp
<1> QED
  BY <1>9, <1>11, <1>12 DEF Sound

(* Every pass starts from an empty image.                                  *)
LEMMA StartGood ==
  ASSUME NEW setting \in Settings, NEW pass \in {1, 2}, NEW labels, \A k \in DOMAIN labels : IsLabel(labels[k]), NEW s, s = StartPass(setting, pass, labels)
  PROVE  Good(s) /\ s.setting = setting /\ s.pass = pass /\ s.at = 1 /\ s.err = Fine
<1>1. setting.inline \in {"no", "org", "orgh"} /\ setting.start \in Nat /\ setting.inlineOrg \in Nat /\ setting.inlineLimit \in Nat
  BY DEF Settings
<1>2. /\ DOMAIN s = Fields /\ s.setting = setting /\ s.pass = pass /\ s.at = 1 /\ s.offset = setting.start /\ s.scope = 0
      /\ s.ditto = NoDitto /\ s.labels = labels /\ s.image = <<>> /\ s.sites = {} /\ s.err = Fine /\ s.hubLimit = HubLimit
  BY DEF StartPass, Fields
<1>3. s.hub = IF setting.inline # "no" THEN setting.inline = "orgh" ELSE TRUE
  BY DEF StartPass
<1>4. s.cogOrg = IF setting.inline # "no" THEN setting.inlineOrg * 4 ELSE 0
  BY DEF StartPass
<1>5. s.cogLimit = IF setting.inline # "no" THEN setting.inlineLimit * 4 ELSE CogLimit * 4
  BY DEF StartPass
<1>6. s.hubOrg = IF setting.inline # "no" THEN HubBase ELSE IF setting.pasm THEN setting.start ELSE HubBase
  BY DEF StartPass
<1>7. s.orghOffset = s.hubOrg - setting.start
  BY <1>6 DEF StartPass
<1>8. s.hub \in BOOLEAN /\ s.cogOrg \in Int /\ s.cogLimit \in Int /\ s.hubOrg \in Int /\ s.hubLimit \in Int /\ s.orghOffset \in Int
  <2>1. s.hub \in BOOLEAN
    BY <1>3
  <2>2. s.cogOrg \in Int
    BY <1>1, <1>4
  <2>3. s.cogLimit \in Int
    BY <1>1, <1>5, LimitsAre
  <2>4. s.hubOrg \in Int
    BY <1>1, <1>6, LimitsAre
  <2>5. s.hubLimit \in Int
    BY <1>2, LimitsAre
  <2>6. s.orghOffset \in Int
    BY <1>1, <1>7, <2>4
  <2> QED
    BY <2>1, <2>2, <2>3, <2>4, <2>5, <2>6
<1>9. IsDitto(s.ditto) /\ ~s.ditto.on
  BY <1>2 DEF IsDitto, NoDitto
<1>10. s.image \in Seq({})
  BY <1>2
<1>11. IsState(s)
  BY <1>1, <1>2, <1>8, <1>9, <1>10 DEF IsState
<1>12. Contiguous(s)
  <2>1. Len(s.image) = 0
    BY <1>2
  <2>2. Sited(s, 1) = {}
    BY <2>1 DEF Sited
  <2>3. EndAt(s, 0) = s.offset
    BY <1>2 DEF EndAt
  <2> QED
    BY <1>2, <2>1, <2>2, <2>3 DEF Contiguous
<1> QED
  BY <1>2, <1>9, <1>11, <1>12 DEF Good, DittoOpen

(* A pass that fails at its end.                                           *)
LEMMA PassFails ==
  ASSUME NEW l, NEW s, NEW e, e # Fine, NEW u, IsState(s), u = [s EXCEPT !.err = e]
  PROVE  Sound(l, u)
<1>1. IsState(u) /\ u.err # Fine
  BY DEF IsState, Fields
<1> QED
  BY <1>1 DEF Sound, Good

(* The second pass starts.                                                 *)
LEMMA PassStarts ==
  ASSUME NEW l, NEW s, NEW u, IsState(s), u = StartPass(s.setting, 2, s.labels), l = <<>> \/ Len(l) \in Nat \ {0}
  PROVE  Sound(l, u)
<1>1. PICK pass \in {1, 2} : pass = 2
  OBVIOUS
<1>2. PICK setting \in Settings : setting = s.setting
  BY DEF IsState
<1>3. PICK labels : labels = s.labels
  OBVIOUS
<1>4. \A k \in DOMAIN labels : IsLabel(labels[k])
  BY <1>3 DEF IsState
<1>5. u = StartPass(setting, pass, labels)
  BY <1>1, <1>2, <1>3
<1>6. Good(u) /\ u.pass = pass /\ u.at = 1
  BY <1>4, <1>5, StartGood
<1>7. l # <<>> => ~(u.at > Len(l))
  BY <1>6
<1> QED
  BY <1>1, <1>6, <1>7 DEF Sound

(* The second pass ends: the image is whole, and inline code is loaded     *)
(* with its return.                                                        *)
LEMMA PassEnds ==
  ASSUME NEW l, NEW s, NEW u, NEW long, Good(s), s.err = Fine, ~s.ditto.on, u = [s EXCEPT !.pass = 3, !.length = long],
         Inline(s) => /\ s.image # <<>> /\ LastOp(s) = "ret"
                      /\ (IF s.setting.inline = "org" THEN long + 1 ELSE long) = (s.offset - s.setting.start + 3) \div 4
  PROVE  Sound(l, u)
<1>1. IsState(s) /\ Contiguous(s) /\ s.at >= 1
  BY DEF Good
<1>2. DOMAIN u = Fields /\ u.pass = 3 /\ u.length = long /\ \A x \in Fields \ {"pass", "length"} : u[x] = s[x]
  BY <1>1 DEF IsState, Fields
<1>3. /\ u.setting = s.setting /\ u.at = s.at /\ u.hub = s.hub /\ u.scope = s.scope /\ u.offset = s.offset
      /\ u.cogOrg = s.cogOrg /\ u.cogLimit = s.cogLimit /\ u.hubOrg = s.hubOrg /\ u.hubLimit = s.hubLimit
      /\ u.orghOffset = s.orghOffset /\ u.ditto = s.ditto /\ u.labels = s.labels /\ u.image = s.image /\ u.sites = s.sites /\ u.err = s.err
  BY <1>2 DEF Fields
<1>4. IsState(u)
  BY <1>1, <1>2, <1>3 DEF IsState
<1>5. Contiguous(u)
  BY <1>1, <1>3, SameImage
<1>6. Good(u)
  BY <1>1, <1>3, <1>4, <1>5 DEF Good, DittoOpen
<1>7. ASSUME Inline(u) PROVE Loaded(u)
  <2>1. PICK n \in Int : n = s.offset - s.setting.start
    BY <1>1 DEF IsState, Settings
  <2>2. Inline(s)
    BY <1>3, <1>7 DEF Inline
  <2>3. u.image # <<>> /\ LastOp(u) = "ret"
    BY <1>3, <2>2 DEF LastOp
  <2>4. (IF s.setting.inline = "org" THEN long + 1 ELSE long) = (n + 3) \div 4
    BY <2>1, <2>2
  <2>5. 4 * ((n + 3) \div 4) \in n..n + 3
    BY <2>1
  <2> QED
    BY <1>2, <1>3, <2>1, <2>3, <2>4, <2>5 DEF Loaded
<1>8. Inline(u) => u.image # <<>> /\ LastOp(u) = "ret"
  BY <1>7 DEF Loaded
<1> QED
  BY <1>6, <1>7, <1>8 DEF Sound

-----------------------------------------------------------------------------
(* The two passes side by side.                                            *)

Places(p, q) ==
  /\ q.at = p.at /\ q.offset = p.offset /\ q.hub = p.hub /\ q.cogOrg = p.cogOrg /\ q.hubOrg = p.hubOrg
  /\ q.orghOffset = p.orghOffset /\ q.scope = p.scope /\ q.ditto = p.ditto
\* from s to t nothing moves
Rests(s, t) ==
  /\ IsState(t) /\ t.setting = s.setting /\ t.pass = s.pass
  /\ t.err = Fine => s.err = Fine /\ Places(s, t) /\ Within(s.labels, t.labels)
\* p is in the first pass, q in the second one, which knows at least the labels f
Twins(p, q, f) ==
  /\ IsState(p) /\ IsState(q) /\ q.setting = p.setting /\ p.pass = 1 /\ q.pass = 2
  /\ p.err = Fine /\ q.err = Fine /\ Within(p.labels, f) => Places(p, q) /\ Within(f, q.labels)

\* neither has failed, and f has what the first pass knows
Both(p, q, f) == p.err = Fine /\ q.err = Fine /\ Within(p.labels, f)

(* What is left alone rests.                                               *)
LEMMA RestsStill ==
  ASSUME NEW s, IsState(s)
  PROVE  Rests(s, s)
BY DEF Rests, Places, Within

(* Two steps that move nothing are one.                                    *)
LEMMA RestsThen ==
  ASSUME NEW s, NEW t, NEW u, Rests(s, t), Rests(t, u)
  PROVE  Rests(s, u)
BY WithinThen DEF Rests, Places

(* A check moves nothing.                                                  *)
LEMMA RestsCheck ==
  ASSUME NEW s, IsState(s), NEW ok, NEW e, e # Fine
  PROVE  Rests(s, Check(s, ok, e))
BY CheckIs DEF Rests, Places, Within

(* Neither does an expression that is evaluated (getValue).                *)
LEMMA RestsGet ==
  ASSUME NEW s, IsState(s), NEW e, NEW must
  PROVE  Rests(s, GetValue(s, e, must)) /\ Rests(s, Origin(s, e))
BY RestsCheck DEF GetValue, Origin, Fine

(* Nor a check that a line has no label (errorIfSymbol).                   *)
LEMMA RestsErrorIf ==
  ASSUME NEW s, IsState(s), NEW line
  PROVE  Rests(s, ErrorIfSymbol(s, line))
BY RestsCheck DEF ErrorIfSymbol, Fine

(* A label that is entered moves nothing, and those there are stay as      *)
(* they are (enterDatSymbol).                                              *)
LEMMA RestsSymbol ==
  ASSUME NEW s, IsState(s), NEW line, NEW size
  PROVE  Rests(s, EnterDatSymbol(s, line, size))
<1>0. PICK t : t = EnterDatSymbol(s, line, size)
  OBVIOUS
<1>1. Calm(s, t)
  BY <1>0, SymbolCalm
<1>2. PICK key : key = Key(s, line.label.name, line.label.local)
  OBVIOUS
<1>3. PICK label : label = [hub |-> s.hub, offset |-> s.offset, cog |-> s.cogOrg \div 4, size |-> size]
  OBVIOUS
<1>4. DOMAIN s = Fields
  BY DEF IsState
<1>5. CASE line.label.name = Nameless \/ Known(s, key) \/ s.err # Fine
  <2>1. t = [s EXCEPT !.word = size]
    BY <1>0, <1>2, <1>5 DEF EnterDatSymbol
  <2>2. \A x \in Fields \ {"word"} : t[x] = s[x]
    BY <1>4, <2>1 DEF Fields
  <2>3. Places(s, t)
    BY <2>2 DEF Places, Fields
  <2> QED
    BY <1>0, <1>1, <2>3 DEF Rests, Calm, Quiet
<1>6. CASE ~(line.label.name = Nameless \/ Known(s, key) \/ s.err # Fine) /\ ~s.hub /\ s.cogOrg % 4 # 0
  <2>1. t = Check(s, FALSE, "unaligned")
    BY <1>0, <1>2, <1>6 DEF EnterDatSymbol, Check
  <2> QED
    BY <1>0, <2>1, RestsCheck DEF Fine
<1>7. CASE ~(line.label.name = Nameless \/ Known(s, key) \/ s.err # Fine) /\ ~(~s.hub /\ s.cogOrg % 4 # 0)
  <2>1. PICK m : m = [k \in DOMAIN s.labels \cup {key} |-> IF k = key THEN label ELSE s.labels[k]]
    OBVIOUS
  <2>2. t = [s EXCEPT !.word = size, !.labels = m]
    BY <1>0, <1>2, <1>3, <1>7, <2>1 DEF EnterDatSymbol
  <2>3. \A x \in Fields \ {"word", "labels"} : t[x] = s[x]
    BY <1>4, <2>2 DEF Fields
  <2>4. Places(s, t)
    BY <2>3 DEF Places, Fields
  <2> QED
    BY <1>0, <1>1, <2>4 DEF Rests, Calm, Quiet
<1> QED
  BY <1>5, <1>6, <1>7

(* Twins that rest are twins.                                              *)
LEMMA TwinsRest ==
  ASSUME NEW f, NEW p, NEW q, NEW a, NEW b, Twins(p, q, f), Rests(p, a), Rests(q, b)
  PROVE  Twins(a, b, f)
BY WithinThen DEF Twins, Rests, Places

(* Two steps, one in each pass, that lead from equal places to equal       *)
(* places and take no label back, lead from twins to twins.                *)
LEMMA PlacesThen ==
  ASSUME NEW f, NEW p, NEW q, NEW a, NEW b, Twins(p, q, f),
         IsState(a), IsState(b), a.setting = p.setting, a.pass = p.pass, b.setting = q.setting, b.pass = q.pass,
         a.err = Fine => p.err = Fine /\ Within(p.labels, a.labels), b.err = Fine => q.err = Fine /\ Within(q.labels, b.labels),
         p.err = Fine /\ q.err = Fine /\ a.err = Fine /\ b.err = Fine /\ Places(p, q) /\ Within(p.labels, f) /\ Within(f, q.labels)
           => Places(a, b)
  PROVE  Twins(a, b, f)
BY WithinThen DEF Twins

(* Twins that write the same number of bytes are twins.                    *)
LEMMA TwinsPut ==
  ASSUME NEW f, NEW p, NEW q, NEW a, NEW b, NEW n, NEW m, NEW g \in {"code", "filler"}, Twins(p, q, f),
         Put(p, a, n, g), Put(q, b, m, g), Both(p, q, f) => m = n
  PROVE  Twins(a, b, f)
BY DEF Twins, Both, Put, Same, Moved, Places

(* The scope of local labels changes alike in both passes, although only   *)
(* the first one refuses a label that is there.                            *)
LEMMA TwinsBegin ==
  ASSUME NEW f, NEW p, NEW q, Twins(p, q, f), NEW line
  PROVE  Twins(Begin(p, line), Begin(q, line), f)
<1>1. ASSUME NEW s, IsState(s), Begin(s, line).err = Fine
      PROVE  LET t == Begin(s, line)
             IN  /\ s.err = Fine /\ t.labels = s.labels
                 /\ t.at = s.at /\ t.offset = s.offset /\ t.hub = s.hub /\ t.cogOrg = s.cogOrg /\ t.hubOrg = s.hubOrg
                 /\ t.orghOffset = s.orghOffset /\ t.ditto = s.ditto
                 /\ t.scope = IF line.label.name # Nameless /\ ~line.label.local THEN s.scope + 1 ELSE s.scope
  <2>1. PICK t : t = IF line.label.name # Nameless /\ ~line.label.local THEN [s EXCEPT !.scope = @ + 1] ELSE s
    OBVIOUS
  <2>2. IsState(t)
    BY <1>1, <2>1 DEF IsState, Fields
  <2>3. Begin(s, line) = Check(t, Must(s) \/ ~Known(t, Key(t, line.label.name, line.label.local)), "defined")
    BY <2>1 DEF Begin
  <2>4. Begin(s, line) = t
    BY <1>1, <2>2, <2>3, CheckIs DEF Fine
  <2> QED
    BY <1>1, <2>1, <2>4 DEF IsState, Fields
<1>2. PICK a : a = Begin(p, line)
  OBVIOUS
<1>3. PICK b : b = Begin(q, line)
  OBVIOUS
<1>4. Calm(p, a) /\ Calm(q, b)
  BY <1>2, <1>3, BeginCalm DEF Twins
<1>5. a.err = Fine /\ b.err = Fine /\ Places(p, q) => Places(a, b)
  BY <1>1, <1>2, <1>3 DEF Places, Twins
<1> QED
  BY <1>2, <1>3, <1>4, <1>5, PlacesThen DEF Calm, Quiet

(* A value that has to be known, of which nothing was reported, is one of  *)
(* known labels, and nothing changed.                                      *)
LEMMA OriginFine ==
  ASSUME NEW s, IsState(s), NEW e, Origin(s, e).err = Fine
  PROVE  Origin(s, e) = s /\ s.err = Fine /\ Defined(s, e)
<1>1. Origin(s, e) = s
  BY CheckIs DEF Origin, GetValue, Fine
<1>2. ASSUME ~Defined(s, e) PROVE FALSE
  <2>1. Origin(s, e) = Fail(s, "undefined")
    BY <1>2 DEF Origin, GetValue, Check
  <2>2. Fail(s, "undefined") = [s EXCEPT !.err = "undefined"]
    BY <1>1 DEF Fail
  <2>3. Origin(s, e).err = "undefined"
    BY <2>1, <2>2 DEF IsState, Fields
  <2> QED
    BY <2>3 DEF Fine
<1> QED
  BY <1>1, <1>2

(* A value that the first pass knows is the same in the second one: its    *)
(* labels are the same and so are its places.                              *)
LEMMA TwinsValue ==
  ASSUME NEW p, NEW q, IsState(p), IsState(q), q.setting = p.setting, Places(p, q), Within(p.labels, q.labels),
         NEW e \in Exps, Defined(p, e)
  PROVE  Value(q, e) = Value(p, e)
<1>1. Key(q, e.ref, e.local) = Key(p, e.ref, e.local)
  BY DEF Key, Places
<1>2. CASE IsName(e)
  <2>1. PICK k : k = Key(p, e.ref, e.local)
    OBVIOUS
  <2>2. k \in DOMAIN p.labels /\ k \in DOMAIN q.labels /\ q.labels[k] = p.labels[k]
    BY <1>2, <2>1 DEF Defined, Known, Within
  <2>3. PICK l : l = p.labels[k]
    OBVIOUS
  <2>4. Defined(q, e)
    BY <1>1, <2>1, <2>2 DEF Defined, Known
  <2>5. Address(q, l, e.at) = Address(p, l, e.at)
    BY DEF Address, Places
  <2> QED
    BY <1>1, <1>2, <2>1, <2>2, <2>3, <2>4, <2>5 DEF Value, IsName
<1>3. CASE ~IsName(e)
  BY <1>3 DEF IsName, Value, Places
<1> QED
  BY <1>2, <1>3

(* What is fine behind a step that moves nothing was fine before it.       *)
LEMMA BothBefore ==
  ASSUME NEW f, NEW p, NEW q, NEW a, NEW b, Rests(p, a), Rests(q, b), Both(a, b, f)
  PROVE  Both(p, q, f)
BY WithinThen DEF Both, Rests

(* Twins that are fine are at the same places, and the second one knows    *)
(* what the first one knows.                                               *)
LEMMA BothAre ==
  ASSUME NEW f, NEW p, NEW q, Twins(p, q, f), Both(p, q, f)
  PROVE  Places(p, q) /\ Within(f, q.labels) /\ Within(p.labels, q.labels)
BY WithinThen DEF Both, Twins

(* A value that has to be known in both passes is the same in both.        *)
LEMMA TwinsOrigin ==
  ASSUME NEW f, NEW p, NEW q, Twins(p, q, f), NEW e \in Exps, Both(Origin(p, e), Origin(q, e), f)
  PROVE  Both(p, q, f) /\ Value(q, e) = Value(p, e) /\ Origin(p, e) = p /\ Origin(q, e) = q /\ Defined(p, e)
<1>1. IsState(p) /\ IsState(q) /\ q.setting = p.setting
  BY DEF Twins
<1>2. Origin(p, e) = p /\ Defined(p, e) /\ Origin(q, e) = q
  BY <1>1, OriginFine DEF Both
<1>3. Both(p, q, f)
  BY <1>2
<1>4. Places(p, q) /\ Within(p.labels, q.labels)
  BY <1>3, BothAre
<1> QED
  BY <1>1, <1>2, <1>3, <1>4, TwinsValue

(* Twins that fill the same number of bytes are twins.                     *)
LEMMA FillTwins ==
  ASSUME NEW f, NEW p, NEW q, Twins(p, q, f), NEW op \in Fillers, NEW n \in Int, NEW m \in Int, Both(p, q, f) => m = n
  PROVE  Twins(EnterData(p, [op |-> op], n), EnterData(q, [op |-> op], m), f)
<1>1. PICK what : what = [op |-> op]
  OBVIOUS
<1>2. what.op # "debug" /\ (what.op \in Fillers <=> "filler" = "filler") /\ "filler" \in {"code", "filler"}
  BY <1>1 DEF Fillers
<1>3. PICK i \in Int : i = IF n <= 0 THEN 0 ELSE n
  OBVIOUS
<1>4. PICK j \in Int : j = IF m <= 0 THEN 0 ELSE m
  OBVIOUS
<1>5. Put(p, EnterData(p, what, n), i, "filler") /\ Put(q, EnterData(q, what, m), j, "filler")
  BY <1>2, <1>3, <1>4, EnterDataPuts DEF Twins
<1>6. Both(p, q, f) => j = i
  BY <1>3, <1>4
<1> QED
  BY <1>1, <1>2, <1>5, <1>6, TwinsPut

(* The next long of a cog is equally far in both passes                    *)
(* (advanceToNextCogLong).                                                 *)
LEMMA TwinsAdvance ==
  ASSUME NEW f, NEW p, NEW q, Twins(p, q, f)
  PROVE  Twins(AdvanceToNextCogLong(p), AdvanceToNextCogLong(q), f)
<1>1. PICK n : n = IF p.hub THEN 0 ELSE (-p.cogOrg) % 4
  OBVIOUS
<1>2. PICK m : m = IF q.hub THEN 0 ELSE (-q.cogOrg) % 4
  OBVIOUS
<1>3. Put(p, AdvanceToNextCogLong(p), n, "filler") /\ Put(q, AdvanceToNextCogLong(q), m, "filler") /\ "filler" \in {"code", "filler"}
  BY <1>1, <1>2, AdvancePuts DEF Twins
<1>4. Both(p, q, f) => m = n
  BY <1>1, <1>2, BothAre DEF Places
<1> QED
  BY <1>3, <1>4, TwinsPut

(* A datum with a count is written only if its count is known, in the      *)
(* first pass too.                                                         *)
LEMMA DatumFine ==
  ASSUME NEW s, IsState(s), NEW x \in Datums, Datum(s, x).err = Fine
  PROVE  s.err = Fine /\ Defined(s, x.count)
<1>1. x.exp \in Exps /\ x.count \in Exps /\ x.w \in 0..2
  BY DEF Datums
<1>2. PICK n \in Int : n = Value(s, x.count)
  BY <1>1, ValueInt
<1>3. PICK v : v = Value(s, x.exp)
  OBVIOUS
<1>4. PICK w : w = x.w
  OBVIOUS
<1>5. PICK a : a = GetValue(s, x.exp, Must(s))
  OBVIOUS
<1>6. PICK b : b = Origin(a, x.count)
  OBVIOUS
<1>7. PICK t : t = Check(b, n > 0 /\ x.fit => FitsIn(v, w), "fit")
  OBVIOUS
<1>8. IsState(a) /\ (a.err = Fine => a = s)
  BY <1>5, CheckIs DEF GetValue, Fine
<1>9. IsState(b) /\ (b.err = Fine => a.err = Fine /\ Defined(a, x.count))
  BY <1>6, <1>8, RestsGet, OriginFine DEF Rests
<1>10. IsState(t) /\ (t.err = Fine => b.err = Fine)
  BY <1>7, <1>9, CheckIs DEF Fine
<1>11. t.err = Fine
  <2>1. CASE n > 0
    <3>1. PICK r : r = CHOOSE q : Copies(t, v, w, n, q)
      OBVIOUS
    <3>2. Copies(t, v, w, n, r)
      BY <2>1, <3>1, CopiesExist
    <3>3. Put(t, r[n], n * Width(w), "code")
      BY <1>1, <1>4, <1>10, <2>1, <3>2, CopiesPut
    <3>4. Datum(s, x) = r[n]
      BY <1>2, <1>3, <1>4, <1>5, <1>6, <1>7, <2>1, <3>1 DEF Datum, Copies, DataOf
    <3> QED
      BY <3>3, <3>4 DEF Put
  <2>2. CASE ~(n > 0)
    BY <1>2, <1>3, <1>4, <1>5, <1>6, <1>7, <2>2 DEF Datum
  <2> QED
    BY <2>1, <2>2
<1> QED
  BY <1>8, <1>9, <1>10, <1>11

(* A datum takes the same number of bytes in both passes: its value may    *)
(* not be known yet, its count has to be.                                  *)
LEMMA TwinsDatum ==
  ASSUME NEW f, NEW p, NEW q, Twins(p, q, f), NEW x \in Datums
  PROVE  Twins(Datum(p, x), Datum(q, x), f)
<1>1. PICK n \in Int : n = DatumSize(p, x)
  BY DatumPuts DEF Twins
<1>2. PICK m \in Int : m = DatumSize(q, x)
  BY DatumPuts DEF Twins
<1>3. PICK a : a = Datum(p, x)
  OBVIOUS
<1>4. PICK b : b = Datum(q, x)
  OBVIOUS
<1>5. Put(p, a, n, "code") /\ Put(q, b, m, "code")
  BY <1>1, <1>2, <1>3, <1>4, DatumPuts DEF Twins
<1>6. ASSUME p.err = Fine, q.err = Fine, a.err = Fine, b.err = Fine, Places(p, q), Within(p.labels, f), Within(f, q.labels)
      PROVE  Places(a, b)
  <2>1. IsState(p) /\ IsState(q) /\ q.setting = p.setting
    BY DEF Twins
  <2>2. Defined(p, x.count) /\ x.count \in Exps
    BY <1>3, <1>6, <2>1, DatumFine DEF Datums
  <2>3. Within(p.labels, q.labels)
    BY <1>6, WithinThen
  <2>4. Value(q, x.count) = Value(p, x.count)
    BY <1>6, <2>1, <2>2, <2>3, TwinsValue
  <2>5. m = n
    BY <1>1, <1>2, <2>4 DEF DatumSize
  <2> QED
    BY <1>5, <1>6, <2>5 DEF Put, Same, Moved, Places
<1>7. a.err = Fine => p.err = Fine /\ Within(p.labels, a.labels)
  BY <1>5 DEF Put, Same, Within
<1>8. b.err = Fine => q.err = Fine /\ Within(q.labels, b.labels)
  BY <1>5 DEF Put, Same, Within
<1> QED
  BY <1>3, <1>4, <1>5, <1>6, <1>7, <1>8, PlacesThen DEF Put

(* So do all the data of a line.                                           *)
LEMMA TwinsRead ==
  ASSUME NEW f, NEW p, NEW q, Twins(p, q, f), NEW data, NEW n \in Nat, NEW r, NEW u, ReadUpTo(p, data, n, r), ReadUpTo(q, data, n, u),
         \A x \in 1..n : data[x] \in Datums
  PROVE  Twins(r[n], u[n], f)
<1>1. ASSUME NEW x \in 0..n
      PROVE  r[x] = (IF x = 0 THEN p ELSE Datum(r[x - 1], data[x])) /\ u[x] = (IF x = 0 THEN q ELSE Datum(u[x - 1], data[x]))
  BY DEF ReadUpTo
<1> DEFINE G == {k \in 0..n : Twins(r[k], u[k], f)}
<1>2. 0 \in G
  BY <1>1
<1>3. ASSUME NEW k \in 1..n, k - 1 \in G PROVE k \in G
  <2>1. Twins(r[k - 1], u[k - 1], f)
    BY <1>3
  <2>2. Twins(Datum(r[k - 1], data[k]), Datum(u[k - 1], data[k]), f)
    BY <2>1, TwinsDatum
  <2>3. r[k] = Datum(r[k - 1], data[k]) /\ u[k] = Datum(u[k - 1], data[k])
    BY <1>1
  <2> QED
    BY <2>2, <2>3
<1> HIDE DEF G
<1>4. n \in G
  BY <1>2, <1>3, UpTo
<1> QED
  BY <1>4 DEF G

(* Twins that write nothing and end at equal places are twins.             *)
LEMMA TwinsCalm ==
  ASSUME NEW f, NEW p, NEW q, NEW a, NEW b, Twins(p, q, f), Calm(p, a), Calm(q, b),
         Both(p, q, f) /\ a.err = Fine /\ b.err = Fine /\ Places(p, q) => Places(a, b)
  PROVE  Twins(a, b, f)
BY PlacesThen DEF Calm, Quiet, Both

(* What is fine behind a step that writes nothing was fine before it.      *)
LEMMA BothCalm ==
  ASSUME NEW f, NEW p, NEW q, NEW a, NEW b, Calm(p, a), Calm(q, b), Both(a, b, f)
  PROVE  Both(p, q, f)
BY WithinThen DEF Both, Calm, Quiet

(* Each of two twins is a state of the assembler, with the setting of the  *)
(* other.                                                                  *)
LEMMA TwinsState ==
  ASSUME NEW f, NEW p, NEW q, Twins(p, q, f)
  PROVE  IsState(p) /\ IsState(q) /\ q.setting = p.setting /\ Rests(p, p) /\ Rests(q, q)
BY RestsStill DEF Twins

(* What rests is a state of the assembler.                                 *)
LEMMA RestsState ==
  ASSUME NEW s, NEW t, Rests(s, t)
  PROVE  IsState(t)
BY DEF Rests

(* A line with only a label leads from twins to twins.                     *)
LEMMA LabelTwins ==
  ASSUME NEW f, NEW p, NEW q, Twins(p, q, f), NEW line \in Lines
  PROVE  Twins(ReadLabel(p, line), ReadLabel(q, line), f)
<1>1. Twins(Begin(p, line), Begin(q, line), f)
  BY TwinsBegin
<1> QED
  BY <1>1, TwinsState, RestsSymbol, TwinsRest DEF ReadLabel

(* A line with data does.                                                  *)
LEMMA DataTwins ==
  ASSUME NEW f, NEW p, NEW q, Twins(p, q, f), NEW line \in Lines
  PROVE  Twins(ReadData(p, line), ReadData(q, line), f)
<1>1. Twins(Begin(p, line), Begin(q, line), f)
  BY TwinsBegin
<1>2. PICK a : a = EnterDatSymbol(Begin(p, line), line, line.w)
  OBVIOUS
<1>3. PICK b : b = EnterDatSymbol(Begin(q, line), line, line.w)
  OBVIOUS
<1>4. Twins(a, b, f)
  BY <1>1, <1>2, <1>3, TwinsState, RestsSymbol, TwinsRest
<1>5. PICK n \in Nat : n = Len(line.data) /\ \A x \in 1..n : line.data[x] \in Datums
  BY LineIs
<1>6. PICK data : data = line.data
  OBVIOUS
<1>7. PICK r : r = CHOOSE g : ReadUpTo(a, data, n, g)
  OBVIOUS
<1>8. PICK u : u = CHOOSE g : ReadUpTo(b, data, n, g)
  OBVIOUS
<1>9. ReadUpTo(a, data, n, r) /\ ReadUpTo(b, data, n, u)
  BY <1>7, <1>8, ReadExists
<1>10. Twins(r[n], u[n], f)
  BY <1>4, <1>5, <1>6, <1>9, TwinsRead
<1>11. ReadData(p, line) = r[n]
  BY <1>2, <1>5, <1>6, <1>7 DEF ReadData, ReadUpTo
<1>12. ReadData(q, line) = u[n]
  BY <1>3, <1>5, <1>6, <1>8 DEF ReadData, ReadUpTo
<1> QED
  BY <1>10, <1>11, <1>12

(* A line with an instruction does: its length follows from its text,      *)
(* whatever its operands are worth so far.                                 *)
LEMMA InstructionTwins ==
  ASSUME NEW f, NEW p, NEW q, Twins(p, q, f), NEW line \in Lines
  PROVE  Twins(ReadInstruction(p, line), ReadInstruction(q, line), f)
<1>1. Twins(Begin(p, line), Begin(q, line), f)
  BY TwinsBegin
<1>2. Twins(AdvanceToNextCogLong(Begin(p, line)), AdvanceToNextCogLong(Begin(q, line)), f)
  BY <1>1, TwinsAdvance
<1>3. PICK a : a = EnterDatSymbol(AdvanceToNextCogLong(Begin(p, line)), line, 2)
  OBVIOUS
<1>4. PICK b : b = EnterDatSymbol(AdvanceToNextCogLong(Begin(q, line)), line, 2)
  OBVIOUS
<1>5. Twins(a, b, f)
  BY <1>2, <1>3, <1>4, TwinsState, RestsSymbol, TwinsRest
<1>6. IsState(a) /\ IsState(b) /\ b.setting = a.setting
  BY <1>5, TwinsState
<1>7. PICK n \in Int : \A s : IsState(s) /\ s.setting = a.setting => Put(s, Instruction(s, line), n, "code")
  BY InstructionPuts
<1>8. Put(a, Instruction(a, line), n, "code") /\ Put(b, Instruction(b, line), n, "code") /\ "code" \in {"code", "filler"}
  BY <1>6, <1>7
<1>9. Twins(Instruction(a, line), Instruction(b, line), f)
  BY <1>5, <1>8, TwinsPut
<1> QED
  BY <1>3, <1>4, <1>9 DEF ReadInstruction

(* A line with FILE does.                                                  *)
LEMMA FileTwins ==
  ASSUME NEW f, NEW p, NEW q, Twins(p, q, f), NEW line \in Lines
  PROVE  Twins(ReadFile(p, line), ReadFile(q, line), f)
<1>1. Twins(Begin(p, line), Begin(q, line), f)
  BY TwinsBegin
<1>2. PICK a : a = EnterDatSymbol(Begin(p, line), line, 0)
  OBVIOUS
<1>3. PICK b : b = EnterDatSymbol(Begin(q, line), line, 0)
  OBVIOUS
<1>4. Twins(a, b, f)
  BY <1>1, <1>2, <1>3, TwinsState, RestsSymbol, TwinsRest
<1>5. PICK n \in Nat : n = line.n
  BY LineIs
<1>6. PICK what : what = [op |-> "file"]
  OBVIOUS
<1>7. what.op # "debug" /\ (what.op \in Fillers <=> "code" = "filler") /\ "code" \in {"code", "filler"}
  BY <1>6 DEF Fillers
<1>8. PICK m : m = IF n <= 0 THEN 0 ELSE n
  OBVIOUS
<1>9. Put(a, EnterData(a, what, n), m, "code") /\ Put(b, EnterData(b, what, n), m, "code")
  BY <1>4, <1>7, <1>8, EnterDataPuts, TwinsState
<1>10. Twins(EnterData(a, what, n), EnterData(b, what, n), f)
  BY <1>4, <1>7, <1>9, TwinsPut
<1> QED
  BY <1>2, <1>3, <1>5, <1>6, <1>10 DEF ReadFile

(* A structure moves nothing in the second pass, which is the one that     *)
(* enters it.                                                              *)
LEMMA RestsStruct ==
  ASSUME NEW s, IsState(s), NEW line, NEW b, b = Begin(s, line), s.pass = 2
  PROVE  Rests(b, ReadStruct(s, line))
<1>1. IsState(b)
  BY BeginCalm, CalmIs
<1>2. PICK c : c = Check(b, b.hub, "mode")
  OBVIOUS
<1>3. Rests(b, c) /\ IsState(c)
  BY <1>1, <1>2, RestsCheck, RestsState DEF Fine
<1>4. PICK h : h = Check(c, line.label.name # Nameless /\ ~Known(b, Key(b, line.label.name, line.label.local)), "label")
  OBVIOUS
<1>5. Rests(c, h) /\ IsState(h)
  BY <1>3, <1>4, RestsCheck, RestsState DEF Fine
<1>6. PICK d : d = EnterDatSymbol(h, line, "struct")
  OBVIOUS
<1>7. Rests(h, d) /\ IsState(d)
  BY <1>5, <1>6, RestsSymbol, RestsState
<1>8. PICK e : e = [d EXCEPT !.word = s.word]
  OBVIOUS
<1>9. Rests(d, e)
  BY <1>7, <1>8 DEF Rests, Places, Within, IsState, Fields
<1>10. ReadStruct(s, line) = e
  BY <1>2, <1>4, <1>6, <1>8 DEF ReadStruct, Must
<1> QED
  BY <1>3, <1>5, <1>7, <1>9, <1>10, RestsThen

(* So a line with a structure leads from twins to twins.                   *)
LEMMA StructTwins ==
  ASSUME NEW f, NEW p, NEW q, Twins(p, q, f), NEW line \in Lines
  PROVE  Twins(ReadStruct(p, line), ReadStruct(q, line), f)
<1>1. PICK a : a = Begin(p, line)
  OBVIOUS
<1>2. PICK b : b = Begin(q, line)
  OBVIOUS
<1>3. Twins(a, b, f)
  BY <1>1, <1>2, TwinsBegin
<1>4. ReadStruct(p, line) = a
  BY <1>1 DEF ReadStruct, Must, Twins
<1>5. Rests(b, ReadStruct(q, line))
  BY <1>2, RestsStruct DEF Twins
<1> QED
  BY <1>3, <1>4, <1>5, TwinsState, TwinsRest

(* FIT checks, and moves nothing.                                          *)
LEMMA RestsFit ==
  ASSUME NEW s, IsState(s), NEW line, NEW b, b = Begin(s, line)
  PROVE  Rests(b, ReadFit(s, line))
<1>1. IsState(b)
  BY BeginCalm, CalmIs
<1>2. PICK c : c = ErrorIfSymbol(b, line)
  OBVIOUS
<1>3. Rests(b, c) /\ IsState(c)
  BY <1>1, <1>2, RestsErrorIf, RestsState
<1>4. PICK d : d = Origin(c, line.exp)
  OBVIOUS
<1>5. Rests(c, d) /\ IsState(d)
  BY <1>3, <1>4, RestsGet, RestsState
<1>6. PICK e : e = Check(d, Here(s) <= Value(s, line.exp) * (IF s.hub THEN 1 ELSE 4), "fit")
  OBVIOUS
<1>7. Rests(d, e)
  BY <1>5, <1>6, RestsCheck DEF Fine
<1>8. ReadFit(s, line) = e
  BY <1>2, <1>4, <1>6 DEF ReadFit
<1> QED
  BY <1>3, <1>5, <1>7, <1>8, RestsThen

(* A line with FIT leads from twins to twins.                              *)
LEMMA FitTwins ==
  ASSUME NEW f, NEW p, NEW q, Twins(p, q, f), NEW line \in Lines
  PROVE  Twins(ReadFit(p, line), ReadFit(q, line), f)
BY TwinsBegin, TwinsState, RestsFit, TwinsRest

(* Twins that are checked are twins, whatever the two checks find.         *)
LEMMA TwinsCheck ==
  ASSUME NEW f, NEW p, NEW q, Twins(p, q, f), NEW ok, NEW may, NEW e, e # Fine
  PROVE  Twins(Check(p, ok, e), Check(q, may, e), f)
BY TwinsState, RestsCheck, TwinsRest

(* Twins that refuse a label are twins.                                    *)
LEMMA TwinsErrorIf ==
  ASSUME NEW f, NEW p, NEW q, Twins(p, q, f), NEW line
  PROVE  Twins(ErrorIfSymbol(p, line), ErrorIfSymbol(q, line), f)
BY TwinsState, RestsErrorIf, TwinsRest

(* Twins that enter a label are twins.                                     *)
LEMMA TwinsSymbol ==
  ASSUME NEW f, NEW p, NEW q, Twins(p, q, f), NEW line, NEW size
  PROVE  Twins(EnterDatSymbol(p, line, size), EnterDatSymbol(q, line, size), f)
BY TwinsState, RestsSymbol, TwinsRest

(* Twins that evaluate an expression are twins.                            *)
LEMMA TwinsGet ==
  ASSUME NEW f, NEW p, NEW q, Twins(p, q, f), NEW e
  PROVE  Twins(Origin(p, e), Origin(q, e), f)
BY TwinsState, RestsGet, TwinsRest

(* Of twins that are fine behind a check both were fine before it.         *)
LEMMA BothChecked ==
  ASSUME NEW f, NEW p, NEW q, Twins(p, q, f), NEW ok, NEW may, NEW e, e # Fine, Both(Check(p, ok, e), Check(q, may, e), f)
  PROVE  Both(p, q, f)
BY TwinsState, RestsCheck, BothBefore

(* A line with RES leads from twins to twins: its count has to be known    *)
(* in both passes.                                                         *)
LEMMA ResTwins ==
  ASSUME NEW f, NEW p, NEW q, Twins(p, q, f), NEW line \in Lines
  PROVE  Twins(ReadRes(p, line), ReadRes(q, line), f)
<1>1. Twins(Begin(p, line), Begin(q, line), f)
  BY TwinsBegin
<1>2. Twins(Check(Begin(p, line), ~p.hub, "mode"), Check(Begin(q, line), ~q.hub, "mode"), f)
  BY <1>1, TwinsCheck DEF Fine
<1>3. PICK a : a = EnterDatSymbol(AdvanceToNextCogLong(Check(Begin(p, line), ~p.hub, "mode")), line, 2)
  OBVIOUS
<1>4. PICK b : b = EnterDatSymbol(AdvanceToNextCogLong(Check(Begin(q, line), ~q.hub, "mode")), line, 2)
  OBVIOUS
<1>5. Twins(a, b, f)
  BY <1>2, <1>3, <1>4, TwinsAdvance, TwinsSymbol
<1>6. IsState(a) /\ IsState(b) /\ line.exp \in Exps
  BY <1>5, TwinsState, LineIs
<1>7. PICK v \in Int : v = Value(a, line.exp)
  BY <1>6, ValueInt
<1>8. PICK w \in Int : w = Value(b, line.exp)
  BY <1>6, ValueInt
<1>9. PICK c : c = Origin(a, line.exp)
  OBVIOUS
<1>10. PICK d : d = Origin(b, line.exp)
  OBVIOUS
<1>11. Twins(c, d, f) /\ IsState(c) /\ IsState(d)
  BY <1>5, <1>9, <1>10, TwinsGet, TwinsState
<1>12. Both(c, d, f) => w = v
  BY <1>5, <1>6, <1>7, <1>8, <1>9, <1>10, TwinsOrigin
<1>13. PICK m \in Int : m = c.cogOrg + (4 * v)
  BY <1>11 DEF IsState
<1>14. PICK n \in Int : n = d.cogOrg + (4 * w)
  BY <1>11 DEF IsState
<1>15. PICK g : g = [c EXCEPT !.cogOrg = m]
  OBVIOUS
<1>16. PICK h : h = [d EXCEPT !.cogOrg = n]
  OBVIOUS
<1>17. Twins(g, h, f)
  <2>1. Calm(c, g)
    BY <1>11, <1>15 DEF Calm, Quiet, IsState, Fields, Within
  <2>2. Calm(d, h)
    BY <1>11, <1>16 DEF Calm, Quiet, IsState, Fields, Within
  <2>3. Both(c, d, f) /\ Places(c, d) => n = m
    BY <1>12, <1>13, <1>14 DEF Places
  <2>4. Both(c, d, f) /\ Places(c, d) => Places(g, h)
    BY <1>11, <1>15, <1>16, <2>3 DEF Places, IsState, Fields
  <2> QED
    BY <1>11, <2>1, <2>2, <2>4, TwinsCalm
<1>18. ReadRes(p, line) = Check(g, g.cogOrg <= a.cogLimit, "limit")
  BY <1>3, <1>7, <1>9, <1>13, <1>15 DEF ReadRes
<1>19. ReadRes(q, line) = Check(h, h.cogOrg <= b.cogLimit, "limit")
  BY <1>4, <1>8, <1>10, <1>14, <1>16 DEF ReadRes
<1> QED
  BY <1>17, <1>18, <1>19, TwinsCheck DEF Fine

(* A line with ORGF does.                                                  *)
LEMMA OrgfTwins ==
  ASSUME NEW f, NEW p, NEW q, Twins(p, q, f), NEW line \in Lines
  PROVE  Twins(ReadOrgf(p, line), ReadOrgf(q, line), f)
<1>1. Twins(Begin(p, line), Begin(q, line), f)
  BY TwinsBegin
<1>2. Twins(Check(Begin(p, line), ~p.hub, "mode"), Check(Begin(q, line), ~q.hub, "mode"), f)
  BY <1>1, TwinsCheck DEF Fine
<1>3. PICK a : a = ErrorIfSymbol(Check(Begin(p, line), ~p.hub, "mode"), line)
  OBVIOUS
<1>4. PICK b : b = ErrorIfSymbol(Check(Begin(q, line), ~q.hub, "mode"), line)
  OBVIOUS
<1>5. Twins(a, b, f)
  BY <1>2, <1>3, <1>4, TwinsErrorIf
<1>6. IsState(a) /\ IsState(b) /\ line.exp \in Exps
  BY <1>5, TwinsState, LineIs
<1>7. PICK v \in Int : v = Value(a, line.exp)
  BY <1>6, ValueInt
<1>8. PICK w \in Int : w = Value(b, line.exp)
  BY <1>6, ValueInt
<1>9. PICK c : c = Origin(a, line.exp)
  OBVIOUS
<1>10. PICK d : d = Origin(b, line.exp)
  OBVIOUS
<1>11. Twins(c, d, f)
  BY <1>5, <1>9, <1>10, TwinsGet
<1>12. PICK g : g = Check(c, 4 * v <= a.cogLimit, "limit")
  OBVIOUS
<1>13. PICK h : h = Check(d, 4 * w <= b.cogLimit, "limit")
  OBVIOUS
<1>14. Twins(g, h, f) /\ (Both(g, h, f) => Both(c, d, f))
  BY <1>11, <1>12, <1>13, TwinsCheck, BothChecked DEF Fine
<1>15. PICK j : j = Check(g, a.cogOrg <= 4 * v, "origin")
  OBVIOUS
<1>16. PICK k : k = Check(h, b.cogOrg <= 4 * w, "origin")
  OBVIOUS
<1>17. Twins(j, k, f) /\ (Both(j, k, f) => Both(g, h, f))
  BY <1>14, <1>15, <1>16, TwinsCheck, BothChecked DEF Fine
<1>18. PICK n \in Int : n = 4 * v - a.cogOrg
  BY <1>6 DEF IsState
<1>19. PICK m \in Int : m = 4 * w - b.cogOrg
  BY <1>6 DEF IsState
<1>20. ASSUME Both(j, k, f) PROVE m = n
  <2>1. Both(c, d, f)
    BY <1>14, <1>17, <1>20
  <2>2. Both(a, b, f) /\ w = v
    BY <1>5, <1>6, <1>7, <1>8, <1>9, <1>10, <2>1, TwinsOrigin
  <2>3. b.cogOrg = a.cogOrg
    BY <1>5, <2>2, BothAre DEF Places
  <2> QED
    BY <1>18, <1>19, <2>2, <2>3
<1>21. PICK op : op = "fill"
  OBVIOUS
<1>22. Twins(EnterData(j, [op |-> op], n), EnterData(k, [op |-> op], m), f)
  <2>1. op \in Fillers
    BY <1>21 DEF Fillers
  <2> QED
    BY <1>17, <1>20, <2>1, FillTwins
<1>23. ReadOrgf(p, line) = EnterData(j, [op |-> op], n)
  BY <1>3, <1>7, <1>9, <1>12, <1>15, <1>18, <1>21 DEF ReadOrgf
<1>24. ReadOrgf(q, line) = EnterData(k, [op |-> op], m)
  BY <1>4, <1>8, <1>10, <1>13, <1>16, <1>19, <1>21 DEF ReadOrgf
<1> QED
  BY <1>22, <1>23, <1>24

(* A line with ALIGNW or ALIGNL does: both passes are at the same offset.  *)
LEMMA AlignTwins ==
  ASSUME NEW f, NEW p, NEW q, Twins(p, q, f), Both(p, q, f), NEW line \in Lines, line.n > 0
  PROVE  Twins(ReadAlign(p, line), ReadAlign(q, line), f)
<1>1. Twins(Begin(p, line), Begin(q, line), f)
  BY TwinsBegin
<1>2. PICK a : a = Check(Begin(p, line), ~Inline(p), "inline")
  OBVIOUS
<1>3. PICK b : b = Check(Begin(q, line), ~Inline(q), "inline")
  OBVIOUS
<1>4. Twins(a, b, f)
  BY <1>1, <1>2, <1>3, TwinsCheck DEF Fine
<1>5. PICK n \in Int : n = (-p.offset) % line.n
  <2>1. p.offset \in Int /\ line.n \in Nat
    BY LineIs, TwinsState DEF IsState
  <2> QED
    BY <2>1
<1>6. q.offset = p.offset
  BY BothAre DEF Places
<1>7. PICK op : op = "pad"
  OBVIOUS
<1>8. op \in Fillers
  BY <1>7 DEF Fillers
<1>9. Twins(EnterData(a, [op |-> op], n), EnterData(b, [op |-> op], n), f)
  BY <1>4, <1>8, FillTwins
<1>10. ReadAlign(p, line) = EnterData(a, [op |-> op], n)
  BY <1>2, <1>5, <1>7 DEF ReadAlign
<1>11. ReadAlign(q, line) = EnterData(b, [op |-> op], n)
  BY <1>3, <1>5, <1>6, <1>7 DEF ReadAlign
<1> QED
  BY <1>9, <1>10, <1>11

(* The END of inline code does.                                            *)
LEMMA EndTwins ==
  ASSUME NEW f, NEW p, NEW q, Twins(p, q, f), NEW line \in Lines
  PROVE  Twins(ReadEnd(p, line), ReadEnd(q, line), f)
<1>1. Twins(Begin(p, line), Begin(q, line), f)
  BY TwinsBegin
<1>2. PICK a : a = Check(Begin(p, line), Inline(p) /\ ~p.ditto.on, "end")
  OBVIOUS
<1>3. PICK b : b = Check(Begin(q, line), Inline(q) /\ ~q.ditto.on, "end")
  OBVIOUS
<1>4. Twins(a, b, f) /\ IsState(a) /\ IsState(b)
  BY <1>1, <1>2, <1>3, TwinsCheck, TwinsState DEF Fine
<1>5. PICK what : what = [op |-> "ret", cond |-> "always"]
  OBVIOUS
<1>6. what.op # "debug" /\ what.op \notin Fillers /\ 4 \in Nat \ {0} /\ "code" \in {"code", "filler"}
  BY <1>5 DEF Fillers
<1>7. Put(a, EnterData(a, what, 4), 4, "code") /\ Put(b, EnterData(b, what, 4), 4, "code")
  BY <1>4, <1>6, Entered
<1>8. Twins(EnterData(a, what, 4), EnterData(b, what, 4), f)
  BY <1>4, <1>6, <1>7, TwinsPut
<1> QED
  BY <1>2, <1>3, <1>5, <1>8 DEF ReadEnd

(* Twins that start at the same address of the cog or of the hub are       *)
(* twins, whatever the limits.                                             *)
LEMMA TwinsCog ==
  ASSUME NEW f, NEW p, NEW q, Twins(p, q, f), NEW org \in Int, NEW now \in Int, NEW limit \in Int, NEW cap \in Int,
         Both(p, q, f) => now = org
  PROVE  /\ Twins([p EXCEPT !.hub = FALSE, !.cogOrg = org, !.cogLimit = limit], [q EXCEPT !.hub = FALSE, !.cogOrg = now, !.cogLimit = cap], f)
         /\ Twins([p EXCEPT !.cogOrg = org, !.cogLimit = limit], [q EXCEPT !.cogOrg = now, !.cogLimit = cap], f)
         /\ Twins([p EXCEPT !.hubOrg = org], [q EXCEPT !.hubOrg = now], f)
<1>1. IsState(p) /\ IsState(q)
  BY TwinsState
<1>2. ASSUME NEW a, NEW b, a = [p EXCEPT !.hub = FALSE, !.cogOrg = org, !.cogLimit = limit], b = [q EXCEPT !.hub = FALSE, !.cogOrg = now, !.cogLimit = cap]
      PROVE  Twins(a, b, f)
  <2>1. Calm(p, a) /\ Calm(q, b)
    BY <1>1, <1>2, CogCalm
  <2>2. Both(p, q, f) /\ Places(p, q) => Places(a, b)
    BY <1>1, <1>2 DEF Places, IsState, Fields
  <2> QED
    BY <2>1, <2>2, TwinsCalm
<1>3. ASSUME NEW a, NEW b, a = [p EXCEPT !.cogOrg = org, !.cogLimit = limit], b = [q EXCEPT !.cogOrg = now, !.cogLimit = cap]
      PROVE  Twins(a, b, f)
  <2>1. Calm(p, a) /\ Calm(q, b)
    BY <1>1, <1>3, CogCalm
  <2>2. Both(p, q, f) /\ Places(p, q) => Places(a, b)
    BY <1>1, <1>3 DEF Places, IsState, Fields
  <2> QED
    BY <2>1, <2>2, TwinsCalm
<1>4. ASSUME NEW a, NEW b, a = [p EXCEPT !.hubOrg = org], b = [q EXCEPT !.hubOrg = now]
      PROVE  Twins(a, b, f)
  <2>1. Calm(p, a) /\ Calm(q, b)
    BY <1>1, <1>4, CogCalm
  <2>2. Both(p, q, f) /\ Places(p, q) => Places(a, b)
    BY <1>1, <1>4 DEF Places, IsState, Fields
  <2> QED
    BY <2>1, <2>2, TwinsCalm
<1> QED
  BY <1>2, <1>3, <1>4

(* The limits are no places.                                               *)
LEMMA TwinsLimit ==
  ASSUME NEW f, NEW p, NEW q, Twins(p, q, f), NEW limit \in Int, NEW cap \in Int
  PROVE  /\ Twins([p EXCEPT !.cogLimit = limit], [q EXCEPT !.cogLimit = cap], f)
         /\ Twins([p EXCEPT !.hubLimit = limit], [q EXCEPT !.hubLimit = cap], f)
<1>1. IsState(p) /\ IsState(q)
  BY TwinsState
<1>2. ASSUME NEW a, NEW b, a = [p EXCEPT !.cogLimit = limit], b = [q EXCEPT !.cogLimit = cap]
      PROVE  Twins(a, b, f)
  <2>1. Calm(p, a) /\ Calm(q, b)
    BY <1>1, <1>2, CogCalm
  <2>2. Places(p, q) => Places(a, b)
    BY <1>1, <1>2 DEF Places, IsState, Fields
  <2> QED
    BY <2>1, <2>2, TwinsCalm
<1>3. ASSUME NEW a, NEW b, a = [p EXCEPT !.hubLimit = limit], b = [q EXCEPT !.hubLimit = cap]
      PROVE  Twins(a, b, f)
  <2>1. Calm(p, a) /\ Calm(q, b)
    BY <1>1, <1>3, CogCalm
  <2>2. Places(p, q) => Places(a, b)
    BY <1>1, <1>3 DEF Places, IsState, Fields
  <2> QED
    BY <2>1, <2>2, TwinsCalm
<1> QED
  BY <1>2, <1>3

(* Twins that go to the same address of the hub are twins.                 *)
LEMMA TwinsHubAt ==
  ASSUME NEW f, NEW p, NEW q, Twins(p, q, f), NEW org \in Int, NEW now \in Int, Both(p, q, f) => now = org
  PROVE  Twins(HubAt(p, org), HubAt(q, now), f)
<1>1. IsState(p) /\ IsState(q)
  BY TwinsState
<1>2. PICK m : m = org - p.offset
  OBVIOUS
<1>3. PICK n : n = now - q.offset
  OBVIOUS
<1>4. PICK a : a = [p EXCEPT !.hub = TRUE, !.hubOrg = org, !.orghOffset = m]
  OBVIOUS
<1>5. PICK b : b = [q EXCEPT !.hub = TRUE, !.hubOrg = now, !.orghOffset = n]
  OBVIOUS
<1>6. HubAt(p, org) = a /\ HubAt(q, now) = b
  BY <1>2, <1>3, <1>4, <1>5 DEF HubAt
<1>7. Calm(p, a) /\ Calm(q, b)
  BY <1>1, <1>6, HubCalm
<1>8. Both(p, q, f) /\ Places(p, q) => n = m
  BY <1>2, <1>3 DEF Places
<1>9. Both(p, q, f) /\ Places(p, q) => Places(a, b)
  BY <1>1, <1>4, <1>5, <1>8 DEF Places, IsState, Fields
<1> QED
  BY <1>6, <1>7, <1>9, TwinsCalm

(* A line with ORG leads from twins to twins.                              *)
LEMMA OrgTwins ==
  ASSUME NEW f, NEW p, NEW q, Twins(p, q, f), NEW line \in Lines
  PROVE  Twins(ReadOrg(p, line), ReadOrg(q, line), f)
<1>1. Twins(Begin(p, line), Begin(q, line), f)
  BY TwinsBegin
<1>2. Twins(Check(Begin(p, line), ~Inline(p), "inline"), Check(Begin(q, line), ~Inline(q), "inline"), f)
  BY <1>1, TwinsCheck DEF Fine
<1>3. Twins(Check(Check(Begin(p, line), ~Inline(p), "inline"), ~p.ditto.on, "ditto"),
            Check(Check(Begin(q, line), ~Inline(q), "inline"), ~q.ditto.on, "ditto"), f)
  BY <1>2, TwinsCheck DEF Fine
<1>4. PICK a : a = ErrorIfSymbol(Check(Check(Begin(p, line), ~Inline(p), "inline"), ~p.ditto.on, "ditto"), line)
  OBVIOUS
<1>5. PICK b : b = ErrorIfSymbol(Check(Check(Begin(q, line), ~Inline(q), "inline"), ~q.ditto.on, "ditto"), line)
  OBVIOUS
<1>6. Twins(a, b, f)
  BY <1>3, <1>4, <1>5, TwinsErrorIf
<1>7. PICK top \in Int : top = CogLimit * 4
  BY LimitsAre
<1>8. PICK zero \in Int : zero = 0
  OBVIOUS
<1>9. PICK c : c = [a EXCEPT !.hub = FALSE, !.cogOrg = zero, !.cogLimit = top]
  OBVIOUS
<1>10. PICK d : d = [b EXCEPT !.hub = FALSE, !.cogOrg = zero, !.cogLimit = top]
  OBVIOUS
<1>11. Twins(c, d, f)
  BY <1>6, <1>9, <1>10, TwinsCog
<1>12. CASE line.org = <<>>
  <2>1. ReadOrg(p, line) = c
    BY <1>4, <1>7, <1>8, <1>9, <1>12 DEF ReadOrg
  <2>2. ReadOrg(q, line) = d
    BY <1>5, <1>7, <1>8, <1>10, <1>12 DEF ReadOrg
  <2> QED
    BY <1>11, <2>1, <2>2
<1>13. CASE line.org # <<>>
  <2>0. PICK x \in Exps : x = line.org[1]
    BY <1>13, LineIs, TwoAre
  <2>1. IsState(c) /\ IsState(d)
    BY <1>11, TwinsState
  <2>2. PICK v \in Int : v = Value(c, x)
    BY <2>1, ValueInt
  <2>3. PICK w \in Int : w = Value(d, x)
    BY <2>1, ValueInt
  <2>4. Twins(Origin(c, x), Origin(d, x), f)
    BY <1>11, TwinsGet
  <2>5. PICK g : g = Check(Origin(c, x), v <= HubBase, "address")
    OBVIOUS
  <2>6. PICK h : h = Check(Origin(d, x), w <= HubBase, "address")
    OBVIOUS
  <2>7. Twins(g, h, f) /\ (Both(g, h, f) => Both(Origin(c, x), Origin(d, x), f))
    BY <2>4, <2>5, <2>6, TwinsCheck, BothChecked DEF Fine
  <2>8. Both(g, h, f) => w = v
    BY <1>11, <2>2, <2>3, <2>7, TwinsOrigin
  <2>9. PICK high \in Int : high = (IF v >= LutBase THEN HubBase ELSE LutBase) * 4
    BY LimitsAre
  <2>10. PICK tall \in Int : tall = (IF w >= LutBase THEN HubBase ELSE LutBase) * 4
    BY LimitsAre
  <2>11. PICK m \in Int : m = v * 4
    OBVIOUS
  <2>12. PICK n \in Int : n = w * 4
    OBVIOUS
  <2>13. PICK j : j = [g EXCEPT !.cogOrg = m, !.cogLimit = high]
    OBVIOUS
  <2>14. PICK k : k = [h EXCEPT !.cogOrg = n, !.cogLimit = tall]
    OBVIOUS
  <2>15. Both(g, h, f) => n = m
    BY <2>8, <2>11, <2>12
  <2>16. Twins(j, k, f)
    BY <2>7, <2>13, <2>14, <2>15, TwinsCog
  <2>17. CASE Len(line.org) = 1
    <3>1. ReadOrg(p, line) = j
      BY <1>4, <1>7, <1>8, <1>9, <1>13, <2>0, <2>2, <2>5, <2>9, <2>11, <2>13, <2>17 DEF ReadOrg
    <3>2. ReadOrg(q, line) = k
      BY <1>5, <1>7, <1>8, <1>10, <1>13, <2>0, <2>3, <2>6, <2>10, <2>12, <2>14, <2>17 DEF ReadOrg
    <3> QED
      BY <2>16, <3>1, <3>2
  <2>18. CASE Len(line.org) # 1
    <3>1. PICK y \in Exps : y = line.org[2]
      BY <1>13, <2>18, LineIs, TwoAre
    <3>2. IsState(j) /\ IsState(k)
      BY <2>16, TwinsState
    <3>3. PICK l \in Int : l = Value(j, y)
      BY <3>2, ValueInt
    <3>4. PICK o \in Int : o = Value(k, y)
      BY <3>2, ValueInt
    <3>5. PICK s : s = Check(Origin(j, y), l <= HubBase, "address")
      OBVIOUS
    <3>6. PICK t : t = Check(Origin(k, y), o <= HubBase, "address")
      OBVIOUS
    <3>7. Twins(s, t, f)
      BY <2>16, <3>5, <3>6, TwinsGet, TwinsCheck DEF Fine
    <3>8. PICK most \in Int : most = l * 4
      OBVIOUS
    <3>9. PICK cap \in Int : cap = o * 4
      OBVIOUS
    <3>10. Twins([s EXCEPT !.cogLimit = most], [t EXCEPT !.cogLimit = cap], f)
      BY <3>7, TwinsLimit
    <3>11. ReadOrg(p, line) = [s EXCEPT !.cogLimit = most]
      BY <1>4, <1>7, <1>8, <1>9, <1>13, <2>0, <2>2, <2>5, <2>9, <2>11, <2>13, <2>18, <3>1, <3>3, <3>5, <3>8 DEF ReadOrg
    <3>12. ReadOrg(q, line) = [t EXCEPT !.cogLimit = cap]
      BY <1>5, <1>7, <1>8, <1>10, <1>13, <2>0, <2>3, <2>6, <2>10, <2>12, <2>14, <2>18, <3>1, <3>4, <3>6, <3>9 DEF ReadOrg
    <3> QED
      BY <3>10, <3>11, <3>12
  <2> QED
    BY <2>17, <2>18
<1> QED
  BY <1>12, <1>13

(* ORGH without an address starts at the same one in both passes.          *)
LEMMA HubPlainTwins ==
  ASSUME NEW f, NEW p, NEW q, Twins(p, q, f)
  PROVE  Twins(HubPlain(p), HubPlain(q), f) /\ (Both(HubPlain(p), HubPlain(q), f) => Both(p, q, f))
<1>1. IsState(p) /\ IsState(q) /\ q.setting = p.setting
  BY TwinsState
<1>8. p.offset \in Int /\ q.offset \in Int
  BY <1>1 DEF IsState
<1>2. PICK m \in Int : m = IF p.setting.pasm THEN p.offset ELSE HubBase
  BY <1>8, LimitsAre
<1>3. PICK n \in Int : n = IF q.setting.pasm THEN q.offset ELSE HubBase
  BY <1>8, LimitsAre
<1>4. Both(p, q, f) => n = m
  BY <1>1, <1>2, <1>3, BothAre DEF Places
<1>5. Twins(HubAt(p, m), HubAt(q, n), f)
  BY <1>4, TwinsHubAt
<1>6. HubLimit \in Int
  BY LimitsAre
<1>7. Twins([HubAt(p, m) EXCEPT !.hubLimit = HubLimit], [HubAt(q, n) EXCEPT !.hubLimit = HubLimit], f)
  BY <1>5, <1>6, TwinsLimit
<1>9. Calm(p, HubAt(p, m)) /\ Calm(q, HubAt(q, n)) /\ IsState(HubAt(p, m)) /\ IsState(HubAt(q, n))
  BY <1>1, HubCalm, CalmIs
<1>10. Calm(HubAt(p, m), [HubAt(p, m) EXCEPT !.hubLimit = HubLimit]) /\ Calm(HubAt(q, n), [HubAt(q, n) EXCEPT !.hubLimit = HubLimit])
  BY <1>6, <1>9, CogCalm
<1> QED
  BY <1>2, <1>3, <1>7, <1>9, <1>10, BothCalm DEF HubPlain

(* ORGH with an address, which has to be known in both passes, does.       *)
LEMMA HubBasedTwins ==
  ASSUME NEW f, NEW p, NEW q, Twins(p, q, f), NEW x \in Exps
  PROVE  Twins(HubBased(p, x), HubBased(q, x), f) /\ (Both(HubBased(p, x), HubBased(q, x), f) => Both(p, q, f) /\ Value(q, x) = Value(p, x))
<1>1. IsState(p) /\ IsState(q)
  BY TwinsState
<1>2. PICK m \in Int : m = Value(p, x)
  BY <1>1, ValueInt
<1>3. PICK n \in Int : n = Value(q, x)
  BY <1>1, ValueInt
<1>4. Twins(Origin(p, x), Origin(q, x), f)
  BY TwinsGet
<1>5. PICK g : g = Check(Origin(p, x), p.setting.pasm \/ m >= HubBase, "low")
  OBVIOUS
<1>6. PICK h : h = Check(Origin(q, x), q.setting.pasm \/ n >= HubBase, "low")
  OBVIOUS
<1>7. Twins(g, h, f) /\ (Both(g, h, f) => Both(Origin(p, x), Origin(q, x), f))
  BY <1>4, <1>5, <1>6, TwinsCheck, BothChecked DEF Fine
<1>8. PICK j : j = Check(g, m <= ObjLimit, "address")
  OBVIOUS
<1>9. PICK k : k = Check(h, n <= ObjLimit, "address")
  OBVIOUS
<1>10. Twins(j, k, f) /\ (Both(j, k, f) => Both(g, h, f))
  BY <1>7, <1>8, <1>9, TwinsCheck, BothChecked DEF Fine
<1>11. Both(j, k, f) => n = m
  BY <1>2, <1>3, <1>7, <1>10, TwinsOrigin
<1>12. Twins(HubAt(j, m), HubAt(k, n), f)
  BY <1>10, <1>11, TwinsHubAt
<1>13. Calm(j, HubAt(j, m)) /\ Calm(k, HubAt(k, n))
  BY <1>10, TwinsState, HubCalm
<1>14. HubBased(p, x) = HubAt(j, m) /\ HubBased(q, x) = HubAt(k, n)
  BY <1>2, <1>3, <1>5, <1>6, <1>8, <1>9 DEF HubBased
<1>15. Both(Origin(p, x), Origin(q, x), f) => Both(p, q, f)
  BY <1>1, RestsGet, BothBefore
<1>16. Both(HubAt(j, m), HubAt(k, n), f) => Both(j, k, f)
  BY <1>13, BothCalm
<1> QED
  BY <1>2, <1>3, <1>7, <1>10, <1>11, <1>12, <1>14, <1>15, <1>16

(* So does ORGH with a limit.                                              *)
LEMMA HubLimitedTwins ==
  ASSUME NEW f, NEW p, NEW q, Twins(p, q, f), NEW x \in Exps, NEW low, NEW base
  PROVE  /\ Twins(HubLimited(p, x, low), HubLimited(q, x, base), f)
         /\ Both(HubLimited(p, x, low), HubLimited(q, x, base), f) => Both(p, q, f)
<1>1. IsState(p) /\ IsState(q)
  BY TwinsState
<1>2. PICK m \in Int : m = Value(p, x)
  BY <1>1, ValueInt
<1>3. PICK n \in Int : n = Value(q, x)
  BY <1>1, ValueInt
<1>4. PICK g : g = Check(Origin(p, x), low <= m /\ m <= HubLimit, "address")
  OBVIOUS
<1>5. PICK h : h = Check(Origin(q, x), base <= n /\ n <= HubLimit, "address")
  OBVIOUS
<1>6. Twins(g, h, f)
  BY <1>4, <1>5, TwinsGet, TwinsCheck DEF Fine
<1>7. Twins([g EXCEPT !.hubLimit = m], [h EXCEPT !.hubLimit = n], f)
  BY <1>6, TwinsLimit
<1>8. Calm(g, [g EXCEPT !.hubLimit = m]) /\ Calm(h, [h EXCEPT !.hubLimit = n])
  BY <1>6, TwinsState, CogCalm
<1>9. Twins(Origin(p, x), Origin(q, x), f)
  BY TwinsGet
<1>10. Both(g, h, f) => Both(Origin(p, x), Origin(q, x), f)
  BY <1>4, <1>5, <1>9, BothChecked DEF Fine
<1>11. Both(Origin(p, x), Origin(q, x), f) => Both(p, q, f)
  BY <1>1, RestsGet, BothBefore
<1>12. Both([g EXCEPT !.hubLimit = m], [h EXCEPT !.hubLimit = n], f) => Both(g, h, f)
  BY <1>8, BothCalm
<1>13. HubLimited(p, x, low) = [g EXCEPT !.hubLimit = m] /\ HubLimited(q, x, base) = [h EXCEPT !.hubLimit = n]
  BY <1>2, <1>3, <1>4, <1>5 DEF HubLimited
<1> QED
  BY <1>7, <1>10, <1>11, <1>12, <1>13

(* Twins that fill up to the same address are twins.                       *)
LEMMA FillUpTwins ==
  ASSUME NEW f, NEW p, NEW q, Twins(p, q, f), NEW m \in Int, NEW n \in Int, Both(p, q, f) => n = m
  PROVE  Twins(FillUp(p, m), FillUp(q, n), f)
<1>1. PICK g : g = Check(p, m >= 0, "decreases")
  OBVIOUS
<1>2. PICK h : h = Check(q, n >= 0, "decreases")
  OBVIOUS
<1>3. Twins(g, h, f) /\ (Both(g, h, f) => Both(p, q, f)) /\ IsState(g) /\ IsState(h)
  BY <1>1, <1>2, TwinsCheck, BothChecked, TwinsState DEF Fine
<1>4. PICK o \in Int : o = g.hubOrg - m
  BY <1>3 DEF IsState
<1>5. PICK l \in Int : l = h.hubOrg - n
  BY <1>3 DEF IsState
<1>6. Both(g, h, f) => l = o
  <2>1. Both(g, h, f) => h.hubOrg = g.hubOrg
    BY <1>3, BothAre DEF Places
  <2> QED
    BY <1>3, <1>4, <1>5, <2>1
<1>7. PICK a : a = [g EXCEPT !.hubOrg = o]
  OBVIOUS
<1>8. PICK b : b = [h EXCEPT !.hubOrg = l]
  OBVIOUS
<1>9. Twins(a, b, f)
  <2>1. PICK zero \in Int : zero = 0
    OBVIOUS
  <2> QED
    BY <1>3, <1>6, <1>7, <1>8, <2>1, TwinsCog
<1>10. Both(a, b, f) => Both(g, h, f)
  <2>1. Calm(g, a) /\ Calm(h, b)
    BY <1>3, <1>7, <1>8, CogCalm
  <2> QED
    BY <2>1, BothCalm
<1>11. PICK op : op = "fill"
  OBVIOUS
<1>12. op \in Fillers
  BY <1>11 DEF Fillers
<1>13. Both(a, b, f) => n = m
  BY <1>3, <1>10
<1>14. Twins(EnterData(a, [op |-> op], m), EnterData(b, [op |-> op], n), f)
  BY <1>9, <1>12, <1>13, FillTwins
<1>15. FillUp(p, m) = EnterData(a, [op |-> op], m)
  BY <1>1, <1>4, <1>7, <1>11 DEF FillUp
<1>16. FillUp(q, n) = EnterData(b, [op |-> op], n)
  BY <1>2, <1>5, <1>8, <1>11 DEF FillUp
<1> QED
  BY <1>14, <1>15, <1>16

(* A line with ORGH leads from twins to twins.                             *)
LEMMA OrghTwins ==
  ASSUME NEW f, NEW p, NEW q, Twins(p, q, f), NEW line \in Lines
  PROVE  Twins(ReadOrgh(p, line), ReadOrgh(q, line), f)
<1>1. Twins(Begin(p, line), Begin(q, line), f)
  BY TwinsBegin
<1>2. Twins(Check(Begin(p, line), ~Inline(p), "inline"), Check(Begin(q, line), ~Inline(q), "inline"), f)
  BY <1>1, TwinsCheck DEF Fine
<1>3. PICK a : a = ErrorIfSymbol(Check(Begin(p, line), ~Inline(p), "inline"), line)
  OBVIOUS
<1>4. PICK b : b = ErrorIfSymbol(Check(Begin(q, line), ~Inline(q), "inline"), line)
  OBVIOUS
<1>5. Twins(a, b, f) /\ IsState(a) /\ IsState(b)
  BY <1>2, <1>3, <1>4, TwinsErrorIf, TwinsState
<1>6. PICK c : c = HubPlain(a)
  OBVIOUS
<1>7. PICK d : d = HubPlain(b)
  OBVIOUS
<1>8. Twins(c, d, f) /\ (Both(c, d, f) => Both(a, b, f)) /\ IsState(c) /\ IsState(d)
  BY <1>5, <1>6, <1>7, HubPlainTwins, TwinsState
<1>9. CASE line.org = <<>>
  <2>1. ReadOrgh(p, line) = c /\ ReadOrgh(q, line) = d
    BY <1>3, <1>4, <1>6, <1>7, <1>9 DEF ReadOrgh
  <2> QED
    BY <1>8, <2>1
<1>10. CASE line.org # <<>>
  <2>1. PICK x \in Exps : x = line.org[1]
    BY <1>10, LineIs, TwoAre
  <2>2. PICK v \in Int : v = Value(c, x)
    BY <1>8, ValueInt
  <2>3. PICK w \in Int : w = Value(d, x)
    BY <1>8, ValueInt
  <2>4. PICK g : g = HubBased(c, x)
    OBVIOUS
  <2>5. PICK h : h = HubBased(d, x)
    OBVIOUS
  <2>6. Twins(g, h, f) /\ (Both(g, h, f) => Both(c, d, f) /\ w = v)
    BY <1>8, <2>2, <2>3, <2>4, <2>5, HubBasedTwins
  <2>7. PICK j : j = IF Len(line.org) = 1 THEN g ELSE HubLimited(g, line.org[2], v)
    OBVIOUS
  <2>8. PICK k : k = IF Len(line.org) = 1 THEN h ELSE HubLimited(h, line.org[2], w)
    OBVIOUS
  <2>9. Twins(j, k, f) /\ (Both(j, k, f) => Both(g, h, f))
    <3>1. CASE Len(line.org) = 1
      BY <2>6, <2>7, <2>8, <3>1
    <3>2. CASE Len(line.org) # 1
      <4>1. line.org[2] \in Exps
        BY <1>10, <3>2, LineIs, TwoAre
      <4> QED
        BY <2>6, <2>7, <2>8, <3>2, <4>1, HubLimitedTwins
    <3> QED
      BY <3>1, <3>2
  <2>10. PICK m \in Int : m = v - a.offset
    BY <1>5 DEF IsState
  <2>11. PICK n \in Int : n = w - b.offset
    BY <1>5 DEF IsState
  <2>12. Both(j, k, f) => n = m
    <3>1. Both(a, b, f) => b.offset = a.offset
      BY <1>5, BothAre DEF Places
    <3> QED
      BY <1>8, <2>6, <2>9, <2>10, <2>11, <3>1
  <2>13. Twins(FillUp(j, m), FillUp(k, n), f)
    BY <2>9, <2>12, FillUpTwins
  <2>14. ReadOrgh(p, line) = IF p.setting.pasm THEN FillUp(j, m) ELSE j
    BY <1>3, <1>6, <1>10, <2>1, <2>2, <2>4, <2>7, <2>10 DEF ReadOrgh
  <2>15. ReadOrgh(q, line) = IF q.setting.pasm THEN FillUp(k, n) ELSE k
    BY <1>4, <1>7, <1>10, <2>1, <2>3, <2>5, <2>8, <2>11 DEF ReadOrgh
  <2>16. q.setting = p.setting
    BY TwinsState
  <2> QED
    BY <2>9, <2>13, <2>14, <2>15, <2>16
<1> QED
  BY <1>9, <1>10

(* Twins that have the same DITTO block open are twins.                    *)
LEMMA TwinsDitto ==
  ASSUME NEW f, NEW p, NEW q, Twins(p, q, f), NEW d, NEW c, IsDitto(d), IsDitto(c), Both(p, q, f) => c = d
  PROVE  Twins([p EXCEPT !.ditto = d], [q EXCEPT !.ditto = c], f)
<1>1. IsState(p) /\ IsState(q) /\ q.setting = p.setting
  BY TwinsState
<1>2. PICK a : a = [p EXCEPT !.ditto = d]
  OBVIOUS
<1>3. PICK b : b = [q EXCEPT !.ditto = c]
  OBVIOUS
<1>4. IsState(a) /\ a.setting = p.setting /\ a.pass = p.pass /\ a.err = p.err /\ a.labels = p.labels
  BY <1>1, <1>2 DEF IsState, Fields
<1>5. IsState(b) /\ b.setting = q.setting /\ b.pass = q.pass /\ b.err = q.err /\ b.labels = q.labels
  BY <1>1, <1>3 DEF IsState, Fields
<1>6. Both(p, q, f) /\ Places(p, q) => Places(a, b)
  BY <1>1, <1>2, <1>3 DEF Places, IsState, Fields
<1>7. Within(p.labels, a.labels) /\ Within(q.labels, b.labels)
  BY <1>4, <1>5 DEF Within
<1> QED
  BY <1>2, <1>3, <1>4, <1>5, <1>6, <1>7, PlacesThen DEF Both

(* A line with DITTO leads from twins to twins: the count of its copies    *)
(* has to be known in both passes.                                         *)
LEMMA DittoTwins ==
  ASSUME NEW f, NEW p, NEW q, Twins(p, q, f), Both(p, q, f), NEW line \in Lines
  PROVE  Twins(ReadDitto(p, line), ReadDitto(q, line), f)
<1>1. Twins(Begin(p, line), Begin(q, line), f)
  BY TwinsBegin
<1>2. PICK a : a = EnterDatSymbol(Begin(p, line), line, 2)
  OBVIOUS
<1>3. PICK b : b = EnterDatSymbol(Begin(q, line), line, 2)
  OBVIOUS
<1>4. Twins(a, b, f) /\ IsState(a) /\ IsState(b) /\ line.exp \in Exps
  BY <1>1, <1>2, <1>3, TwinsSymbol, TwinsState, LineIs
<1>5. q.ditto = p.ditto /\ q.at = p.at
  BY BothAre DEF Places
<1>6. CASE p.ditto.on
  <2>1. ReadDitto(p, line) = Check(a, FALSE, "end")
    BY <1>2, <1>6 DEF ReadDitto, Check
  <2>2. ReadDitto(q, line) = Check(b, FALSE, "end")
    BY <1>3, <1>5, <1>6 DEF ReadDitto, Check
  <2>3. Twins(Check(a, FALSE, "end"), Check(b, FALSE, "end"), f)
    BY <1>4, TwinsCheck DEF Fine
  <2> QED
    BY <2>1, <2>2, <2>3
<1>7. CASE ~p.ditto.on
  <2>1. PICK v \in Int : v = Value(a, line.exp)
    BY <1>4, ValueInt
  <2>2. PICK w \in Int : w = Value(b, line.exp)
    BY <1>4, ValueInt
  <2>3. PICK g : g = Check(Origin(a, line.exp), v >= 0, "count")
    OBVIOUS
  <2>4. PICK h : h = Check(Origin(b, line.exp), w >= 0, "count")
    OBVIOUS
  <2>5. Twins(Origin(a, line.exp), Origin(b, line.exp), f)
    BY <1>4, TwinsGet
  <2>6. Twins(g, h, f) /\ (Both(g, h, f) => Both(Origin(a, line.exp), Origin(b, line.exp), f))
    BY <2>3, <2>4, <2>5, TwinsCheck, BothChecked DEF Fine
  <2>7. Both(g, h, f) => w = v /\ Both(a, b, f)
    BY <1>4, <2>1, <2>2, <2>6, TwinsOrigin
  <2>8. PICK d : d = [on |-> TRUE, index |-> 0, count |-> v, at |-> p.at + 1, offset |-> a.offset]
    OBVIOUS
  <2>9. PICK c : c = [on |-> TRUE, index |-> 0, count |-> w, at |-> q.at + 1, offset |-> b.offset]
    OBVIOUS
  <2>10. IsDitto(d) /\ IsDitto(c)
    <3>1. p.at \in Int /\ q.at \in Int /\ a.offset \in Int /\ b.offset \in Int
      BY <1>4, TwinsState DEF IsState
    <3> QED
      BY <2>1, <2>2, <2>8, <2>9, <3>1 DEF IsDitto
  <2>11. Both(g, h, f) => c = d
    <3>1. Both(a, b, f) => b.offset = a.offset
      BY <1>4, BothAre DEF Places
    <3> QED
      BY <1>5, <2>7, <2>8, <2>9, <3>1
  <2>12. Twins([g EXCEPT !.ditto = d], [h EXCEPT !.ditto = c], f)
    BY <2>6, <2>10, <2>11, TwinsDitto
  <2>13. ReadDitto(p, line) = [g EXCEPT !.ditto = d]
    BY <1>2, <1>7, <2>1, <2>3, <2>8 DEF ReadDitto
  <2>14. ReadDitto(q, line) = [h EXCEPT !.ditto = c]
    BY <1>3, <1>5, <1>7, <2>2, <2>4, <2>9 DEF ReadDitto
  <2> QED
    BY <2>12, <2>13, <2>14
<1> QED
  BY <1>6, <1>7

\* t is s, at another place of the image
IsMoved(s, o, t) ==
  /\ IsState(t) /\ t.setting = s.setting /\ t.pass = s.pass /\ t.err = s.err /\ t.labels = s.labels /\ t.offset = o
  /\ t.at = s.at /\ t.hub = s.hub /\ t.cogOrg = s.cogOrg /\ t.hubOrg = s.hubOrg /\ t.orghOffset = s.orghOffset
  /\ t.scope = s.scope /\ t.ditto = s.ditto

(* What SetOffset changes: the offset, the image and the breaks.           *)
LEMMA MovedIs ==
  ASSUME NEW s, IsState(s), NEW o \in Int, NEW t, t = SetOffset(s, o)
  PROVE  IsMoved(s, o, t)
<1>1. PICK c : c = Cardinality({x \in DOMAIN s.image : s.image[x].offset < o})
  OBVIOUS
<1>2. PICK S : s.image \in Seq(S)
  BY DEF IsState
<1>3. c \in Nat /\ c <= Len(s.image)
  BY <1>1, <1>2, FewerThan
<1>4. PICK q : q = SubSeq(s.image, 1, c)
  OBVIOUS
<1>5. q \in Seq(S)
  BY <1>2, <1>3, <1>4
<1>6. PICK w : w = {at \in s.sites : at < o}
  OBVIOUS
<1>7. PICK e : e = [s EXCEPT !.offset = o, !.image = q]
  OBVIOUS
<1>8. DOMAIN e = Fields /\ e.sites = s.sites
  BY <1>7 DEF IsState, Fields
<1>9. t = [e EXCEPT !.sites = w]
  BY <1>1, <1>4, <1>6, <1>7, <1>8 DEF SetOffset, Before
<1>10. /\ DOMAIN t = Fields /\ t.offset = o /\ t.image = q
       /\ \A x \in Fields \ {"offset", "image", "sites"} : t[x] = s[x]
  BY <1>7, <1>8, <1>9 DEF IsState, Fields
<1>11. /\ t.setting = s.setting /\ t.pass = s.pass /\ t.at = s.at /\ t.hub = s.hub /\ t.scope = s.scope
       /\ t.cogOrg = s.cogOrg /\ t.cogLimit = s.cogLimit /\ t.hubOrg = s.hubOrg /\ t.hubLimit = s.hubLimit
       /\ t.orghOffset = s.orghOffset /\ t.labels = s.labels /\ t.err = s.err /\ t.ditto = s.ditto
  BY <1>10 DEF Fields
<1>12. IsState(t)
  BY <1>5, <1>10, <1>11 DEF IsState
<1> QED
  BY <1>10, <1>11, <1>12 DEF IsMoved

(* A line with DITTO END does: both passes go back, or on, or drop the     *)
(* block.                                                                  *)
LEMMA DittoEndTwins ==
  ASSUME NEW f, NEW p, NEW q, Twins(p, q, f), Both(p, q, f), NEW line
  PROVE  Twins(ReadDittoEnd(p, line), ReadDittoEnd(q, line), f)
<1>1. PICK a : a = Begin(p, line)
  OBVIOUS
<1>2. PICK b : b = Begin(q, line)
  OBVIOUS
<1>3. Twins(a, b, f) /\ IsState(a) /\ IsState(b)
  BY <1>1, <1>2, TwinsBegin, TwinsState
<1>4. q.ditto = p.ditto /\ IsDitto(p.ditto)
  BY BothAre, TwinsState DEF Places, IsState
<1>5. CASE ~p.ditto.on
  <2>1. ReadDittoEnd(p, line) = Check(a, FALSE, "end")
    BY <1>1, <1>5 DEF ReadDittoEnd, Check
  <2>2. ReadDittoEnd(q, line) = Check(b, FALSE, "end")
    BY <1>2, <1>4, <1>5 DEF ReadDittoEnd, Check
  <2>3. Twins(Check(a, FALSE, "end"), Check(b, FALSE, "end"), f)
    BY <1>3, TwinsCheck DEF Fine
  <2> QED
    BY <2>1, <2>2, <2>3
<1>6. CASE p.ditto.on /\ p.ditto.count > 0 /\ DittoRepeated(p)
  <2>1. PICK d : d = [a.ditto EXCEPT !.index = @ + 1]
    OBVIOUS
  <2>2. PICK c : c = [b.ditto EXCEPT !.index = @ + 1]
    OBVIOUS
  <2>3. IsDitto(d) /\ IsDitto(c)
    <3>1. IsDitto(a.ditto) /\ IsDitto(b.ditto)
      BY <1>3 DEF IsState
    <3> QED
      BY <2>1, <2>2, <3>1 DEF IsDitto
  <2>4. Both(a, b, f) => c = d
    BY <1>3, <2>1, <2>2, BothAre DEF Places
  <2>5. PICK n \in Int : n = p.ditto.at - 1
    BY <1>4 DEF IsDitto
  <2>6. PICK g : g = [a EXCEPT !.ditto = d]
    OBVIOUS
  <2>7. PICK h : h = [b EXCEPT !.ditto = c]
    OBVIOUS
  <2>8. Twins(g, h, f)
    BY <1>3, <2>3, <2>4, <2>6, <2>7, TwinsDitto
  <2>9. PICK j : j = [g EXCEPT !.at = n]
    OBVIOUS
  <2>10. PICK k : k = [h EXCEPT !.at = n]
    OBVIOUS
  <2>11. Twins(j, k, f)
    <3>1. IsState(g) /\ IsState(h) /\ h.setting = g.setting
      BY <2>8, TwinsState
    <3>2. IsState(j) /\ j.setting = g.setting /\ j.pass = g.pass /\ j.err = g.err /\ j.labels = g.labels
      BY <2>9, <3>1 DEF IsState, Fields
    <3>3. IsState(k) /\ k.setting = h.setting /\ k.pass = h.pass /\ k.err = h.err /\ k.labels = h.labels
      BY <2>10, <3>1 DEF IsState, Fields
    <3>4. Places(g, h) => Places(j, k)
      BY <2>9, <2>10, <3>1 DEF Places, IsState, Fields
    <3>5. Within(g.labels, j.labels) /\ Within(h.labels, k.labels)
      BY <3>2, <3>3 DEF Within
    <3> QED
      BY <2>8, <3>2, <3>3, <3>4, <3>5, PlacesThen
  <2>12. DittoRepeated(q)
    BY <1>4, <1>6 DEF DittoRepeated
  <2>13. ReadDittoEnd(p, line) = [a EXCEPT !.ditto = d, !.at = n]
    BY <1>1, <1>6, <2>1, <2>5 DEF ReadDittoEnd
  <2>14. ReadDittoEnd(q, line) = [b EXCEPT !.ditto = c, !.at = n]
    BY <1>2, <1>4, <1>6, <2>2, <2>5, <2>12 DEF ReadDittoEnd
  <2>15. [a EXCEPT !.ditto = d, !.at = n] = j /\ [b EXCEPT !.ditto = c, !.at = n] = k
    BY <1>3, <2>6, <2>7, <2>9, <2>10 DEF IsState, Fields
  <2> QED
    BY <2>11, <2>13, <2>14, <2>15
<1>7. CASE p.ditto.on /\ ~(p.ditto.count > 0 /\ DittoRepeated(p))
  <2>1. PICK o \in Int : o = p.ditto.offset
    BY <1>4 DEF IsDitto
  <2>2. PICK g : g = IF p.ditto.count = 0 THEN SetOffset(a, o) ELSE a
    OBVIOUS
  <2>3. PICK h : h = IF p.ditto.count = 0 THEN SetOffset(b, o) ELSE b
    OBVIOUS
  <2>4. Twins(g, h, f)
    <3>1. CASE p.ditto.count = 0
      <4>1. IsMoved(a, o, g) /\ IsMoved(b, o, h)
        BY <1>3, <2>2, <2>3, <3>1, MovedIs
      <4>2. Within(a.labels, g.labels) /\ Within(b.labels, h.labels)
        BY <4>1 DEF IsMoved, Within
      <4> QED
        BY <1>3, <4>1, <4>2, PlacesThen DEF IsMoved, Places
    <3>2. CASE p.ditto.count # 0
      BY <1>3, <2>2, <2>3, <3>2
    <3> QED
      BY <3>1, <3>2
  <2>5. IsDitto(NoDitto)
    BY DEF IsDitto, NoDitto
  <2>6. Twins([g EXCEPT !.ditto = NoDitto], [h EXCEPT !.ditto = NoDitto], f)
    BY <2>4, <2>5, TwinsDitto
  <2>7. PICK j : j = EnterDatSymbol([g EXCEPT !.ditto = NoDitto], line, 2)
    OBVIOUS
  <2>8. PICK k : k = EnterDatSymbol([h EXCEPT !.ditto = NoDitto], line, 2)
    OBVIOUS
  <2>9. Twins(j, k, f)
    BY <2>6, <2>7, <2>8, TwinsSymbol
  <2>10. ReadDittoEnd(p, line) = j
    BY <1>1, <1>7, <2>1, <2>2, <2>7 DEF ReadDittoEnd
  <2>11. ReadDittoEnd(q, line) = k
    BY <1>2, <1>4, <1>7, <2>1, <2>3, <2>8 DEF ReadDittoEnd, DittoRepeated
  <2> QED
    BY <2>9, <2>10, <2>11
<1> QED
  BY <1>5, <1>6, <1>7
-----------------------------------------------------------------------------
(* A line read in either pass.                                             *)

\* what reads a line, and the state it leaves at the next one
Read(s, line) ==
  CASE line.t = "label" -> ReadLabel(s, line)
    [] line.t = "data" -> ReadData(s, line)
    [] line.t = "inst" -> ReadInstruction(s, line)
    [] line.t = "file" -> ReadFile(s, line)
    [] line.t = "struct" -> ReadStruct(s, line)
    [] line.t = "ditto" -> ReadDitto(s, line)
    [] line.t = "dittoend" -> ReadDittoEnd(s, line)
    [] line.t = "fit" -> ReadFit(s, line)
    [] line.t = "res" -> ReadRes(s, line)
    [] line.t = "orgf" -> ReadOrgf(s, line)
    [] line.t = "align" -> ReadAlign(s, line)
    [] line.t = "org" -> ReadOrg(s, line)
    [] line.t = "orgh" -> ReadOrgh(s, line)
    [] line.t = "end" -> ReadEnd(s, line)
Reading(l, s) == Stepped(IF l[s.at].t = "end" THEN [Read(s, l[s.at]) EXCEPT !.at = Len(l)] ELSE Read(s, l[s.at]))

(* Every line leads from twins to twins.                                   *)
LEMMA ReadTwins ==
  ASSUME NEW f, NEW p, NEW q, Twins(p, q, f), Both(p, q, f), NEW line \in Lines, line.t = "align" => line.n > 0
  PROVE  Twins(Read(p, line), Read(q, line), f)
<1>1. line.t \in {"label", "data", "inst", "file", "struct", "ditto", "dittoend", "fit", "res", "orgf", "align", "org", "orgh", "end"}
  BY DEF Lines
<1>2. CASE line.t \in {"label", "data", "inst", "file"}
  BY <1>2, LabelTwins, DataTwins, InstructionTwins, FileTwins DEF Read
<1>3. CASE line.t \in {"struct", "ditto", "dittoend", "fit"}
  BY <1>3, StructTwins, DittoTwins, DittoEndTwins, FitTwins DEF Read
<1>4. CASE line.t \in {"res", "orgf", "align"}
  BY <1>4, ResTwins, OrgfTwins, AlignTwins DEF Read
<1>5. CASE line.t \in {"org", "orgh", "end"}
  BY <1>5, OrgTwins, OrghTwins, EndTwins DEF Read
<1> QED
  BY <1>1, <1>2, <1>3, <1>4, <1>5

(* Twins that go on to the next line are twins.                            *)
LEMMA TwinsStepped ==
  ASSUME NEW f, NEW p, NEW q, Twins(p, q, f)
  PROVE  Twins(Stepped(p), Stepped(q), f)
<1>1. IsState(p) /\ IsState(q)
  BY TwinsState
<1>2. PICK a : a = Stepped(p)
  OBVIOUS
<1>3. PICK b : b = Stepped(q)
  OBVIOUS
<1>4. /\ IsState(a) /\ a.setting = p.setting /\ a.pass = p.pass /\ a.err = p.err /\ a.labels = p.labels
      /\ IsState(b) /\ b.setting = q.setting /\ b.pass = q.pass /\ b.err = q.err /\ b.labels = q.labels
  BY <1>1, <1>2, <1>3, SteppedIs
<1>5. PICK m : m = IF p.err = Fine THEN p.at + 1 ELSE p.at
  OBVIOUS
<1>6. PICK n : n = IF q.err = Fine THEN q.at + 1 ELSE q.at
  OBVIOUS
<1>7. a = [p EXCEPT !.at = m] /\ b = [q EXCEPT !.at = n]
  BY <1>2, <1>3, <1>5, <1>6 DEF Stepped
<1>8. p.err = Fine /\ q.err = Fine /\ Places(p, q) => n = m
  BY <1>5, <1>6 DEF Places
<1>9. p.err = Fine /\ q.err = Fine /\ Places(p, q) => Places(a, b)
  BY <1>1, <1>7, <1>8 DEF Places, IsState, Fields
<1>10. Within(p.labels, a.labels) /\ Within(q.labels, b.labels)
  BY <1>4 DEF Within
<1> QED
  BY <1>2, <1>3, <1>4, <1>9, <1>10, PlacesThen

(* One step of each pass leads from twins to twins.                        *)
LEMMA ReadingTwins ==
  ASSUME NEW l \in Seq(Lines), NEW f, NEW p, NEW q, Twins(p, q, f), Both(p, q, f), p.at \in 1..Len(l), l[p.at].t = "align" => l[p.at].n > 0
  PROVE  Twins(Reading(l, p), Reading(l, q), f)
<1>1. PICK line \in Lines : line = l[p.at]
  OBVIOUS
<1>2. q.at = p.at
  BY BothAre DEF Places
<1>3. PICK a : a = Read(p, line)
  OBVIOUS
<1>4. PICK b : b = Read(q, line)
  OBVIOUS
<1>5. Twins(a, b, f) /\ IsState(a) /\ IsState(b)
  BY <1>1, <1>3, <1>4, ReadTwins, TwinsState
<1>6. CASE line.t # "end"
  <2>1. Reading(l, p) = Stepped(a) /\ Reading(l, q) = Stepped(b)
    BY <1>1, <1>2, <1>3, <1>4, <1>6 DEF Reading
  <2> QED
    BY <1>5, <2>1, TwinsStepped
<1>7. CASE line.t = "end"
  <2>1. PICK n \in Int : n = Len(l)
    OBVIOUS
  <2>2. PICK g : g = [a EXCEPT !.at = n]
    OBVIOUS
  <2>3. PICK h : h = [b EXCEPT !.at = n]
    OBVIOUS
  <2>4. IsState(g) /\ g.setting = a.setting /\ g.pass = a.pass /\ g.err = a.err /\ g.labels = a.labels
    BY <1>5, <2>2 DEF IsState, Fields
  <2>5. IsState(h) /\ h.setting = b.setting /\ h.pass = b.pass /\ h.err = b.err /\ h.labels = b.labels
    BY <1>5, <2>3 DEF IsState, Fields
  <2>6. Places(a, b) => Places(g, h)
    BY <1>5, <2>2, <2>3 DEF Places, IsState, Fields
  <2>7. Within(a.labels, g.labels) /\ Within(b.labels, h.labels)
    BY <2>4, <2>5 DEF Within
  <2>8. Twins(g, h, f)
    BY <1>5, <2>4, <2>5, <2>6, <2>7, PlacesThen
  <2>9. Reading(l, p) = Stepped(g) /\ Reading(l, q) = Stepped(h)
    BY <1>1, <1>2, <1>3, <1>4, <1>7, <2>1, <2>2, <2>3 DEF Reading
  <2> QED
    BY <2>8, <2>9, TwinsStepped
<1> QED
  BY <1>6, <1>7

\* u is what s becomes when a line is read
After(s, u) ==
  /\ Good(u) /\ u.setting = s.setting /\ u.pass = s.pass
  /\ u.err = Fine => s.err = Fine /\ Kin(s, u) /\ Within(s.labels, u.labels)

(* Every line but the last one of inline code steps to the next one.       *)
LEMMA ReadSteps ==
  ASSUME NEW s, Good(s), s.err = Fine, NEW line \in Lines, line.t = "align" => line.n > 0, line.t # "end"
  PROVE  Steps(s, Stepped(Read(s, line)))
<1>1. line.t \in {"label", "data", "inst", "file", "struct", "ditto", "dittoend", "fit", "res", "orgf", "align", "org", "orgh"}
  BY DEF Lines
<1>2. CASE line.t \in {"label", "data", "inst", "file"}
  BY <1>2, LabelGoes, DataGoes, InstructionGoes, FileGoes, GoesSteps DEF Read
<1>3. CASE line.t \in {"struct", "ditto", "dittoend", "fit"}
  BY <1>3, StructGoes, DittoSteps, DittoEndSteps, FitGoes, GoesSteps DEF Read
<1>4. CASE line.t \in {"res", "orgf", "align"}
  BY <1>4, ResGoes, OrgfGoes, AlignGoes, GoesSteps DEF Read
<1>5. CASE line.t \in {"org", "orgh"}
  BY <1>5, OrgGoes, OrghGoes, GoesSteps DEF Read
<1> QED
  BY <1>1, <1>2, <1>3, <1>4, <1>5

(* A line that is read leaves the image whole, keeps the labels and adds   *)
(* only pieces of its own.                                                 *)
LEMMA ReadingAfter ==
  ASSUME NEW l \in Seq(Lines), NEW s, Sound(l, s), s.err = Fine, s.pass < 3, s.at <= Len(l),
         \A x \in DOMAIN l : l[x].t = "align" => l[x].n > 0, NEW u, u = Reading(l, s)
  PROVE  Sound(l, u) /\ After(s, u)
<1>1. Good(s) /\ s.at \in 1..Len(l)
  BY DEF Sound, Good, IsState
<1>2. PICK line \in Lines : line = l[s.at] /\ (line.t = "align" => line.n > 0)
  BY <1>1
<1>3. CASE line.t # "end"
  <2>1. Steps(s, u)
    BY <1>1, <1>2, <1>3, ReadSteps DEF Reading
  <2>2. Sound(l, u)
    BY <1>2, <1>3, <2>1, OtherLine
  <2> QED
    BY <2>1, <2>2 DEF Steps, After
<1>4. CASE line.t = "end"
  <2>1. PICK t : t = ReadEnd(s, line)
    OBVIOUS
  <2>2. Goes(s, t) /\ IsState(t)
    BY <1>1, <2>1, EndGoes, GoesState
  <2>3. PICK n \in Int : n = Len(l)
    OBVIOUS
  <2>4. PICK v : v = [t EXCEPT !.at = n]
    OBVIOUS
  <2>5. u = Stepped(v)
    BY <1>2, <1>4, <2>1, <2>3, <2>4 DEF Reading, Read
  <2>6. Sound(l, u)
    <3>1. t = ReadEnd(s, l[s.at]) /\ u = Stepped([t EXCEPT !.at = Len(l)])
      BY <1>2, <2>1, <2>3, <2>4, <2>5
    <3> QED
      BY <3>1, EndLine
  <2>7. IsState(v) /\ v.setting = t.setting /\ v.pass = t.pass /\ v.err = t.err /\ v.labels = t.labels /\ v.image = t.image
    BY <2>2, <2>4 DEF IsState, Fields
  <2>8. u.setting = t.setting /\ u.pass = t.pass /\ u.err = t.err /\ u.labels = t.labels /\ u.image = t.image
    BY <2>5, <2>7, SteppedIs
  <2>9. u.err = Fine => s.err = Fine /\ Kin(s, u) /\ Within(s.labels, u.labels)
    BY <2>2, <2>8, KinImage DEF Goes
  <2> QED
    BY <2>2, <2>6, <2>8, <2>9 DEF Goes, After, Sound
<1> QED
  BY <1>3, <1>4
-----------------------------------------------------------------------------
(* Where a line stands.                                                    *)

FirstIn(s, x) ==
  /\ s.image[x].what.op \notin Fillers
  /\ x > 1 => s.image[x - 1].line # s.image[x].line \/ s.image[x - 1].what.op \in Fillers
StandsIn(labels, label, scope, offset, hub, org) ==
  LET key == <<label.name, IF label.local THEN scope ELSE -1>>
  IN  /\ key \in DOMAIN labels
      /\ labels[key].offset = offset /\ labels[key].hub = hub
      /\ hub \/ labels[key].cog * 4 = org
Named(line) == line.t \in Labelled /\ line.label.name # Nameless
\* the line is read at this place, pad bytes behind that of s
Entry(labels, s, line, pad) == StandsIn(labels, line.label, s.scope, s.offset + pad, s.hub, Here(s) + pad)
\* what t has behind m are pieces of the line, one behind the other
Behind(m, t) ==
  t.err = Fine => /\ m.err = Fine /\ Within(m.labels, t.labels) /\ Len(m.image) <= Len(t.image)
                  /\ \A x \in 1..Len(m.image) : t.image[x] = m.image[x]
                  /\ \A x \in (Len(m.image) + 1)..Len(t.image) : Piece(m, t, Len(m.image), x, "code")
\* the first of them that is no filler is at the place where the line is read
Headed(s, line, pad, t) ==
  /\ Len(s.image) <= Len(t.image)
  /\ \A x \in 1..Len(s.image) : t.image[x] = s.image[x]
  /\ \A x \in (Len(s.image) + 1)..Len(t.image) :
       t.image[x].line = s.at
       /\ (FirstIn(t, x) => /\ t.image[x].offset = s.offset + pad /\ t.image[x].hub = s.hub /\ t.image[x].org = Here(s) + pad
                            /\ line.label.local => t.image[x].scope = s.scope)

(* A label stands where it stood while the labels there are stay.          *)
LEMMA StandsWithin ==
  ASSUME NEW f, NEW g, Within(f, g), NEW label, NEW scope, NEW offset, NEW hub, NEW org, StandsIn(f, label, scope, offset, hub, org)
  PROVE  StandsIn(g, label, scope, offset, hub, org)
<1>1. PICK key : key = <<label.name, IF label.local THEN scope ELSE -1>>
  OBVIOUS
<1>2. key \in DOMAIN f /\ f[key].offset = offset /\ f[key].hub = hub /\ (hub \/ f[key].cog * 4 = org)
  BY <1>1 DEF StandsIn
<1>3. key \in DOMAIN g /\ g[key] = f[key]
  BY <1>2 DEF Within
<1> QED
  BY <1>1, <1>2, <1>3 DEF StandsIn

(* What writes code keeps what was written.                                *)
LEMMA PutBehind ==
  ASSUME NEW m, NEW t, NEW n, Put(m, t, n, "code")
  PROVE  Behind(m, t)
BY DEF Put, Same, Grown, Behind, Within

(* So does what writes nothing.                                            *)
LEMMA StillBehind ==
  ASSUME NEW m, NEW t, IsState(m), t.err = Fine => m.err = Fine /\ t.image = m.image /\ Within(m.labels, t.labels)
  PROVE  Behind(m, t)
<1>1. Len(m.image) \in Nat
  BY DEF IsState
<1> QED
  BY <1>1 DEF Behind

(* What is the same behind the start of a line; in the first pass its      *)
(* label is a new one.                                                     *)
LEMMA BeginFine ==
  ASSUME NEW s, IsState(s), NEW line, NEW b, b = Begin(s, line), b.err = Fine
  PROVE  /\ s.err = Fine /\ b.labels = s.labels /\ b.pass = s.pass /\ b.image = s.image
         /\ b.at = s.at /\ b.offset = s.offset /\ b.hub = s.hub /\ b.cogOrg = s.cogOrg /\ b.hubOrg = s.hubOrg /\ b.ditto = s.ditto
         /\ line.label.local => b.scope = s.scope
         /\ s.pass # 2 => Key(b, line.label.name, line.label.local) \notin DOMAIN s.labels
<1>1. PICK t : t = IF line.label.name # Nameless /\ ~line.label.local THEN [s EXCEPT !.scope = @ + 1] ELSE s
  OBVIOUS
<1>2. IsState(t)
  BY <1>1 DEF IsState, Fields
<1>3. b = Check(t, Must(s) \/ ~Known(t, Key(t, line.label.name, line.label.local)), "defined")
  BY <1>1 DEF Begin
<1>4. b = t
  BY <1>2, <1>3, CheckIs DEF Fine
<1>5. /\ t.labels = s.labels /\ t.pass = s.pass /\ t.err = s.err /\ t.image = s.image
      /\ t.at = s.at /\ t.offset = s.offset /\ t.hub = s.hub /\ t.cogOrg = s.cogOrg /\ t.hubOrg = s.hubOrg /\ t.ditto = s.ditto
      /\ line.label.local => t.scope = s.scope
  BY <1>1 DEF IsState, Fields
<1>6. PICK new : new = (Must(s) \/ ~Known(t, Key(t, line.label.name, line.label.local)))
  OBVIOUS
<1>7. ASSUME ~new PROVE FALSE
  <2>1. b = Fail(t, "defined")
    BY <1>3, <1>6, <1>7 DEF Check
  <2>2. t.err = Fine
    BY <1>4
  <2>3. b = [t EXCEPT !.err = "defined"]
    BY <2>1, <2>2 DEF Fail
  <2>4. b.err = "defined"
    BY <1>2, <2>3 DEF IsState, Fields
  <2> QED
    BY <2>4 DEF Fine
<1>8. s.pass # 2 => Key(b, line.label.name, line.label.local) \notin DOMAIN s.labels
  BY <1>4, <1>5, <1>6, <1>7 DEF Must, Known
<1> QED
  BY <1>4, <1>5, <1>8

(* A new label stands where the pass is.                                   *)
LEMMA SymbolEnters ==
  ASSUME NEW e, IsState(e), NEW line, NEW size, NEW m, m = EnterDatSymbol(e, line, size), m.err = Fine,
         line.label.name # Nameless, Key(e, line.label.name, line.label.local) \notin DOMAIN e.labels
  PROVE  StandsIn(m.labels, line.label, e.scope, e.offset, e.hub, Here(e))
<1>1. PICK key : key = Key(e, line.label.name, line.label.local)
  OBVIOUS
<1>2. PICK label : label = [hub |-> e.hub, offset |-> e.offset, cog |-> e.cogOrg \div 4, size |-> size]
  OBVIOUS
<1>3. e.err = Fine
  BY SymbolCalm DEF Calm, Quiet
<1>4. ~(line.label.name = Nameless \/ Known(e, key) \/ e.err # Fine)
  BY <1>1, <1>3 DEF Known
<1>5. ~(~e.hub /\ e.cogOrg % 4 # 0)
  <2>1. SUFFICES ASSUME ~e.hub /\ e.cogOrg % 4 # 0 PROVE FALSE
    OBVIOUS
  <2>2. m = Fail(e, "unaligned")
    BY <1>1, <1>4, <2>1 DEF EnterDatSymbol
  <2>3. m = [e EXCEPT !.err = "unaligned"]
    BY <1>3, <2>2 DEF Fail
  <2>4. m.err = "unaligned"
    BY <2>3 DEF IsState, Fields
  <2> QED
    BY <2>4 DEF Fine
<1>6. PICK n : n = [k \in DOMAIN e.labels \cup {key} |-> IF k = key THEN label ELSE e.labels[k]]
  OBVIOUS
<1>7. m = [e EXCEPT !.word = size, !.labels = n]
  BY <1>1, <1>2, <1>4, <1>5, <1>6 DEF EnterDatSymbol
<1>8. m.labels = n
  BY <1>7 DEF IsState, Fields
<1>9. key \in DOMAIN n /\ n[key] = label
  BY <1>6
<1>10. e.hub \/ label.cog * 4 = Here(e)
  <2>1. e.cogOrg \in Int
    BY DEF IsState
  <2>2. e.cogOrg % 4 = 0 => (e.cogOrg \div 4) * 4 = e.cogOrg
    BY <2>1
  <2> QED
    BY <1>2, <1>5, <2>2 DEF Here
<1>11. key = <<line.label.name, IF line.label.local THEN e.scope ELSE -1>>
  BY <1>1 DEF Key
<1> QED
  BY <1>2, <1>8, <1>9, <1>10, <1>11 DEF StandsIn

(* A line that pads, enters its label and writes its code: the first       *)
(* piece of the code stands, by its offset and its address, where a label  *)
(* is entered.                                                             *)
LEMMA Heads ==
  ASSUME NEW s, IsState(s), NEW line, NEW b, b = Begin(s, line), NEW pad \in Int, NEW e, Put(b, e, pad, "filler"),
         NEW size, NEW m, m = EnterDatSymbol(e, line, size), NEW t, IsState(t), Behind(m, t), t.err = Fine
  PROVE  Headed(s, line, pad, t) /\ (s.pass # 2 /\ line.label.name # Nameless => Entry(t.labels, s, line, pad))
<1>1. IsState(b) /\ IsState(e) /\ IsState(m)
  BY BeginCalm, SymbolCalm, CalmIs DEF Put
<1>2. m.err = Fine /\ Within(m.labels, t.labels)
  BY DEF Behind
<1>3. e.err = Fine /\ m.image = e.image /\ m.at = e.at /\ m.offset = e.offset
  BY <1>1, <1>2, SymbolCalm DEF Calm, Quiet
<1>4. m.hub = e.hub /\ m.cogOrg = e.cogOrg /\ m.hubOrg = e.hubOrg /\ m.scope = e.scope
  BY <1>1, <1>2, RestsSymbol DEF Rests, Places
<1>5. b.err = Fine /\ Same(b, e) /\ Moved(b, e, pad) /\ Grown(b, e, "filler")
  BY <1>3 DEF Put
<1>6. /\ b.labels = s.labels /\ b.image = s.image /\ b.at = s.at /\ b.offset = s.offset /\ b.hub = s.hub /\ b.cogOrg = s.cogOrg /\ b.hubOrg = s.hubOrg
      /\ line.label.local => b.scope = s.scope
      /\ s.pass # 2 => Key(b, line.label.name, line.label.local) \notin DOMAIN s.labels
  BY <1>5, BeginFine
<1>7. e.at = s.at /\ e.scope = b.scope /\ e.hub = s.hub /\ e.labels = s.labels /\ e.offset = s.offset + pad
  BY <1>5, <1>6 DEF Same, Moved
<1>8. Here(e) = Here(s) + pad
  BY <1>5, <1>6 DEF Same, Moved, Here
<1>9. Here(m) = Here(e) /\ Here(m) \in Int /\ m.offset \in Int
  BY <1>1, <1>4 DEF Here, IsState
<1>10. PICK a \in Nat : a = Len(s.image)
  BY DEF IsState
<1>11. PICK c \in Nat : c = Len(m.image)
  BY <1>1 DEF IsState
<1>12. a <= c /\ (\A x \in 1..a : m.image[x] = s.image[x]) /\ \A x \in (a + 1)..c : Piece(b, e, a, x, "filler")
  BY <1>3, <1>5, <1>6, <1>10, <1>11 DEF Grown
<1>13. PICK d \in Nat : d = Len(t.image)
  BY DEF IsState
<1>14. c <= d /\ (\A x \in 1..c : t.image[x] = m.image[x]) /\ \A x \in (c + 1)..d : Piece(m, t, c, x, "code")
  BY <1>11, <1>13 DEF Behind
<1>15. ASSUME NEW x \in (c + 1)..d
       PROVE  t.image[x].line = s.at /\ t.image[x].scope = b.scope /\ t.image[x].hub = s.hub /\ t.image[x].what.op \notin Fillers
              /\ (x = c + 1 => t.image[x].offset = s.offset + pad /\ t.image[x].org = Here(s) + pad)
  <2>1. Piece(m, t, c, x, "code")
    BY <1>14
  <2>2. t.image[x].line = m.at /\ t.image[x].scope = m.scope /\ t.image[x].hub = m.hub /\ t.image[x].what.op \notin Fillers
    BY <2>1 DEF Piece
  <2>3. x = c + 1 => t.image[x].offset = m.offset
    BY <2>1 DEF Piece
  <2>4. t.image[x].org = Here(m) + (t.image[x].offset - m.offset)
    BY <2>1 DEF Piece
  <2> QED
    BY <1>3, <1>4, <1>7, <1>8, <1>9, <2>2, <2>3, <2>4
<1>16. ASSUME NEW x \in (a + 1)..c
       PROVE  t.image[x].line = s.at /\ t.image[x].what.op \in Fillers
  <2>1. Piece(b, e, a, x, "filler")
    BY <1>12
  <2>2. e.image[x].line = b.at /\ e.image[x].what.op \in Fillers
    BY <2>1 DEF Piece
  <2>3. t.image[x] = e.image[x]
    <3>1. x \in 1..c
      BY <1>10
    <3> QED
      BY <1>3, <1>14, <3>1
  <2> QED
    BY <1>6, <2>2, <2>3
<1>17. \A x \in 1..a : t.image[x] = s.image[x]
  BY <1>12, <1>14
<1>18. ASSUME NEW x \in (a + 1)..d
       PROVE  /\ t.image[x].line = s.at
              /\ FirstIn(t, x) => /\ t.image[x].offset = s.offset + pad /\ t.image[x].hub = s.hub /\ t.image[x].org = Here(s) + pad
                                  /\ line.label.local => t.image[x].scope = s.scope
  <2>1. CASE x <= c
    <3>1. x \in (a + 1)..c
      BY <1>11, <2>1
    <3> QED
      BY <1>16, <3>1 DEF FirstIn
  <2>2. CASE x = c + 1
    <3>1. x \in (c + 1)..d
      BY <2>2
    <3> QED
      BY <1>6, <1>15, <2>2, <3>1
  <2>3. CASE x > c + 1
    <3>1. x \in (c + 1)..d /\ x - 1 \in (c + 1)..d /\ x > 1
      BY <1>11, <1>13, <2>3
    <3>2. t.image[x].line = s.at /\ t.image[x - 1].line = s.at /\ t.image[x - 1].what.op \notin Fillers
      BY <1>15, <3>1
    <3>3. ~FirstIn(t, x)
      BY <3>1, <3>2 DEF FirstIn
    <3> QED
      BY <3>2, <3>3
  <2> QED
    BY <1>11, <2>1, <2>2, <2>3
<1>19. Headed(s, line, pad, t)
  BY <1>10, <1>12, <1>13, <1>14, <1>17, <1>18 DEF Headed
<1>20. ASSUME s.pass # 2, line.label.name # Nameless PROVE Entry(t.labels, s, line, pad)
  <2>1. Key(e, line.label.name, line.label.local) = Key(b, line.label.name, line.label.local)
    BY <1>7 DEF Key
  <2>2. StandsIn(m.labels, line.label, e.scope, e.offset, e.hub, Here(e))
    BY <1>1, <1>2, <1>6, <1>7, <1>20, <2>1, SymbolEnters
  <2>3. StandsIn(t.labels, line.label, e.scope, e.offset, e.hub, Here(e))
    BY <1>2, <2>2, StandsWithin
  <2>4. StandsIn(t.labels, line.label, e.scope, s.offset + pad, s.hub, Here(s) + pad)
    BY <1>7, <1>8, <2>3
  <2>5. line.label.local => e.scope = s.scope
    BY <1>6, <1>7
  <2> QED
    BY <2>4, <2>5 DEF Entry, StandsIn
<1> QED
  BY <1>19, <1>20

Pad(s, line) == IF ~s.hub /\ line.t \in {"inst", "res"} THEN (-s.cogOrg) % 4 ELSE 0
\* what t, the state after a line that has a label, says of the place of the line
Placed(s, line, t) ==
  t.err = Fine => Headed(s, line, Pad(s, line), t) /\ (s.pass # 2 /\ line.label.name # Nameless => Entry(t.labels, s, line, Pad(s, line)))

(* A line that does not pad.                                               *)
LEMMA NoPad ==
  ASSUME NEW s, IsState(s), NEW line, NEW b, b = Begin(s, line)
  PROVE  IsState(b) /\ Put(b, b, 0, "filler") /\ 0 \in Int
<1>1. IsState(b)
  BY BeginCalm, CalmIs
<1>2. "filler" \in {"code", "filler"} /\ 0 \in Int
  OBVIOUS
<1> QED
  BY <1>1, <1>2, Still

(* A line with only a label enters it where the line begins.               *)
LEMMA LabelPlaced ==
  ASSUME NEW s, IsState(s), NEW line, line.t = "label"
  PROVE  Placed(s, line, ReadLabel(s, line))
<1>1. PICK b : b = Begin(s, line)
  OBVIOUS
<1>2. IsState(b) /\ Put(b, b, 0, "filler") /\ 0 \in Int
  BY <1>1, NoPad
<1>3. PICK m : m = EnterDatSymbol(b, line, s.word)
  OBVIOUS
<1>4. IsState(m)
  BY <1>2, <1>3, SymbolCalm, CalmIs
<1>5. Behind(m, m)
  BY <1>4, StillBehind DEF Within
<1>6. Pad(s, line) = 0
  BY DEF Pad
<1>7. ReadLabel(s, line) = m
  BY <1>1, <1>3 DEF ReadLabel
<1> QED
  BY <1>1, <1>2, <1>3, <1>4, <1>5, <1>6, <1>7, Heads DEF Placed

(* Data write code only.                                                   *)
LEMMA ReadPuts ==
  ASSUME NEW s, IsState(s), NEW data, NEW n \in Nat, NEW r, ReadUpTo(s, data, n, r), \A x \in 1..n : data[x] \in Datums
  PROVE  \E k \in Int : Put(s, r[n], k, "code")
<1>1. ASSUME NEW x \in 0..n PROVE r[x] = IF x = 0 THEN s ELSE Datum(r[x - 1], data[x])
  BY DEF ReadUpTo
<1>2. "code" \in {"code", "filler"} /\ 0 \in Int
  OBVIOUS
<1> DEFINE G == {j \in 0..n : \E k \in Int : Put(s, r[j], k, "code")}
<1>3. 0 \in G
  <2>1. Put(s, s, 0, "code") /\ r[0] = s
    BY <1>1, <1>2, Still
  <2> QED
    BY <1>2, <2>1
<1>4. ASSUME NEW j \in 1..n, j - 1 \in G PROVE j \in G
  <2>1. PICK k \in Int : Put(s, r[j - 1], k, "code")
    BY <1>4
  <2>2. PICK t : t = r[j - 1]
    OBVIOUS
  <2>3. IsState(t)
    BY <2>1, <2>2 DEF Put
  <2>4. PICK i \in Int : i = DatumSize(t, data[j])
    BY <2>3, DatumPuts
  <2>5. Put(t, Datum(t, data[j]), i, "code")
    BY <2>3, <2>4, DatumPuts
  <2>6. Put(s, Datum(t, data[j]), k + i, "code")
    BY <1>2, <2>1, <2>2, <2>5, Then
  <2>7. r[j] = Datum(t, data[j])
    BY <1>1, <2>2
  <2> QED
    BY <2>6, <2>7
<1> HIDE DEF G
<1>5. n \in G
  BY <1>3, <1>4, UpTo
<1> QED
  BY <1>5 DEF G

(* A line with data enters its label where the data begin.                 *)
LEMMA DataPlaced ==
  ASSUME NEW s, IsState(s), NEW line \in Lines, line.t = "data"
  PROVE  Placed(s, line, ReadData(s, line))
<1>1. PICK b : b = Begin(s, line)
  OBVIOUS
<1>2. IsState(b) /\ Put(b, b, 0, "filler") /\ 0 \in Int
  BY <1>1, NoPad
<1>3. PICK m : m = EnterDatSymbol(b, line, line.w)
  OBVIOUS
<1>4. IsState(m)
  BY <1>2, <1>3, SymbolCalm, CalmIs
<1>5. PICK n \in Nat : n = Len(line.data) /\ \A x \in 1..n : line.data[x] \in Datums
  BY LineIs
<1>6. PICK data : data = line.data
  OBVIOUS
<1>7. PICK r : r = CHOOSE q : ReadUpTo(m, data, n, q)
  OBVIOUS
<1>8. ReadUpTo(m, data, n, r)
  BY <1>7, ReadExists
<1>9. PICK k \in Int : Put(m, r[n], k, "code")
  BY <1>4, <1>5, <1>6, <1>8, ReadPuts
<1>10. Behind(m, r[n]) /\ IsState(r[n])
  BY <1>9, PutBehind DEF Put
<1>11. Pad(s, line) = 0
  BY DEF Pad
<1>12. ReadData(s, line) = r[n]
  BY <1>1, <1>3, <1>5, <1>6, <1>7 DEF ReadData, ReadUpTo
<1> QED
  BY <1>1, <1>2, <1>3, <1>10, <1>11, <1>12, Heads DEF Placed

(* A line with FILE does.                                                  *)
LEMMA FilePlaced ==
  ASSUME NEW s, IsState(s), NEW line \in Lines, line.t = "file"
  PROVE  Placed(s, line, ReadFile(s, line))
<1>1. PICK b : b = Begin(s, line)
  OBVIOUS
<1>2. IsState(b) /\ Put(b, b, 0, "filler") /\ 0 \in Int
  BY <1>1, NoPad
<1>3. PICK m : m = EnterDatSymbol(b, line, 0)
  OBVIOUS
<1>4. IsState(m)
  BY <1>2, <1>3, SymbolCalm, CalmIs
<1>5. PICK n \in Nat : n = line.n
  BY LineIs
<1>6. PICK what : what = [op |-> "file"]
  OBVIOUS
<1>7. what.op # "debug" /\ (what.op \in Fillers <=> "code" = "filler") /\ "code" \in {"code", "filler"}
  BY <1>6 DEF Fillers
<1>8. PICK k : k = IF n <= 0 THEN 0 ELSE n
  OBVIOUS
<1>9. PICK t : t = EnterData(m, what, n)
  OBVIOUS
<1>10. Put(m, t, k, "code")
  BY <1>4, <1>7, <1>8, <1>9, EnterDataPuts
<1>11. Behind(m, t) /\ IsState(t)
  BY <1>10, PutBehind DEF Put
<1>12. Pad(s, line) = 0
  BY DEF Pad
<1>13. ReadFile(s, line) = t
  BY <1>1, <1>3, <1>5, <1>6, <1>9 DEF ReadFile
<1> QED
  BY <1>1, <1>2, <1>3, <1>11, <1>12, <1>13, Heads DEF Placed

(* A line with an instruction enters its label behind the padding.         *)
LEMMA InstructionPlaced ==
  ASSUME NEW s, IsState(s), NEW line \in Lines, line.t = "inst"
  PROVE  Placed(s, line, ReadInstruction(s, line))
<1>1. PICK b : b = Begin(s, line)
  OBVIOUS
<1>2. IsState(b)
  BY <1>1, BeginCalm, CalmIs
<1>3. PICK e : e = AdvanceToNextCogLong(b)
  OBVIOUS
<1>c. b.cogOrg \in Int
  BY <1>2 DEF IsState
<1>4. PICK pad \in Int : pad = IF b.hub THEN 0 ELSE (-b.cogOrg) % 4
  BY <1>c
<1>5. Put(b, e, pad, "filler") /\ IsState(e)
  BY <1>2, <1>3, <1>4, AdvancePuts DEF Put
<1>6. PICK m : m = EnterDatSymbol(e, line, 2)
  OBVIOUS
<1>7. IsState(m)
  BY <1>5, <1>6, SymbolCalm, CalmIs
<1>8. PICK n \in Int : \A w : IsState(w) /\ w.setting = m.setting => Put(w, Instruction(w, line), n, "code")
  BY InstructionPuts
<1>9. PICK t : t = Instruction(m, line)
  OBVIOUS
<1>10. Put(m, t, n, "code")
  BY <1>7, <1>8, <1>9
<1>11. Behind(m, t) /\ IsState(t)
  BY <1>10, PutBehind DEF Put
<1>12. ReadInstruction(s, line) = t
  BY <1>1, <1>3, <1>6, <1>9 DEF ReadInstruction
<1>13. t.err = Fine => Pad(s, line) = pad
  <2>1. t.err = Fine => b.err = Fine
    BY <1>5, <1>6, <1>11, SymbolCalm DEF Behind, Put, Calm, Quiet
  <2>2. b.err = Fine => b.hub = s.hub /\ b.cogOrg = s.cogOrg
    BY <1>1, BeginFine
  <2>3. line.t \in {"inst", "res"}
    OBVIOUS
  <2> QED
    BY <1>4, <2>1, <2>2, <2>3 DEF Pad
<1> QED
  BY <1>1, <1>5, <1>6, <1>11, <1>12, <1>13, Heads DEF Placed

(* So does a line with RES.                                                *)
LEMMA ResPlaced ==
  ASSUME NEW s, IsState(s), NEW line \in Lines, line.t = "res"
  PROVE  Placed(s, line, ReadRes(s, line))
<1>1. PICK b : b = Begin(s, line)
  OBVIOUS
<1>2. IsState(b)
  BY <1>1, BeginCalm, CalmIs
<1>3. PICK c : c = Check(b, ~s.hub, "mode")
  OBVIOUS
<1>4. "filler" \in {"code", "filler"} /\ 0 \in Int
  OBVIOUS
<1>5. Put(b, c, 0, "filler") /\ IsState(c)
  BY <1>2, <1>3, <1>4, CheckPuts DEF Fine, Put
<1>6. PICK e : e = AdvanceToNextCogLong(c)
  OBVIOUS
<1>c. c.cogOrg \in Int
  BY <1>5 DEF IsState
<1>7. PICK pad \in Int : pad = IF c.hub THEN 0 ELSE (-c.cogOrg) % 4
  BY <1>c
<1>8. Put(c, e, pad, "filler") /\ IsState(e)
  BY <1>5, <1>6, <1>7, AdvancePuts DEF Put
<1>9. Put(b, e, pad, "filler")
  <2>1. Put(b, e, 0 + pad, "filler")
    BY <1>2, <1>4, <1>5, <1>8, Then
  <2> QED
    BY <1>7, <2>1
<1>10. PICK m : m = EnterDatSymbol(e, line, 2)
  OBVIOUS
<1>11. IsState(m)
  BY <1>8, <1>10, SymbolCalm, CalmIs
<1>12. PICK v \in Int : v = Value(m, line.exp)
  BY <1>11, LineIs, ValueInt
<1>13. PICK d : d = Origin(m, line.exp)
  OBVIOUS
<1>14. Calm(m, d) /\ IsState(d)
  BY <1>11, <1>13, GetValueCalm, CalmIs
<1>15. PICK o \in Int : o = d.cogOrg + (4 * v)
  BY <1>14 DEF IsState
<1>16. PICK w : w = [d EXCEPT !.cogOrg = o]
  OBVIOUS
<1>17. Calm(d, w) /\ IsState(w)
  BY <1>14, <1>16 DEF Calm, Quiet, IsState, Fields, Within
<1>18. PICK t : t = Check(w, w.cogOrg <= m.cogLimit, "limit")
  OBVIOUS
<1>19. Calm(w, t) /\ IsState(t)
  BY <1>17, <1>18, CheckCalm, CalmIs DEF Fine
<1>20. Calm(m, t)
  BY <1>14, <1>17, <1>19, CalmThen
<1>21. Behind(m, t)
  BY <1>11, <1>20, StillBehind DEF Calm, Quiet
<1>22. ReadRes(s, line) = t
  BY <1>1, <1>3, <1>6, <1>10, <1>12, <1>13, <1>15, <1>16, <1>18 DEF ReadRes
<1>23. t.err = Fine => Pad(s, line) = pad
  <2>1. t.err = Fine => c.err = Fine
    BY <1>8, <1>10, <1>21, SymbolCalm DEF Behind, Put, Calm, Quiet
  <2>2. c.err = Fine => c = b
    BY <1>2, <1>3, CheckIs DEF Fine
  <2>3. b.err = Fine => b.hub = s.hub /\ b.cogOrg = s.cogOrg
    BY <1>1, BeginFine
  <2>4. line.t \in {"inst", "res"}
    OBVIOUS
  <2> QED
    BY <1>7, <2>1, <2>2, <2>3, <2>4 DEF Pad
<1> QED
  BY <1>1, <1>9, <1>10, <1>19, <1>21, <1>22, <1>23, Heads DEF Placed

(* A line with DITTO enters its label where the block begins.              *)
LEMMA DittoPlaced ==
  ASSUME NEW s, IsState(s), NEW line \in Lines, line.t = "ditto"
  PROVE  Placed(s, line, ReadDitto(s, line))
<1>1. PICK b : b = Begin(s, line)
  OBVIOUS
<1>2. IsState(b) /\ Put(b, b, 0, "filler") /\ 0 \in Int
  BY <1>1, NoPad
<1>3. PICK m : m = EnterDatSymbol(b, line, 2)
  OBVIOUS
<1>4. IsState(m)
  BY <1>2, <1>3, SymbolCalm, CalmIs
<1>5. Pad(s, line) = 0
  BY DEF Pad
<1>6. CASE s.ditto.on
  <2>1. PICK t : t = Check(m, FALSE, "end")
    OBVIOUS
  <2>2. ReadDitto(s, line) = t
    BY <1>1, <1>3, <1>6, <2>1 DEF ReadDitto, Check
  <2>3. Calm(m, t) /\ IsState(t)
    BY <1>4, <2>1, CheckCalm, CalmIs DEF Fine
  <2>4. Behind(m, t)
    BY <1>4, <2>3, StillBehind DEF Calm, Quiet
  <2> QED
    BY <1>1, <1>2, <1>3, <1>5, <2>2, <2>3, <2>4, Heads DEF Placed
<1>7. CASE ~s.ditto.on
  <2>1. PICK v \in Int : v = Value(m, line.exp)
    BY <1>4, LineIs, ValueInt
  <2>2. PICK c : c = Origin(m, line.exp)
    OBVIOUS
  <2>3. Calm(m, c) /\ IsState(c)
    BY <1>4, <2>2, GetValueCalm, CalmIs
  <2>4. PICK e : e = Check(c, v >= 0, "count")
    OBVIOUS
  <2>5. Calm(c, e) /\ IsState(e)
    BY <2>3, <2>4, CheckCalm, CalmIs DEF Fine
  <2>6. Calm(m, e)
    BY <2>3, <2>5, CalmThen
  <2>7. PICK d : d = [on |-> TRUE, index |-> 0, count |-> v, at |-> s.at + 1, offset |-> m.offset]
    OBVIOUS
  <2>8. IsDitto(d)
    <3>1. s.at \in Int /\ m.offset \in Int
      BY <1>4 DEF IsState
    <3> QED
      BY <2>1, <2>7, <3>1 DEF IsDitto
  <2>9. PICK t : t = [e EXCEPT !.ditto = d]
    OBVIOUS
  <2>10. ReadDitto(s, line) = t
    BY <1>1, <1>3, <1>7, <2>1, <2>2, <2>4, <2>7, <2>9 DEF ReadDitto
  <2>11. IsState(t) /\ t.err = e.err /\ t.image = e.image /\ t.labels = e.labels
    BY <2>5, <2>8, <2>9 DEF IsState, Fields
  <2>12. Behind(m, t)
    BY <1>4, <2>6, <2>11, StillBehind DEF Calm, Quiet
  <2> QED
    BY <1>1, <1>2, <1>3, <1>5, <2>10, <2>11, <2>12, Heads DEF Placed
<1> QED
  BY <1>6, <1>7

(* Such a line leads to a state of the assembler.                          *)
LEMMA DittoState ==
  ASSUME NEW s, IsState(s), NEW line \in Lines
  PROVE  IsState(ReadDitto(s, line))
<1>1. PICK m : m = EnterDatSymbol(Begin(s, line), line, 2)
  OBVIOUS
<1>2. IsState(m)
  BY <1>1, BeginCalm, SymbolCalm, CalmIs
<1>3. CASE s.ditto.on
  BY <1>1, <1>2, <1>3, CheckIs DEF ReadDitto, Check, Fine
<1>4. CASE ~s.ditto.on
  <2>1. PICK v \in Int : v = Value(m, line.exp)
    BY <1>2, LineIs, ValueInt
  <2>2. PICK c : c = Origin(m, line.exp)
    OBVIOUS
  <2>3. IsState(c)
    BY <1>2, <2>2, GetValueCalm, CalmIs
  <2>4. PICK e : e = Check(c, v >= 0, "count")
    OBVIOUS
  <2>5. IsState(e)
    BY <2>3, <2>4, CheckCalm, CalmIs DEF Fine
  <2>6. PICK d : d = [on |-> TRUE, index |-> 0, count |-> v, at |-> s.at + 1, offset |-> m.offset]
    OBVIOUS
  <2>7. IsDitto(d)
    <3>1. s.at \in Int /\ m.offset \in Int
      BY <1>2 DEF IsState
    <3> QED
      BY <2>1, <2>6, <3>1 DEF IsDitto
  <2>8. ReadDitto(s, line) = [e EXCEPT !.ditto = d]
    BY <1>1, <1>4, <2>1, <2>2, <2>4, <2>6 DEF ReadDitto
  <2> QED
    BY <2>5, <2>7, <2>8 DEF IsState, Fields
<1> QED
  BY <1>3, <1>4

(* Every line that may have a label enters it where what it writes         *)
(* begins.                                                                 *)
LEMMA ReadPlaced ==
  ASSUME NEW s, IsState(s), NEW line \in Lines, line.t \in Labelled
  PROVE  Placed(s, line, Read(s, line))
<1>1. CASE line.t \in {"label", "data", "inst"}
  BY <1>1, LabelPlaced, DataPlaced, InstructionPlaced DEF Read
<1>2. CASE line.t \in {"file", "res", "ditto"}
  BY <1>2, FilePlaced, ResPlaced, DittoPlaced DEF Read
<1> QED
  BY <1>1, <1>2 DEF Labelled
-----------------------------------------------------------------------------
(* The labels stand.                                                       *)

\* whatever is the first piece of a line with a label stands where the label says
Standing(l, s) ==
  \A x \in 1..Len(s.image) :
    LET c == s.image[x]
    IN  FirstIn(s, x) /\ Named(l[c.line]) => StandsIn(s.labels, l[c.line].label, c.scope, c.offset, c.hub, c.org)
\* the first n lines of the first pass
Run(l, setting, n, r) ==
  /\ r[0] = StartPass(setting, 1, <<>>)
  /\ \A i \in 0..n : Good(r[i]) /\ r[i].setting = setting /\ r[i].pass = 1 /\ r[i].err = Fine /\ Within(r[i].labels, r[n].labels)
  /\ \A i \in 0..n : i < n => r[i].at \in 1..Len(l) /\ r[i + 1] = Reading(l, r[i])
Running(l, s) == \E n \in Nat : \E r : Run(l, s.setting, n, r) /\ r[n] = s
\* the second pass is where the first one was
Following(l, s) ==
  \E n \in Nat : \E r : \E m \in 0..n : Run(l, s.setting, n, r) /\ r[n].at > Len(l) /\ Twins(r[m], s, r[n].labels)
Firm(l, s) == s.err = Fine => Standing(l, s) /\ (s.pass = 1 => Running(l, s)) /\ (s.pass = 2 => Following(l, s))
AssemblerInv == Written /\ \E l, s : l = listing /\ s = asm /\ Sound(l, s) /\ Firm(l, s)

(* What a step to the next line keeps of the line read.                    *)
LEMMA ReadingIs ==
  ASSUME NEW l, NEW s, NEW line, line = l[s.at], line.t # "end", NEW t, t = Read(s, line), IsState(t), NEW u, u = Reading(l, s)
  PROVE  u.err = t.err /\ u.image = t.image /\ u.labels = t.labels
<1>1. u = Stepped(t)
  BY DEF Reading
<1> QED
  BY <1>1, SteppedIs

(* A line read from the listing enters its label where what it writes      *)
(* begins.                                                                 *)
LEMMA ReadingPlaced ==
  ASSUME NEW l \in Seq(Lines), NEW s, Sound(l, s), s.err = Fine, s.pass < 3, s.at <= Len(l),
         \A x \in DOMAIN l : l[x].t = "align" => l[x].n > 0, NEW u, u = Reading(l, s), l[s.at].t \in Labelled
  PROVE  Placed(s, l[s.at], u)
<1>1. Good(s) /\ IsState(s) /\ s.at \in 1..Len(l)
  BY DEF Sound, Good, IsState
<1>2. PICK line \in Lines : line = l[s.at]
  BY <1>1
<1>3. line.t # "end"
  BY <1>2 DEF Labelled
<1>4. PICK t : t = Read(s, line)
  OBVIOUS
<1>5. Placed(s, line, t)
  BY <1>1, <1>2, <1>4, ReadPlaced
<1>6. IsState(t)
  <2>1. CASE line.t \in {"label", "data", "inst"}
    BY <1>1, <1>4, <2>1, LabelGoes, DataGoes, InstructionGoes, GoesState DEF Read
  <2>2. CASE line.t \in {"file", "res"}
    BY <1>1, <1>4, <2>2, FileGoes, ResGoes, GoesState DEF Read
  <2>3. CASE line.t = "ditto"
    BY <1>1, <1>4, <2>3, DittoState DEF Read
  <2> QED
    BY <1>2, <2>1, <2>2, <2>3 DEF Labelled
<1>7. u.err = t.err /\ u.image = t.image /\ u.labels = t.labels
  BY <1>2, <1>3, <1>4, <1>6, ReadingIs
<1> QED
  BY <1>2, <1>5, <1>7 DEF Placed, Headed, FirstIn

(* The symbols stand behind a line without a label.                        *)
LEMMA StandingKept ==
  ASSUME NEW l, NEW s, NEW u, Standing(l, s), After(s, u), u.err = Fine, IsState(s), ~Named(l[s.at])
  PROVE  Standing(l, u)
<1>1. PICK k \in 0..Len(s.image) : /\ k <= Len(u.image)
                                   /\ \A x \in 1..k : u.image[x] = s.image[x]
                                   /\ \A x \in (k + 1)..Len(u.image) : u.image[x].line = s.at
  BY DEF After, Kin
<1>2. PICK a \in Nat : a = Len(s.image)
  BY DEF IsState
<1>3. PICK b \in Nat : b = Len(u.image)
  BY DEF After, Good, IsState
<1>4. k \in Nat /\ k <= a /\ k <= b
  BY <1>1, <1>2, <1>3
<1>5. ASSUME NEW x \in 1..b, NEW c, c = u.image[x], FirstIn(u, x), Named(l[c.line])
      PROVE  StandsIn(u.labels, l[c.line].label, c.scope, c.offset, c.hub, c.org)
  <2>1. x <= k
    <3>1. SUFFICES ASSUME ~(x <= k) PROVE FALSE
      OBVIOUS
    <3>2. x \in (k + 1)..b
      BY <1>4, <3>1
    <3>3. c.line = s.at
      BY <1>1, <1>3, <1>5, <3>2
    <3> QED
      BY <1>5, <3>3
  <2>2. x \in 1..k /\ x \in 1..a /\ (x > 1 => x - 1 \in 1..k)
    BY <1>2, <1>4, <2>1
  <2>3. c = s.image[x] /\ (x > 1 => u.image[x - 1] = s.image[x - 1])
    BY <1>1, <1>5, <2>2
  <2>4. FirstIn(s, x)
    BY <1>5, <2>3 DEF FirstIn
  <2>5. StandsIn(s.labels, l[c.line].label, c.scope, c.offset, c.hub, c.org)
    BY <1>2, <1>5, <2>2, <2>3, <2>4 DEF Standing
  <2>6. Within(s.labels, u.labels)
    BY DEF After
  <2> QED
    BY <2>5, <2>6, StandsWithin
<1> QED
  BY <1>3, <1>5 DEF Standing

(* The symbols stand behind a line with a label that names where its code  *)
(* begins.                                                                 *)
LEMMA StandingPlaced ==
  ASSUME NEW l, NEW s, NEW u, Standing(l, s), After(s, u), u.err = Fine, IsState(s), NEW line, line = l[s.at], NEW pad,
         Headed(s, line, pad, u), Entry(u.labels, s, line, pad)
  PROVE  Standing(l, u)
<1>1. PICK a \in Nat : a = Len(s.image)
  BY DEF IsState
<1>2. PICK b \in Nat : b = Len(u.image)
  BY DEF After, Good, IsState
<1>3. Within(s.labels, u.labels)
  BY DEF After
<1>4. \A x \in 1..a : u.image[x] = s.image[x]
  BY <1>1 DEF Headed
<1>5. ASSUME NEW x \in 1..b, NEW c, c = u.image[x], FirstIn(u, x), Named(l[c.line])
      PROVE  StandsIn(u.labels, l[c.line].label, c.scope, c.offset, c.hub, c.org)
  <2>1. CASE x <= a
    <3>1. x \in 1..a /\ (x > 1 => x - 1 \in 1..a)
      BY <1>1, <2>1
    <3>2. c = s.image[x] /\ (x > 1 => u.image[x - 1] = s.image[x - 1])
      BY <1>4, <1>5, <3>1
    <3>3. FirstIn(s, x)
      BY <1>5, <3>2 DEF FirstIn
    <3>4. StandsIn(s.labels, l[c.line].label, c.scope, c.offset, c.hub, c.org)
      BY <1>1, <1>5, <3>1, <3>2, <3>3 DEF Standing
    <3> QED
      BY <1>3, <3>4, StandsWithin
  <2>2. CASE x > a
    <3>1. x \in (a + 1)..b
      BY <1>1, <1>2, <2>2
    <3>2. c.line = s.at /\ c.offset = s.offset + pad /\ c.hub = s.hub /\ c.org = Here(s) + pad /\ (line.label.local => c.scope = s.scope)
      BY <1>1, <1>2, <1>5, <3>1 DEF Headed
    <3>3. StandsIn(u.labels, line.label, s.scope, c.offset, c.hub, c.org)
      BY <3>2 DEF Entry
    <3>4. StandsIn(u.labels, line.label, c.scope, c.offset, c.hub, c.org)
      BY <3>2, <3>3 DEF StandsIn
    <3> QED
      BY <3>2, <3>4
  <2> QED
    BY <1>1, <2>1, <2>2
<1> QED
  BY <1>2, <1>5 DEF Standing

(* The first pass is one line further.                                     *)
LEMMA RunFurther ==
  ASSUME NEW l, NEW setting, NEW n \in Nat, NEW r, Run(l, setting, n, r), NEW s, s = r[n], s.at \in 1..Len(l),
         NEW u, u = Reading(l, s), After(s, u), u.err = Fine
  PROVE  \E q : Run(l, setting, n + 1, q) /\ q[n + 1] = u
<1>1. PICK q : q = [x \in 0..(n + 1) |-> IF x = n + 1 THEN u ELSE r[x]]
  OBVIOUS
<1>2. \A x \in 0..n : q[x] = r[x] /\ x \in 0..(n + 1)
  BY <1>1
<1>3. q[n + 1] = u
  BY <1>1
<1>4. /\ r[0] = StartPass(setting, 1, <<>>)
      /\ \A i \in 0..n : Good(r[i]) /\ r[i].setting = setting /\ r[i].pass = 1 /\ r[i].err = Fine /\ Within(r[i].labels, s.labels)
      /\ \A i \in 0..n : i < n => r[i].at \in 1..Len(l) /\ r[i + 1] = Reading(l, r[i])
  BY DEF Run
<1>5. n \in 0..n /\ 0 \in 0..n
  OBVIOUS
<1>6. Good(u) /\ u.setting = setting /\ u.pass = 1 /\ Within(s.labels, u.labels)
  BY <1>4, <1>5 DEF After
<1>7. ASSUME NEW i \in 0..(n + 1)
      PROVE  Good(q[i]) /\ q[i].setting = setting /\ q[i].pass = 1 /\ q[i].err = Fine /\ Within(q[i].labels, q[n + 1].labels)
  <2>1. CASE i = n + 1
    <3>1. Within(u.labels, u.labels)
      BY DEF Within
    <3> QED
      BY <1>3, <1>6, <2>1, <3>1
  <2>2. CASE i # n + 1
    <3>1. i \in 0..n
      BY <2>2
    <3>2. Within(r[i].labels, u.labels)
      BY <1>4, <1>6, <3>1, WithinThen
    <3> QED
      BY <1>2, <1>3, <1>4, <3>1, <3>2
  <2> QED
    BY <2>1, <2>2
<1>8. ASSUME NEW i \in 0..(n + 1), i < n + 1
      PROVE  q[i].at \in 1..Len(l) /\ q[i + 1] = Reading(l, q[i])
  <2>1. CASE i = n
    BY <1>2, <1>3, <1>5, <2>1
  <2>2. CASE i # n
    <3>1. i \in 0..n /\ i + 1 \in 0..n /\ i < n
      BY <1>8, <2>2
    <3> QED
      BY <1>2, <1>4, <3>1
  <2> QED
    BY <2>1, <2>2
<1>9. q[0] = StartPass(setting, 1, <<>>)
  BY <1>2, <1>4, <1>5
<1>10. Run(l, setting, n + 1, q)
  BY <1>7, <1>8, <1>9 DEF Run
<1> QED
  BY <1>3, <1>10

(* The second pass is, at every line, where the first one was at some      *)
(* moment before its end.                                                  *)
LEMMA FollowedAt ==
  ASSUME NEW l \in Seq(Lines), NEW s, IsState(s), s.err = Fine, s.pass = 2, s.at <= Len(l),
         NEW n \in Nat, NEW r, NEW m \in 0..n, Run(l, s.setting, n, r), r[n].at > Len(l), NEW p, p = r[m], NEW f, f = r[n].labels, Twins(p, s, f)
  PROVE  /\ m < n /\ Both(p, s, f) /\ Places(p, s) /\ Within(f, s.labels)
         /\ Sound(l, p) /\ p.at \in 1..Len(l) /\ p.pass = 1 /\ p.setting = s.setting
<1>1. Good(p) /\ p.setting = s.setting /\ p.pass = 1 /\ p.err = Fine /\ Within(p.labels, f)
  BY DEF Run
<1>2. Both(p, s, f)
  BY <1>1 DEF Both
<1>3. Places(p, s) /\ Within(f, s.labels)
  BY <1>2, BothAre
<1>4. p.at = s.at
  BY <1>3 DEF Places
<1>5. m # n
  <2>1. SUFFICES ASSUME m = n PROVE FALSE
    OBVIOUS
  <2>2. p.at > Len(l)
    BY <2>1
  <2>3. s.at \in Int /\ Len(l) \in Nat
    BY DEF IsState
  <2> QED
    BY <1>4, <2>2, <2>3
<1>6. m < n
  BY <1>5
<1>7. p.at \in 1..Len(l)
  BY <1>6 DEF Run
<1>8. ~(p.at > Len(l)) /\ p.pass # 3
  BY <1>1, <1>7
<1>9. Sound(l, p)
  BY <1>1, <1>8 DEF Sound
<1> QED
  BY <1>1, <1>2, <1>3, <1>6, <1>7, <1>9

(* So the label of the line it is at stands where the line will put it:    *)
(* the first pass has entered it there.                                    *)
LEMMA FollowedEntry ==
  ASSUME NEW l \in Seq(Lines), \A x \in DOMAIN l : l[x].t = "align" => l[x].n > 0,
         NEW s, IsState(s), s.err = Fine, s.pass = 2, s.at <= Len(l), Following(l, s), NEW line, line = l[s.at], Named(line)
  PROVE  Entry(s.labels, s, line, Pad(s, line))
<1>0. PICK n \in Nat : \E r : \E m \in 0..n : Run(l, s.setting, n, r) /\ r[n].at > Len(l) /\ Twins(r[m], s, r[n].labels)
  BY DEF Following
<1>1. PICK r : \E m \in 0..n : Run(l, s.setting, n, r) /\ r[n].at > Len(l) /\ Twins(r[m], s, r[n].labels)
  BY <1>0
<1>2. PICK m \in 0..n : Run(l, s.setting, n, r) /\ r[n].at > Len(l) /\ Twins(r[m], s, r[n].labels)
  BY <1>1
<1>3. PICK p : p = r[m]
  OBVIOUS
<1>4. PICK f : f = r[n].labels
  OBVIOUS
<1>5. /\ m < n /\ Both(p, s, f) /\ Places(p, s) /\ Within(f, s.labels)
      /\ Sound(l, p) /\ p.at \in 1..Len(l) /\ p.pass = 1
  BY <1>2, <1>3, <1>4, FollowedAt
<1>6. PICK v : v = Reading(l, p)
  OBVIOUS
<1>7. m + 1 \in 0..n /\ v = r[m + 1]
  BY <1>2, <1>3, <1>5, <1>6 DEF Run
<1>8. v.err = Fine /\ Within(v.labels, f)
  BY <1>2, <1>4, <1>7 DEF Run
<1>9. p.at = s.at
  BY <1>5 DEF Places
<1>10. line = l[p.at] /\ line.t \in Labelled /\ line.label.name # Nameless
  BY <1>9 DEF Named
<1>11. p.err = Fine /\ p.pass < 3 /\ p.at <= Len(l)
  BY <1>5 DEF Both
<1>12. Placed(p, line, v)
  BY <1>5, <1>6, <1>10, <1>11, ReadingPlaced
<1>13. Entry(v.labels, p, line, Pad(p, line))
  BY <1>5, <1>8, <1>10, <1>12 DEF Placed
<1>14. Pad(p, line) = Pad(s, line) /\ Here(p) = Here(s) /\ p.scope = s.scope /\ p.offset = s.offset /\ p.hub = s.hub
  BY <1>5 DEF Places, Pad, Here
<1>15. PICK pad : pad = Pad(s, line)
  OBVIOUS
<1>16. StandsIn(v.labels, line.label, s.scope, s.offset + pad, s.hub, Here(s) + pad)
  BY <1>13, <1>14, <1>15 DEF Entry
<1>17. StandsIn(s.labels, line.label, s.scope, s.offset + pad, s.hub, Here(s) + pad)
  BY <1>5, <1>8, <1>16, StandsWithin
<1> QED
  BY <1>15, <1>17 DEF Entry

(* The second pass follows the first one over the next line.               *)
LEMMA FollowedFurther ==
  ASSUME NEW l \in Seq(Lines), \A x \in DOMAIN l : l[x].t = "align" => l[x].n > 0,
         NEW s, IsState(s), s.err = Fine, s.pass = 2, s.at <= Len(l), Following(l, s), NEW u, u = Reading(l, s), u.setting = s.setting
  PROVE  Following(l, u)
<1>0. PICK n \in Nat : \E r : \E m \in 0..n : Run(l, s.setting, n, r) /\ r[n].at > Len(l) /\ Twins(r[m], s, r[n].labels)
  BY DEF Following
<1>1. PICK r : \E m \in 0..n : Run(l, s.setting, n, r) /\ r[n].at > Len(l) /\ Twins(r[m], s, r[n].labels)
  BY <1>0
<1>2. PICK m \in 0..n : Run(l, s.setting, n, r) /\ r[n].at > Len(l) /\ Twins(r[m], s, r[n].labels)
  BY <1>1
<1>3. PICK p : p = r[m]
  OBVIOUS
<1>4. PICK f : f = r[n].labels
  OBVIOUS
<1>5. m < n /\ Both(p, s, f) /\ p.at \in 1..Len(l)
  BY <1>2, <1>3, <1>4, FollowedAt
<1>6. Twins(Reading(l, p), u, f)
  BY <1>2, <1>3, <1>4, <1>5, ReadingTwins
<1>7. m + 1 \in 0..n /\ r[m + 1] = Reading(l, p)
  BY <1>2, <1>3, <1>5 DEF Run
<1>8. Run(l, u.setting, n, r) /\ r[n].at > Len(l) /\ Twins(r[m + 1], u, r[n].labels)
  BY <1>2, <1>4, <1>6, <1>7
<1> QED
  BY <1>7, <1>8 DEF Following

(* Every line keeps the invariant.                                         *)
LEMMA FirmRead ==
  ASSUME NEW l \in Seq(Lines), \A x \in DOMAIN l : l[x].t = "align" => l[x].n > 0,
         NEW s, Sound(l, s), Firm(l, s), s.err = Fine, s.pass < 3, s.at <= Len(l), NEW u, u = Reading(l, s)
  PROVE  Sound(l, u) /\ Firm(l, u)
<1>1. Good(s) /\ IsState(s) /\ s.at \in 1..Len(l)
  BY DEF Sound, Good, IsState
<1>2. Sound(l, u) /\ After(s, u)
  BY ReadingAfter
<1>3. SUFFICES ASSUME u.err = Fine PROVE Standing(l, u) /\ (u.pass = 1 => Running(l, u)) /\ (u.pass = 2 => Following(l, u))
  BY <1>2 DEF Firm
<1>4. PICK line \in Lines : line = l[s.at]
  BY <1>1
<1>5. u.pass = s.pass /\ u.setting = s.setting /\ s.pass \in 1..3
  BY <1>1, <1>2 DEF After, IsState
<1>6. Standing(l, s)
  BY DEF Firm
<1>7. CASE s.pass = 1
  <2>0. PICK n \in Nat : \E r : Run(l, s.setting, n, r) /\ r[n] = s
    BY <1>7 DEF Firm, Running
  <2>1. PICK r : Run(l, s.setting, n, r) /\ r[n] = s
    BY <2>0
  <2>2. PICK q : Run(l, s.setting, n + 1, q) /\ q[n + 1] = u
    BY <1>1, <1>2, <1>3, <2>1, RunFurther
  <2>3. Running(l, u)
    <3>1. n + 1 \in Nat
      OBVIOUS
    <3> QED
      BY <1>5, <2>2, <3>1 DEF Running
  <2>4. Standing(l, u)
    <3>1. CASE ~Named(line)
      BY <1>1, <1>2, <1>3, <1>4, <1>6, <3>1, StandingKept
    <3>2. CASE Named(line)
      <4>1. Placed(s, line, u)
        BY <1>4, <3>2, ReadingPlaced DEF Named
      <4>2. PICK pad : pad = Pad(s, line)
        OBVIOUS
      <4>3. Headed(s, line, pad, u) /\ Entry(u.labels, s, line, pad)
        BY <1>3, <1>7, <3>2, <4>1, <4>2 DEF Placed, Named
      <4> QED
        BY <1>1, <1>2, <1>3, <1>4, <1>6, <4>3, StandingPlaced
    <3> QED
      BY <3>1, <3>2
  <2> QED
    BY <1>5, <1>7, <2>3, <2>4
<1>8. CASE s.pass = 2
  <2>1. Following(l, s)
    BY <1>8 DEF Firm
  <2>2. Following(l, u)
    BY <1>1, <1>5, <1>8, <2>1, FollowedFurther
  <2>3. Standing(l, u)
    <3>1. CASE ~Named(line)
      BY <1>1, <1>2, <1>3, <1>4, <1>6, <3>1, StandingKept
    <3>2. CASE Named(line)
      <4>1. Placed(s, line, u)
        BY <1>4, <3>2, ReadingPlaced DEF Named
      <4>2. PICK pad : pad = Pad(s, line)
        OBVIOUS
      <4>3. Headed(s, line, pad, u)
        BY <1>3, <4>1, <4>2 DEF Placed
      <4>4. Entry(s.labels, s, line, pad)
        BY <1>1, <1>4, <1>8, <2>1, <3>2, <4>2, FollowedEntry
      <4>5. Entry(u.labels, s, line, pad)
        BY <1>2, <1>3, <4>4, StandsWithin DEF After, Entry
      <4> QED
        BY <1>1, <1>2, <1>3, <1>4, <1>6, <4>3, <4>5, StandingPlaced
    <3> QED
      BY <3>1, <3>2
  <2> QED
    BY <1>5, <1>8, <2>2, <2>3
<1> QED
  BY <1>5, <1>7, <1>8

(* An empty image has no label to stand.                                   *)
LEMMA NothingStands ==
  ASSUME NEW l, NEW s, s.image = <<>>
  PROVE  Standing(l, s)
BY DEF Standing

(* The first pass starts as a run of no lines.                             *)
LEMMA FirmStart ==
  ASSUME NEW l, NEW setting \in Settings, NEW s, s = StartPass(setting, 1, <<>>)
  PROVE  Firm(l, s)
<1>1. PICK none : none = <<>>
  OBVIOUS
<1>2. \A k \in DOMAIN none : IsLabel(none[k])
  BY <1>1
<1>3. 1 \in {1, 2}
  OBVIOUS
<1>4. Good(s) /\ s.setting = setting /\ s.pass = 1 /\ s.err = Fine
  BY <1>1, <1>2, <1>3, StartGood
<1>5. s.image = <<>>
  BY DEF StartPass
<1>6. PICK r : r = [i \in 0..0 |-> s]
  OBVIOUS
<1>7. r[0] = s /\ \A i \in 0..0 : i = 0
  BY <1>6
<1>8. Within(s.labels, s.labels)
  BY DEF Within
<1>9. Run(l, setting, 0, r)
  BY <1>4, <1>7, <1>8 DEF Run
<1>10. 0 \in Nat
  OBVIOUS
<1>11. Running(l, s)
  BY <1>4, <1>7, <1>9, <1>10 DEF Running
<1> QED
  BY <1>4, <1>5, <1>11, NothingStands DEF Firm

(* A pass that fails has nothing to keep.                                  *)
LEMMA FirmFails ==
  ASSUME NEW l, NEW s, NEW e, e # Fine, NEW u, IsState(s), u = [s EXCEPT !.err = e]
  PROVE  Firm(l, u)
<1>1. u.err # Fine
  BY DEF IsState, Fields
<1> QED
  BY <1>1 DEF Firm

(* Both passes start in the same mode.                                     *)
LEMMA StartHub ==
  ASSUME NEW setting, NEW pass, NEW labels, NEW s, s = StartPass(setting, pass, labels),
         NEW one, NEW none, NEW t, t = StartPass(setting, one, none)
  PROVE  s.hub = t.hub
BY DEF StartPass

(* The second pass starts where the first one did, with the labels of the  *)
(* whole of it.                                                            *)
LEMMA FirmStarts ==
  ASSUME NEW l, NEW s, Good(s), Firm(l, s), s.err = Fine, s.pass = 1, s.at > Len(l), NEW u, u = StartPass(s.setting, 2, s.labels)
  PROVE  Firm(l, u)
<1>0. PICK n \in Nat : \E r : Run(l, s.setting, n, r) /\ r[n] = s
  BY DEF Firm, Running
<1>1. PICK r : Run(l, s.setting, n, r) /\ r[n] = s
  BY <1>0
<1>2. PICK setting \in Settings : setting = s.setting
  BY DEF Good, IsState
<1>3. PICK labels : labels = s.labels /\ \A k \in DOMAIN labels : IsLabel(labels[k])
  BY DEF Good, IsState
<1>4. PICK p : p = r[0]
  OBVIOUS
<1>5. 0 \in 0..n /\ n \in 0..n
  OBVIOUS
<1>6. p = StartPass(setting, 1, <<>>) /\ Good(p) /\ p.setting = setting /\ p.pass = 1
  BY <1>1, <1>2, <1>4, <1>5 DEF Run
<1>7. PICK pass \in {1, 2} : pass = 2
  OBVIOUS
<1>8. u = StartPass(setting, pass, labels)
  BY <1>2, <1>3, <1>7
<1>9. Good(u) /\ u.setting = setting /\ u.pass = pass
  BY <1>3, <1>8, StartGood
<1>10. Places(p, u)
  <2>1. p.at = u.at /\ p.offset = u.offset /\ p.scope = u.scope /\ p.ditto = u.ditto
    BY <1>6, <1>8 DEF StartPass
  <2>2. p.cogOrg = u.cogOrg
    BY <1>6, <1>8 DEF StartPass
  <2>4. p.hub = u.hub
    <3>1. PICK one, none : p = StartPass(setting, one, none)
      BY <1>6
    <3> QED
      BY <1>8, <3>1, StartHub
  <2>3. p.hubOrg = u.hubOrg /\ p.orghOffset = u.orghOffset
    BY <1>6, <1>8 DEF StartPass
  <2> QED
    BY <2>1, <2>2, <2>3, <2>4 DEF Places
<1>11. u.labels = labels /\ u.image = <<>>
  BY <1>8 DEF StartPass
<1>12. Twins(p, u, labels)
  <2>1. Within(labels, u.labels)
    BY <1>11 DEF Within
  <2> QED
    BY <1>6, <1>7, <1>9, <1>10, <2>1 DEF Twins, Good
<1>13. Following(l, u)
  <2>1. r[n].labels = labels /\ r[n].at > Len(l)
    BY <1>1, <1>3
  <2>2. Run(l, u.setting, n, r) /\ r[n].at > Len(l) /\ Twins(r[0], u, r[n].labels)
    BY <1>1, <1>2, <1>4, <1>9, <1>12, <2>1
  <2> QED
    BY <1>5, <2>2 DEF Following
<1>14. Standing(l, u)
  BY <1>11, NothingStands
<1> QED
  BY <1>7, <1>9, <1>13, <1>14 DEF Firm

(* The symbols stand at the end.                                           *)
LEMMA FirmEnds ==
  ASSUME NEW l, NEW s, Good(s), Firm(l, s), s.err = Fine, NEW long, NEW u, u = [s EXCEPT !.pass = 3, !.length = long]
  PROVE  Firm(l, u)
<1>1. Standing(l, s)
  BY DEF Firm
<1>2. u.pass = 3 /\ u.image = s.image /\ u.labels = s.labels
  BY DEF Good, IsState, Fields
<1>3. Standing(l, u)
  BY <1>1, <1>2 DEF Standing, FirstIn
<1> QED
  BY <1>2, <1>3 DEF Firm

(* The invariant holds at the start.                                       *)
LEMMA AssemblerInvInit ==
  AssemblerInit => AssemblerInv
<1> SUFFICES ASSUME AssemblerInit PROVE AssemblerInv
  OBVIOUS
<1>1. PICK setting \in Settings : Written /\ asm = StartPass(setting, 1, <<>>)
  BY DEF AssemblerInit, StartFrom
<1>2. PICK s, l : s = asm /\ l = listing
  OBVIOUS
<1>3. PICK labels : labels = <<>>
  OBVIOUS
<1>4. \A k \in DOMAIN labels : IsLabel(labels[k])
  BY <1>3
<1>5. PICK pass \in {1, 2} : pass = 1
  OBVIOUS
<1>6. s = StartPass(setting, pass, labels)
  BY <1>1, <1>2, <1>3, <1>5
<1>7. Good(s) /\ s.pass = pass /\ s.at = 1 /\ s.err = Fine
  BY <1>4, <1>6, StartGood
<1>8. l \in Seq(Lines)
  BY <1>1, <1>2 DEF Written
<1>9. l # <<>> => Len(l) \in Nat \ {0}
  BY <1>8
<1>10. Sound(l, s)
  BY <1>5, <1>7, <1>9 DEF Sound
<1>11. s = StartPass(setting, 1, <<>>)
  BY <1>1, <1>2
<1>12. Firm(l, s)
  BY <1>11, FirmStart
<1> QED
  BY <1>1, <1>2, <1>10, <1>12 DEF AssemblerInv

(* Every action but the end of a pass reads a line.                        *)
LEMMA LineRead ==
  ASSUME NEW l, NEW s, l = listing, s = asm, NEW u, u = asm', AssemblerNext, ~EndPass
  PROVE  s.err = Fine /\ s.pass < 3 /\ s.at <= Len(l) /\ u = Reading(l, s) /\ listing' = listing
<1>1. CASE Label
  <2>1. s.err = Fine /\ s.pass < 3 /\ s.at <= Len(l) /\ l[s.at].t = "label"
    BY <1>1 DEF Label, AtLine, Assembling
  <2>2. u = Stepped(ReadLabel(s, l[s.at])) /\ listing' = listing
    BY <1>1 DEF Label, NextLine, Line, Stepped
  <2>3. Read(s, l[s.at]) = ReadLabel(s, l[s.at])
    BY <2>1 DEF Read
  <2>4. u = Reading(l, s)
    BY <2>1, <2>2, <2>3 DEF Reading
  <2> QED
    BY <2>1, <2>2, <2>4
<1>2. CASE Data
  <2>1. s.err = Fine /\ s.pass < 3 /\ s.at <= Len(l) /\ l[s.at].t = "data"
    BY <1>2 DEF Data, AtLine, Assembling
  <2>2. u = Stepped(ReadData(s, l[s.at])) /\ listing' = listing
    BY <1>2 DEF Data, NextLine, Line, Stepped
  <2>3. Read(s, l[s.at]) = ReadData(s, l[s.at])
    BY <2>1 DEF Read
  <2>4. u = Reading(l, s)
    BY <2>1, <2>2, <2>3 DEF Reading
  <2> QED
    BY <2>1, <2>2, <2>4
<1>3. CASE Instruct
  <2>1. s.err = Fine /\ s.pass < 3 /\ s.at <= Len(l) /\ l[s.at].t = "inst"
    BY <1>3 DEF Instruct, AtLine, Assembling
  <2>2. u = Stepped(ReadInstruction(s, l[s.at])) /\ listing' = listing
    BY <1>3 DEF Instruct, NextLine, Line, Stepped
  <2>3. Read(s, l[s.at]) = ReadInstruction(s, l[s.at])
    BY <2>1 DEF Read
  <2>4. u = Reading(l, s)
    BY <2>1, <2>2, <2>3 DEF Reading
  <2> QED
    BY <2>1, <2>2, <2>4
<1>4. CASE File
  <2>1. s.err = Fine /\ s.pass < 3 /\ s.at <= Len(l) /\ l[s.at].t = "file"
    BY <1>4 DEF File, AtLine, Assembling
  <2>2. u = Stepped(ReadFile(s, l[s.at])) /\ listing' = listing
    BY <1>4 DEF File, NextLine, Line, Stepped
  <2>3. Read(s, l[s.at]) = ReadFile(s, l[s.at])
    BY <2>1 DEF Read
  <2>4. u = Reading(l, s)
    BY <2>1, <2>2, <2>3 DEF Reading
  <2> QED
    BY <2>1, <2>2, <2>4
<1>5. CASE Struct
  <2>1. s.err = Fine /\ s.pass < 3 /\ s.at <= Len(l) /\ l[s.at].t = "struct"
    BY <1>5 DEF Struct, AtLine, Assembling
  <2>2. u = Stepped(ReadStruct(s, l[s.at])) /\ listing' = listing
    BY <1>5 DEF Struct, NextLine, Line, Stepped
  <2>3. Read(s, l[s.at]) = ReadStruct(s, l[s.at])
    BY <2>1 DEF Read
  <2>4. u = Reading(l, s)
    BY <2>1, <2>2, <2>3 DEF Reading
  <2> QED
    BY <2>1, <2>2, <2>4
<1>6. CASE Ditto
  <2>1. s.err = Fine /\ s.pass < 3 /\ s.at <= Len(l) /\ l[s.at].t = "ditto"
    BY <1>6 DEF Ditto, AtLine, Assembling
  <2>2. u = Stepped(ReadDitto(s, l[s.at])) /\ listing' = listing
    BY <1>6 DEF Ditto, NextLine, Line, Stepped
  <2>3. Read(s, l[s.at]) = ReadDitto(s, l[s.at])
    BY <2>1 DEF Read
  <2>4. u = Reading(l, s)
    BY <2>1, <2>2, <2>3 DEF Reading
  <2> QED
    BY <2>1, <2>2, <2>4
<1>7. CASE DittoEnd
  <2>1. s.err = Fine /\ s.pass < 3 /\ s.at <= Len(l) /\ l[s.at].t = "dittoend"
    BY <1>7 DEF DittoEnd, AtLine, Assembling
  <2>2. u = Stepped(ReadDittoEnd(s, l[s.at])) /\ listing' = listing
    BY <1>7 DEF DittoEnd, NextLine, Line, Stepped
  <2>3. Read(s, l[s.at]) = ReadDittoEnd(s, l[s.at])
    BY <2>1 DEF Read
  <2>4. u = Reading(l, s)
    BY <2>1, <2>2, <2>3 DEF Reading
  <2> QED
    BY <2>1, <2>2, <2>4
<1>8. CASE Fit
  <2>1. s.err = Fine /\ s.pass < 3 /\ s.at <= Len(l) /\ l[s.at].t = "fit"
    BY <1>8 DEF Fit, AtLine, Assembling
  <2>2. u = Stepped(ReadFit(s, l[s.at])) /\ listing' = listing
    BY <1>8 DEF Fit, NextLine, Line, Stepped
  <2>3. Read(s, l[s.at]) = ReadFit(s, l[s.at])
    BY <2>1 DEF Read
  <2>4. u = Reading(l, s)
    BY <2>1, <2>2, <2>3 DEF Reading
  <2> QED
    BY <2>1, <2>2, <2>4
<1>9. CASE Res
  <2>1. s.err = Fine /\ s.pass < 3 /\ s.at <= Len(l) /\ l[s.at].t = "res"
    BY <1>9 DEF Res, AtLine, Assembling
  <2>2. u = Stepped(ReadRes(s, l[s.at])) /\ listing' = listing
    BY <1>9 DEF Res, NextLine, Line, Stepped
  <2>3. Read(s, l[s.at]) = ReadRes(s, l[s.at])
    BY <2>1 DEF Read
  <2>4. u = Reading(l, s)
    BY <2>1, <2>2, <2>3 DEF Reading
  <2> QED
    BY <2>1, <2>2, <2>4
<1>10. CASE Orgf
  <2>1. s.err = Fine /\ s.pass < 3 /\ s.at <= Len(l) /\ l[s.at].t = "orgf"
    BY <1>10 DEF Orgf, AtLine, Assembling
  <2>2. u = Stepped(ReadOrgf(s, l[s.at])) /\ listing' = listing
    BY <1>10 DEF Orgf, NextLine, Line, Stepped
  <2>3. Read(s, l[s.at]) = ReadOrgf(s, l[s.at])
    BY <2>1 DEF Read
  <2>4. u = Reading(l, s)
    BY <2>1, <2>2, <2>3 DEF Reading
  <2> QED
    BY <2>1, <2>2, <2>4
<1>11. CASE Align
  <2>1. s.err = Fine /\ s.pass < 3 /\ s.at <= Len(l) /\ l[s.at].t = "align"
    BY <1>11 DEF Align, AtLine, Assembling
  <2>2. u = Stepped(ReadAlign(s, l[s.at])) /\ listing' = listing
    BY <1>11 DEF Align, NextLine, Line, Stepped
  <2>3. Read(s, l[s.at]) = ReadAlign(s, l[s.at])
    BY <2>1 DEF Read
  <2>4. u = Reading(l, s)
    BY <2>1, <2>2, <2>3 DEF Reading
  <2> QED
    BY <2>1, <2>2, <2>4
<1>12. CASE Org
  <2>1. s.err = Fine /\ s.pass < 3 /\ s.at <= Len(l) /\ l[s.at].t = "org"
    BY <1>12 DEF Org, AtLine, Assembling
  <2>2. u = Stepped(ReadOrg(s, l[s.at])) /\ listing' = listing
    BY <1>12 DEF Org, NextLine, Line, Stepped
  <2>3. Read(s, l[s.at]) = ReadOrg(s, l[s.at])
    BY <2>1 DEF Read
  <2>4. u = Reading(l, s)
    BY <2>1, <2>2, <2>3 DEF Reading
  <2> QED
    BY <2>1, <2>2, <2>4
<1>13. CASE Orgh
  <2>1. s.err = Fine /\ s.pass < 3 /\ s.at <= Len(l) /\ l[s.at].t = "orgh"
    BY <1>13 DEF Orgh, AtLine, Assembling
  <2>2. u = Stepped(ReadOrgh(s, l[s.at])) /\ listing' = listing
    BY <1>13 DEF Orgh, NextLine, Line, Stepped
  <2>3. Read(s, l[s.at]) = ReadOrgh(s, l[s.at])
    BY <2>1 DEF Read
  <2>4. u = Reading(l, s)
    BY <2>1, <2>2, <2>3 DEF Reading
  <2> QED
    BY <2>1, <2>2, <2>4
<1>14. CASE InlineEnd
  <2>1. s.err = Fine /\ s.pass < 3 /\ s.at <= Len(l) /\ l[s.at].t = "end"
    BY <1>14 DEF InlineEnd, AtLine, Assembling
  <2>2. u = Stepped([ReadEnd(s, l[s.at]) EXCEPT !.at = Len(l)]) /\ listing' = listing
    BY <1>14 DEF InlineEnd, NextLine, Line, Stepped
  <2>3. Read(s, l[s.at]) = ReadEnd(s, l[s.at])
    BY <2>1 DEF Read
  <2>4. u = Reading(l, s)
    BY <2>1, <2>2, <2>3 DEF Reading
  <2> QED
    BY <2>1, <2>2, <2>4
<1> QED
  BY <1>1, <1>2, <1>3, <1>4, <1>5, <1>6, <1>7, <1>8, <1>9, <1>10, <1>11, <1>12, <1>13, <1>14 DEF AssemblerNext

(* The end of a pass keeps the invariant.                                  *)
LEMMA PassOver ==
  ASSUME NEW l \in Seq(Lines), NEW s, l = listing, s = asm, Sound(l, s), Firm(l, s), NEW u, u = asm', EndPass
  PROVE  Sound(l, u) /\ Firm(l, u)
<1>1. Good(s) /\ IsState(s) /\ s.err = Fine /\ s.pass < 3 /\ s.at > Len(l)
  BY DEF EndPass, Assembling, Sound, Good
<1>2. l = <<>> \/ Len(l) \in Nat \ {0}
  OBVIOUS
<1>3. CASE s.ditto.on
  <2>1. u = [s EXCEPT !.err = "ditto"]
    BY <1>1, <1>3 DEF EndPass, Fail
  <2> QED
    BY <1>1, <2>1, PassFails, FirmFails DEF Fine
<1>4. CASE ~s.ditto.on /\ Inline(s) /\ ~Ended
  <2>1. u = [s EXCEPT !.err = "end"]
    BY <1>1, <1>4 DEF EndPass, Fail
  <2> QED
    BY <1>1, <2>1, PassFails, FirmFails DEF Fine
<1>5. CASE ~s.ditto.on /\ ~(Inline(s) /\ ~Ended) /\ s.pass = 1
  <2>1. u = StartPass(s.setting, 2, s.labels)
    BY <1>5 DEF EndPass
  <2> QED
    BY <1>1, <1>2, <1>5, <2>1, PassStarts, FirmStarts
<1>6. CASE ~s.ditto.on /\ ~(Inline(s) /\ ~Ended) /\ s.pass # 1
  <2>1. PICK long : long = IF Inline(s) THEN LengthField ELSE 0
    OBVIOUS
  <2>2. u = [s EXCEPT !.pass = 3, !.length = long]
    BY <1>6, <2>1 DEF EndPass
  <2>3. ASSUME Inline(s)
        PROVE  /\ s.image # <<>> /\ LastOp(s) = "ret"
               /\ (IF s.setting.inline = "org" THEN long + 1 ELSE long) = (s.offset - s.setting.start + 3) \div 4
    <3>1. l # <<>> /\ l[Len(l)].t = "end"
      BY <1>6, <2>3 DEF Ended
    <3>2. s.image # <<>> /\ LastOp(s) = "ret"
      BY <1>1, <2>3, <3>1 DEF Sound
    <3>3. s.offset \in Int /\ s.setting.start \in Int
      BY <1>1 DEF IsState, Settings
    <3>4. PICK k \in Int : k = (s.offset - s.setting.start + 3) \div 4
      BY <3>3
    <3>5. long = IF s.setting.inline = "org" THEN k - 1 ELSE k
      BY <2>1, <2>3, <3>4 DEF LengthField, InlineLongs
    <3> QED
      BY <3>2, <3>4, <3>5
  <2>4. Sound(l, u)
    BY <1>1, <1>6, <2>2, <2>3, PassEnds
  <2>5. Firm(l, u)
    BY <1>1, <2>2, FirmEnds
  <2> QED
    BY <2>4, <2>5
<1> QED
  BY <1>3, <1>4, <1>5, <1>6

(* Every step keeps it.                                                    *)
LEMMA AssemblerInvNext ==
  AssemblerInv /\ [AssemblerNext]_assembling => AssemblerInv'
<1> SUFFICES ASSUME AssemblerInv, [AssemblerNext]_assembling PROVE AssemblerInv'
  OBVIOUS
<1>1. PICK l, s : l = listing /\ s = asm /\ Sound(l, s) /\ Firm(l, s)
  BY DEF AssemblerInv
<1>2. PICK u : u = asm'
  OBVIOUS
<1>3. Written /\ l \in Seq(Lines) /\ \A x \in DOMAIN l : l[x].t = "align" => l[x].n > 0
  BY <1>1 DEF AssemblerInv, Written
<1>4. SUFFICES listing' = listing /\ Sound(l, u) /\ Firm(l, u)
  <2>1. ASSUME listing' = listing, Sound(l, u), Firm(l, u) PROVE AssemblerInv'
    <3>1. Written'
      BY <1>3, <2>1 DEF Written
    <3>2. \E k, t : k = listing' /\ t = asm' /\ Sound(k, t) /\ Firm(k, t)
      BY <1>1, <1>2, <2>1
    <3> QED
      BY <3>1, <3>2 DEF AssemblerInv
  <2> QED
    BY <2>1
<1>5. CASE UNCHANGED assembling
  BY <1>1, <1>2, <1>5 DEF assembling
<1>6. CASE EndPass
  <2>1. listing' = listing
    BY <1>6 DEF EndPass
  <2>2. Sound(l, u) /\ Firm(l, u)
    BY <1>1, <1>2, <1>3, <1>6, PassOver
  <2> QED
    BY <2>1, <2>2
<1>7. CASE AssemblerNext /\ ~EndPass
  <2>1. s.err = Fine /\ s.pass < 3 /\ s.at <= Len(l) /\ u = Reading(l, s) /\ listing' = listing
    BY <1>1, <1>2, <1>7, LineRead
  <2>2. Sound(l, u) /\ Firm(l, u)
    BY <1>1, <1>3, <2>1, FirmRead
  <2> QED
    BY <2>1, <2>2
<1> QED
  BY <1>5, <1>6, <1>7

(* At every moment a label stands at the offset and the address of the     *)
(* first byte of its line, and when the second pass comes to a line its    *)
(* label has that very place.                                              *)
THEOREM SymbolsStandStill ==
  AssemblerSpec => []SymbolsStand
<1>1. AssemblerInit => AssemblerInv
  BY AssemblerInvInit
<1>2. AssemblerInv /\ [AssemblerNext]_assembling => AssemblerInv'
  BY AssemblerInvNext
<1>3. AssemblerInv => SymbolsStand
  <2> SUFFICES ASSUME AssemblerInv, asm.err = Fine
               PROVE  /\ \A x \in DOMAIN asm.image :
                           FirstOfLine(x) /\ listing[asm.image[x].line].t \in Labelled /\ listing[asm.image[x].line].label.name # Nameless =>
                             Stands(listing[asm.image[x].line].label, asm.image[x].scope, asm.image[x].offset, asm.image[x].hub, asm.image[x].org)
                      /\ asm.pass = 2 /\ asm.at <= Len(listing) /\ Line.t \in Labelled /\ Line.label.name # Nameless =>
                           LET pad == IF ~asm.hub /\ Line.t \in {"inst", "res"} THEN (-asm.cogOrg) % 4 ELSE 0
                           IN  Stands(Line.label, asm.scope, asm.offset + pad, asm.hub, Here(asm) + pad)
    BY DEF SymbolsStand
  <2>1. PICK l, s : l = listing /\ s = asm /\ Sound(l, s) /\ Firm(l, s)
    BY DEF AssemblerInv
  <2>2. l \in Seq(Lines) /\ \A x \in DOMAIN l : l[x].t = "align" => l[x].n > 0
    BY <2>1 DEF AssemblerInv, Written
  <2>3. IsState(s) /\ s.err = Fine
    BY <2>1 DEF Sound, Good
  <2>4. Standing(l, s) /\ (s.pass = 2 => Following(l, s))
    BY <2>1, <2>3 DEF Firm
  <2>5. ASSUME NEW x \in DOMAIN asm.image, FirstOfLine(x), listing[asm.image[x].line].t \in Labelled, listing[asm.image[x].line].label.name # Nameless
        PROVE  Stands(listing[asm.image[x].line].label, asm.image[x].scope, asm.image[x].offset, asm.image[x].hub, asm.image[x].org)
    <3>1. PICK c : c = asm.image[x]
      OBVIOUS
    <3>2. x \in 1..Len(s.image) /\ c = s.image[x]
      BY <2>1, <2>3, <3>1 DEF IsState
    <3>3. FirstIn(s, x) /\ Named(l[c.line])
      BY <2>1, <2>5, <3>1 DEF FirstIn, FirstOfLine, Named
    <3>4. StandsIn(s.labels, l[c.line].label, c.scope, c.offset, c.hub, c.org)
      BY <2>4, <3>2, <3>3 DEF Standing
    <3> QED
      BY <2>1, <3>1, <3>4 DEF StandsIn, Stands
  <2>6. ASSUME asm.pass = 2, asm.at <= Len(listing), Line.t \in Labelled, Line.label.name # Nameless,
               NEW pad, pad = IF ~asm.hub /\ Line.t \in {"inst", "res"} THEN (-asm.cogOrg) % 4 ELSE 0
        PROVE  Stands(Line.label, asm.scope, asm.offset + pad, asm.hub, Here(asm) + pad)
    <3>1. PICK line : line = l[s.at]
      OBVIOUS
    <3>2. line = Line
      BY <2>1, <3>1 DEF Line
    <3>3. Named(line) /\ s.pass = 2 /\ s.at <= Len(l)
      BY <2>1, <2>6, <3>2 DEF Named
    <3>4. Entry(s.labels, s, line, Pad(s, line))
      BY <2>2, <2>3, <2>4, <3>1, <3>3, FollowedEntry
    <3>5. pad = Pad(s, line)
      BY <2>1, <2>6, <3>2 DEF Pad
    <3>6. StandsIn(s.labels, line.label, s.scope, s.offset + pad, s.hub, Here(s) + pad)
      BY <3>4, <3>5 DEF Entry
    <3> QED
      BY <2>1, <3>2, <3>6 DEF StandsIn, Stands
  <2> QED
    BY <2>5, <2>6
<1> QED
  BY <1>1, <1>2, <1>3, PTL DEF AssemblerSpec

(* At every moment the image is whole.                                     *)
THEOREM ImageIsWhole ==
  AssemblerSpec => []ImageWhole
<1>1. AssemblerInit => AssemblerInv
  BY AssemblerInvInit
<1>2. AssemblerInv /\ [AssemblerNext]_assembling => AssemblerInv'
  BY AssemblerInvNext
<1>3. AssemblerInv => ImageWhole
  <2> SUFFICES ASSUME AssemblerInv, asm.err = Fine
               PROVE  /\ \A x \in DOMAIN asm.image :
                           /\ asm.image[x].size > 0
                           /\ asm.image[x].offset = IF x = 1 THEN asm.setting.start ELSE asm.image[x - 1].offset + asm.image[x - 1].size
                      /\ asm.offset = EndOf(asm)
                      /\ asm.sites = Breaks(asm)
                      /\ Finished /\ Inline(asm) =>
                           /\ asm.image[Len(asm.image)].what.op = "ret"
                           /\ 4 * (IF asm.setting.inline = "org" THEN asm.length + 1 ELSE asm.length)
                                \in asm.offset - asm.setting.start..asm.offset - asm.setting.start + 3
    BY DEF ImageWhole
  <2>1. PICK s : s = asm /\ Good(s) /\ (s.pass = 3 /\ Inline(s) => Loaded(s))
    BY DEF AssemblerInv, Sound
  <2>2. Contiguous(s)
    BY <2>1 DEF Good
  <2>3. PICK a \in Nat : a = Len(s.image) /\ DOMAIN s.image = 1..a
    BY <2>1 DEF Good, IsState
  <2>4. ASSUME NEW x \in 1..a
        PROVE  /\ s.image[x].size > 0
               /\ s.image[x].offset = IF x = 1 THEN s.setting.start ELSE s.image[x - 1].offset + s.image[x - 1].size
    <3>1. s.image[x].size > 0 /\ s.image[x].offset = EndAt(s, x - 1)
      BY <2>2, <2>3 DEF Contiguous
    <3>2. x - 1 = 0 <=> x = 1
      OBVIOUS
    <3> QED
      BY <3>1, <3>2 DEF EndAt
  <2>5. s.offset = EndOf(s)
    <3>1. s.offset = EndAt(s, a)
      BY <2>2, <2>3 DEF Contiguous
    <3>2. a = 0 <=> s.image = <<>>
      BY <2>1, <2>3 DEF Good, IsState
    <3> QED
      BY <2>3, <3>1, <3>2 DEF EndAt, EndOf
  <2>6. s.sites = Breaks(s)
    BY <2>2, <2>3 DEF Contiguous, Sited, Breaks
  <2>7. Finished /\ Inline(s) => Loaded(s)
    BY <2>1 DEF Finished
  <2> QED
    BY <2>1, <2>3, <2>4, <2>5, <2>6, <2>7 DEF Loaded, LastOp
<1> QED
  BY <1>1, <1>2, <1>3, PTL DEF AssemblerSpec
=============================================================================
