------------------------- MODULE Declarations_proofs --------------------------
(***************************************************************************)
(* The memory of an object and what it is refused for, for any             *)
(* declarations and any limits.                                            *)
(***************************************************************************)
EXTENDS Declarations, FiniteSetTheorems, WellFoundedInduction, TLAPS

(* Numbers and sets of them.                                               *)

LEMMA Least ==
  ASSUME NEW T \in SUBSET Nat, T # {}
  PROVE  \E n \in T : \A m \in T : n <= m
<1>1. PICK n \in T : \A m \in T : <<m, n>> \notin OpToRel(<, Nat)
  BY NatLessThanWellFounded, WFMin
<1>2. \A m \in T : m \in Nat /\ n \in Nat /\ ~(m < n)
  BY <1>1 DEF OpToRel
<1>3. \A m \in T : n <= m
  BY <1>2, SMT
<1> QED
  BY <1>3

(* A set of numbers that has 0, and with each number the next, has all.    *)
LEMMA UpTo ==
  ASSUME NEW n \in Nat, NEW G, 0 \in G, \A k \in 1..n : k - 1 \in G => k \in G
  PROVE  \A k \in 0..n : k \in G
<1> DEFINE T == {k \in 0..n : k \notin G}
<1>1. SUFFICES ASSUME T # {} PROVE FALSE
  OBVIOUS
<1>2. T \in SUBSET Nat
  OBVIOUS
<1>3. PICK k \in T : \A m \in T : k <= m
  BY <1>1, <1>2, Least
<1>4. k \in 1..n /\ k - 1 \in 0..n /\ ~(k <= k - 1)
  BY <1>3
<1>5. k - 1 \in G
  BY <1>3, <1>4
<1> QED
  BY <1>3, <1>4, <1>5

(* What Min chooses from a set of numbers.                                 *)
LEMMA MinIs ==
  ASSUME NEW T \in SUBSET Nat, T # {}
  PROVE  Min(T) \in T /\ \A m \in T : Min(T) <= m
<1>1. PICK n \in T : \A m \in T : n <= m
  BY Least
<1> QED
  BY <1>1 DEF Min

(* What Max chooses from one that has a greatest.                          *)
LEMMA MaxIs ==
  ASSUME NEW n \in Nat, NEW T \in SUBSET (1..n), T # {}
  PROVE  Max(T) \in T /\ \A m \in T : m <= Max(T)
<1> DEFINE D == {n - m : m \in T}
<1>a. \A m \in T : m \in 1..n /\ n - m \in Nat
  BY SMT
<1>1. D \in SUBSET Nat /\ D # {}
  BY <1>a
<1>2. PICK d \in D : \A e \in D : d <= e
  BY <1>1, Least
<1>3. PICK x \in T : d = n - x
  BY <1>2
<1>4. \A m \in T : x >= m
  <2> TAKE m \in T
  <2>1. n - x <= n - m
    BY <1>2, <1>3
  <2> QED
    BY <2>1, <1>a, SMT
<1>5. Max(T) \in T /\ \A m \in T : Max(T) >= m
  BY <1>4 DEF Max
<1> QED
  BY <1>5, SMT

-----------------------------------------------------------------------------
(* Reading from front to back.                                             *)

Reads(as, s, seq, r) == r[0] = s /\ \A k \in 1..Len(seq) : r[k] = Read(as, r[k - 1], seq[k])
After(as, s, seq, n, r) == r = [k \in 0..n |-> IF k = 0 THEN s ELSE Read(as, r[k - 1], seq[k])]

(* There are states to read items through, however many: a least number of *)
(* items without them would have them.                                     *)
LEMMA AfterExists ==
  ASSUME NEW as, NEW s, NEW seq, NEW n \in Nat
  PROVE  \E r : After(as, s, seq, n, r)
<1> DEFINE G == {k \in 0..n : \E r : After(as, s, seq, k, r)}
<1>1. 0 \in G
  <2>1. PICK r : r = [k \in 0..0 |-> s]
    OBVIOUS
  <2>2. After(as, s, seq, 0, r)
    <3>1. \A k \in 0..0 : k = 0
      OBVIOUS
    <3> QED
      BY <2>1, <3>1 DEF After
  <2>3. \E t : After(as, s, seq, 0, t)
    BY <2>2
  <2>4. 0 \in 0..n
    OBVIOUS
  <2> QED
    BY <2>3, <2>4
<1>2. ASSUME NEW k \in 1..n, k - 1 \in G PROVE k \in G
  <2>1. PICK r : After(as, s, seq, k - 1, r)
    BY <1>2
  <2>2. PICK t : t = [i \in 0..k |-> IF i = k THEN Read(as, r[k - 1], seq[k]) ELSE r[i]]
    OBVIOUS
  <2>3. ASSUME NEW i \in 0..k PROVE t[i] = IF i = 0 THEN s ELSE Read(as, t[i - 1], seq[i])
    <3>1. CASE i = 0
      <4>1. 0 \in 0..k /\ 0 # k /\ 0 \in 0..(k - 1)
        OBVIOUS
      <4>2. t[0] = r[0] /\ r[0] = s
        BY <2>1, <2>2, <4>1 DEF After
      <4> QED
        BY <3>1, <4>2
    <3>2. CASE i = k
      <4>1. k - 1 \in 0..k /\ k - 1 # k /\ k # 0
        OBVIOUS
      <4>2. t[k - 1] = r[k - 1]
        BY <2>2, <4>1
      <4> QED
        BY <2>2, <3>2, <4>1, <4>2
    <3>3. CASE i # 0 /\ i # k
      <4>1. i - 1 \in 0..k /\ i - 1 # k /\ i \in 0..(k - 1)
        BY <3>3
      <4>2. t[i - 1] = r[i - 1] /\ t[i] = r[i]
        BY <2>2, <3>3, <4>1
      <4>3. r[i] = Read(as, r[i - 1], seq[i])
        BY <2>1, <3>3, <4>1 DEF After
      <4> QED
        BY <3>3, <4>2, <4>3
    <3> QED
      BY <3>1, <3>2, <3>3
  <2>4. After(as, s, seq, k, t)
    BY <2>2, <2>3 DEF After
  <2>5. \E u : After(as, s, seq, k, u)
    BY <2>4
  <2>6. k \in 0..n
    OBVIOUS
  <2> QED
    BY <2>5, <2>6
<1> HIDE DEF G
<1>3. n \in G
  BY <1>1, <1>2, UpTo
<1> QED
  BY <1>3 DEF G

(* So what ReadAll returns is the last of such states.                     *)
LEMMA ReadAllReads ==
  ASSUME NEW as, NEW s, NEW seq, Len(seq) \in Nat
  PROVE  \E r : Reads(as, s, seq, r) /\ ReadAll(as, s, seq) = r[Len(seq)]
<1>1. \E r : After(as, s, seq, Len(seq), r)
  BY AfterExists
<1>2. PICK r : r = CHOOSE t : After(as, s, seq, Len(seq), t)
  OBVIOUS
<1>3. After(as, s, seq, Len(seq), r)
  BY <1>1, <1>2
<1>4. ReadAll(as, s, seq) = r[Len(seq)]
  BY <1>2 DEF ReadAll, After
<1>5. Reads(as, s, seq, r)
  BY <1>3 DEF After, Reads
<1> QED
  BY <1>4, <1>5

(* An error is not the lack of one.                                        *)
LEMMA NotFine == ASSUME NEW why \in Errors PROVE why # Fine
  BY Zenon DEF Errors, Fine

-----------------------------------------------------------------------------
(* Sizes.                                                                  *)

LEMMA Product == \A a, b \in Nat : a * b \in Nat
  OBVIOUS

(* The sizes of an item are natural numbers.                               *)
LEMMA Sizes ==
  ASSUME NEW list, AreItems(list), NEW j \in DOMAIN list
  PROVE  /\ Times(list[j]) \in Nat /\ UnitSize(list[j]) \in Nat /\ ValueLongs(list[j]) \in Nat
         /\ Times(list[j]) * UnitSize(list[j]) \in Nat
<1>1. Times(list[j]) \in Nat
  BY DEF Times, AreItems
<1>2. UnitSize(list[j]) \in Nat
  BY DEF UnitSize, BaseSize, AreItems
<1>3. ValueLongs(list[j]) \in Nat
  BY DEF ValueLongs, Longs, AreItems
<1> QED
  BY <1>1, <1>2, <1>3, Product

(* An aligned address is not below the one it is made from.                *)
LEMMA AlignedIs ==
  ASSUME NEW a \in Nat, NEW mask \in {0, 1, 3}
  PROVE  /\ Aligned(a, mask) \in Nat /\ a <= Aligned(a, mask)
         /\ Aligned(a, mask) % (mask + 1) = 0
<1>1. CASE mask = 0
  BY <1>1 DEF Aligned
<1>2. CASE mask = 1
  BY <1>2 DEF Aligned
<1>3. CASE mask = 3
  BY <1>3 DEF Aligned
<1> QED
  BY <1>1, <1>2, <1>3

(* The longs of the instances in front of the methods are a natural        *)
(* number.                                                                 *)
LEMMA Instances == AreBlocks => SubStart \in Nat
<1> SUFFICES ASSUME AreBlocks PROVE SubStart \in Nat
  OBVIOUS
<1> DEFINE Longs2(k) == IF blocks[k].kind = "obj" THEN 2 * blocks[k].count ELSE 0
           Counts2(r, n) == r = [k \in 0..n |-> IF k = 0 THEN 0 ELSE r[k - 1] + Longs2(k)]
<1>1. PICK n \in Nat : n = Len(blocks)
  BY DEF AreBlocks
<1>2. \A k \in 1..n : Longs2(k) \in Nat
  BY <1>1 DEF AreBlocks
<1> DEFINE G == {m \in 0..n : \E r : Counts2(r, m) /\ \A k \in 0..m : r[k] \in Nat}
<1>3. 0 \in G
  <2>1. PICK r : r = [k \in 0..0 |-> 0]
    OBVIOUS
  <2>2. \A k \in 0..0 : k = 0 /\ r[k] = 0
    BY <2>1
  <2>3. Counts2(r, 0)
    BY <2>1, <2>2
  <2>4. \E t : Counts2(t, 0) /\ \A k \in 0..0 : t[k] \in Nat
    BY <2>2, <2>3
  <2>5. 0 \in 0..n
    OBVIOUS
  <2> QED
    BY <2>4, <2>5
<1>4. ASSUME NEW m \in 1..n, m - 1 \in G PROVE m \in G
  <2>1. PICK r : Counts2(r, m - 1) /\ \A k \in 0..(m - 1) : r[k] \in Nat
    BY <1>4
  <2>2. PICK t : t = [k \in 0..m |-> IF k = m THEN r[m - 1] + Longs2(m) ELSE r[k]]
    OBVIOUS
  <2> HIDE DEF Longs2
  <2>3. ASSUME NEW k \in 0..m PROVE t[k] = (IF k = 0 THEN 0 ELSE t[k - 1] + Longs2(k)) /\ t[k] \in Nat
    <3>1. CASE k = 0
      <4>1. 0 \in 0..m /\ 0 # m /\ 0 \in 0..(m - 1)
        OBVIOUS
      <4>2. t[0] = r[0] /\ r[0] = 0
        BY <2>1, <2>2, <4>1
      <4> QED
        BY <3>1, <4>2
    <3>2. CASE k = m
      <4>1. m - 1 \in 0..m /\ m - 1 # m /\ m # 0 /\ m - 1 \in 0..(m - 1)
        OBVIOUS
      <4>2. t[m - 1] = r[m - 1] /\ r[m - 1] \in Nat
        BY <2>1, <2>2, <4>1
      <4>3. t[m] = r[m - 1] + Longs2(m)
        BY <2>2
      <4> QED
        BY <1>2, <3>2, <4>1, <4>2, <4>3
    <3>3. CASE k # 0 /\ k # m
      <4>1. k - 1 \in 0..m /\ k - 1 # m /\ k \in 0..(m - 1)
        BY <3>3
      <4>2. t[k - 1] = r[k - 1] /\ t[k] = r[k]
        BY <2>2, <3>3, <4>1
      <4>3. r[k] = r[k - 1] + Longs2(k) /\ r[k] \in Nat
        BY <2>1, <3>3, <4>1
      <4> QED
        BY <3>3, <4>2, <4>3
    <3> QED
      BY <3>1, <3>2, <3>3
  <2>4. Counts2(t, m)
    BY <2>2, <2>3
  <2>5. \E u : Counts2(u, m) /\ \A k \in 0..m : u[k] \in Nat
    BY <2>3, <2>4
  <2>6. m \in 0..n
    OBVIOUS
  <2> QED
    BY <2>5, <2>6
<1>5. n \in G
  <2> HIDE DEF G
  <2> QED
    BY <1>3, <1>4, UpTo
<1>6. PICK r : Counts2(r, n) /\ \A k \in 0..n : r[k] \in Nat
  BY <1>5
<1>7. PICK t : t = CHOOSE u : Counts2(u, n)
  OBVIOUS
<1>8. Counts2(t, n)
  BY <1>6, <1>7
<1>9. SubStart = t[n]
  BY <1>1, <1>7 DEF SubStart
<1> DEFINE H == {m \in 0..n : t[m] \in Nat}
<1>10. 0 \in H
  BY <1>8
<1>11. ASSUME NEW m \in 1..n, m - 1 \in H PROVE m \in H
  <2>1. t[m] = t[m - 1] + Longs2(m)
    BY <1>8
  <2>2. m \in 0..n
    OBVIOUS
  <2> QED
    BY <1>2, <1>11, <2>1, <2>2
<1>12. n \in H
  <2> HIDE DEF H
  <2> QED
    BY <1>10, <1>11, UpTo
<1> QED
  BY <1>9, <1>12

-----------------------------------------------------------------------------
(* Symbols.                                                                *)

Extends(new, old) == \A n \in DOMAIN old : n \in DOMAIN new /\ new[n] = old[n]

(* A new name leaves the old ones as they are.                             *)
LEMMA WithExtends ==
  ASSUME NEW syms, NEW name, name \notin DOMAIN syms, NEW sym
  PROVE  /\ Extends(With(syms, name, sym), syms)
         /\ name \in DOMAIN With(syms, name, sym) /\ With(syms, name, sym)[name] = sym
  BY DEF Extends, With

(* So do several.                                                          *)
LEMMA ExtendsFurther ==
  ASSUME NEW a, NEW b, NEW c, Extends(b, a), Extends(c, b)
  PROVE  Extends(c, a)
  BY DEF Extends

-----------------------------------------------------------------------------
(* The variables of the blocks in K, and of the first a items of block b.  *)

Own(syms, ptr, k, j) ==
  LET list == blocks[k].items
      sym == syms[list[j].name]
  IN  /\ list[j].name \in DOMAIN syms
      /\ sym.type = Type(Meant(k, j)) /\ (list[j].base = "struct" => sym.id = list[j].id)
      /\ sym.size = Times(list[j]) * UnitSize(Meant(k, j))
      /\ sym.at \in Nat /\ sym.size \in Nat /\ 4 <= sym.at /\ sym.at + sym.size <= ptr
      /\ j > 1 /\ list[j - 1].name = Nameless => sym.at % (list[j - 1].align + 1) = 0
In(K, b, a, k, j) == k \in BlocksOf("var") /\ j \in Variables(k) /\ (k \in K \/ (k = b /\ j <= a))
Behind(syms, k, j, l, h) ==
  l < k \/ (l = k /\ h < j) =>
    syms[blocks[l].items[h].name].at + syms[blocks[l].items[h].name].size <= syms[blocks[k].items[j].name].at
VarsIn(syms, ptr, K, b, a) ==
  /\ \A k, j : In(K, b, a, k, j) => Own(syms, ptr, k, j)
  /\ \A k, j, l, h : In(K, b, a, k, j) /\ In(K, b, a, l, h) => Behind(syms, k, j, l, h)

(* Variables keep their bytes when symbols are added and the pointer goes  *)
(* up.                                                                     *)
LEMMA VarsKept ==
  ASSUME NEW syms, NEW more, NEW ptr \in Nat, NEW end \in Nat, NEW K, NEW b, NEW a,
         VarsIn(syms, ptr, K, b, a), Extends(more, syms), ptr <= end
  PROVE  VarsIn(more, end, K, b, a)
<1>1. ASSUME NEW k, NEW j, In(K, b, a, k, j)
      PROVE  blocks[k].items[j].name \in DOMAIN syms /\ more[blocks[k].items[j].name] = syms[blocks[k].items[j].name]
  BY <1>1 DEF VarsIn, Own, Extends
<1>2. ASSUME NEW k, NEW j, In(K, b, a, k, j) PROVE Own(more, end, k, j)
  <2>1. Own(syms, ptr, k, j)
    BY <1>2 DEF VarsIn
  <2>2. PICK sym : sym = syms[blocks[k].items[j].name]
    OBVIOUS
  <2>3. more[blocks[k].items[j].name] = sym /\ blocks[k].items[j].name \in DOMAIN more
    BY <1>1, <1>2, <2>2 DEF Extends
  <2>4. sym.at \in Nat /\ sym.size \in Nat /\ sym.at + sym.size <= ptr
    BY <2>1, <2>2 DEF Own
  <2>5. sym.at + sym.size <= end
    BY <2>4
  <2> QED
    BY <2>1, <2>2, <2>3, <2>5 DEF Own
<1>3. ASSUME NEW k, NEW j, NEW l, NEW h, In(K, b, a, k, j), In(K, b, a, l, h)
      PROVE  Behind(more, k, j, l, h)
  <2>1. Behind(syms, k, j, l, h)
    BY <1>3 DEF VarsIn
  <2> QED
    BY <1>1, <1>3, <2>1 DEF Behind
<1> QED
  BY <1>2, <1>3 DEF VarsIn

(* Where a variable stands in the source.                                  *)
LEMMA VarPlaces ==
  ASSUME NEW k, NEW j, AreBlocks, k \in BlocksOf("var"), j \in Variables(k)
  PROVE  /\ k \in Nat /\ j \in Nat /\ AreItems(blocks[k].items)
         /\ j \in DOMAIN blocks[k].items /\ j \in 1..Len(blocks[k].items)
<1>1. k \in DOMAIN blocks /\ blocks[k].kind = "var"
  BY DEF BlocksOf
<1>2. AreItems(blocks[k].items) /\ k \in Nat
  BY <1>1 DEF AreBlocks
<1>3. j \in DOMAIN blocks[k].items
  BY DEF Variables
<1>4. j \in 1..Len(blocks[k].items) /\ Len(blocks[k].items) \in Nat
  BY <1>2, <1>3 DEF AreItems
<1> QED
  BY <1>2, <1>3, <1>4

(* An alignment is no variable.                                            *)
LEMMA NoVariable ==
  ASSUME NEW syms, NEW ptr, NEW K, NEW b, NEW a \in Nat, a + 1 \notin Variables(b), AreBlocks, 
         VarsIn(syms, ptr, K, b, a)
  PROVE  VarsIn(syms, ptr, K, b, a + 1)
<1>1. ASSUME NEW k, NEW j, In(K, b, a + 1, k, j) PROVE In(K, b, a, k, j)
  <2>1. k \in K \/ (k = b /\ j \in Variables(b) /\ j <= a + 1)
    BY <1>1 DEF In
  <2>2. CASE k \in K
    BY <1>1, <2>2 DEF In
  <2>3. CASE k = b /\ j \in Variables(b) /\ j <= a + 1
    <3>1. j \in Nat
      BY <1>1, VarPlaces DEF In
    <3>2. j # a + 1
      BY <2>3
    <3>3. j <= a
      BY <2>3, <3>1, <3>2
    <3> QED
      BY <1>1, <2>3, <3>3 DEF In
  <2> QED
    BY <2>1, <2>2, <2>3
<1> QED
  BY <1>1 DEF VarsIn

(* A variable is put behind all those before it.                           *)
LEMMA OneMore ==
  ASSUME NEW syms, NEW ptr \in Nat, NEW end \in Nat, NEW K, NEW b \in BlocksOf("var"), NEW a \in Nat, AreBlocks,
         \A k \in K : k < b,
         a + 1 \in Variables(b), VarsIn(syms, ptr, K, b, a), ptr <= end,
         NEW more, Extends(more, syms), Own(more, end, b, a + 1), more[blocks[b].items[a + 1].name].at = ptr
  PROVE  VarsIn(more, end, K, b, a + 1)
<1>a. ptr <= ptr
  OBVIOUS
<1>b. VarsIn(more, ptr, K, b, a)
  BY <1>a, VarsKept
<1>1. VarsIn(more, ptr, K, b, a) /\ VarsIn(more, end, K, b, a)
  BY <1>b, VarsKept
<1>2. ASSUME NEW k, NEW j, In(K, b, a + 1, k, j) PROVE In(K, b, a, k, j) \/ (k = b /\ j = a + 1)
  <2>1. k \in K \/ (k = b /\ j \in Variables(b) /\ j <= a + 1)
    BY <1>2 DEF In
  <2>2. CASE k \in K
    BY <1>2, <2>2 DEF In
  <2>3. CASE k = b /\ j \in Variables(b) /\ j <= a + 1
    <3>1. j \in Nat
      BY <1>2, VarPlaces DEF In
    <3>2. j <= a \/ j = a + 1
      BY <2>3, <3>1
    <3> QED
      BY <1>2, <2>3, <3>2 DEF In
  <2> QED
    BY <2>1, <2>2, <2>3
<1>3. ASSUME NEW k, NEW j, In(K, b, a + 1, k, j) PROVE Own(more, end, k, j)
  BY <1>1, <1>2, <1>3 DEF VarsIn
<1>4. ASSUME NEW k, NEW j, NEW l, NEW h, In(K, b, a + 1, k, j), In(K, b, a + 1, l, h)
      PROVE  Behind(more, k, j, l, h)
  <2>1. CASE In(K, b, a, k, j) /\ In(K, b, a, l, h)
    BY <1>1, <2>1 DEF VarsIn
  <2>2. CASE k = b /\ j = a + 1 /\ In(K, b, a, l, h)
    <3>1. Own(more, ptr, l, h)
      BY <1>1, <2>2 DEF VarsIn
    <3> QED
      BY <2>2, <3>1 DEF Own, Behind
  <2>3. CASE l = b /\ h = a + 1 /\ In(K, b, a, k, j)
    <3>1. b \in Nat
      BY DEF BlocksOf, AreBlocks
    <3>2. k \in K \/ (k = b /\ j <= a)
      BY <2>3 DEF In
    <3>3. k \in Nat /\ j \in Nat
      BY <2>3, VarPlaces DEF In
    <3>4. ~(l < k \/ (l = k /\ h < j))
      <4>1. CASE k \in K
        <5>1. k < b
          BY <4>1
        <5> QED
          BY <2>3, <3>1, <3>3, <5>1
      <4>2. CASE k = b /\ j <= a
        BY <2>3, <3>1, <3>3, <4>2
      <4> QED
        BY <3>2, <4>1, <4>2
    <3> QED
      BY <3>4 DEF Behind
  <2>4. CASE k = b /\ j = a + 1 /\ l = b /\ h = a + 1
    <3>1. b \in Nat
      BY DEF BlocksOf, AreBlocks
    <3> QED
      BY <2>4, <3>1 DEF Behind
  <2> QED
    BY <1>2, <1>4, <2>1, <2>2, <2>3, <2>4
<1> QED
  BY <1>3, <1>4 DEF VarsIn

-----------------------------------------------------------------------------
(* What an item of a VAR line is.                                          *)

LongAlone == [base |-> "none", ptr |-> FALSE]

(* What an item is follows from itself and, without a type of its own,     *)
(* from the item in front of it unless it begins a line.                   *)
LEMMA MeantIs ==
  ASSUME NEW b, NEW a \in Nat, NEW i, i = blocks[b].items[a + 1]
  PROVE  /\ i.name # Nameless /\ i.base # "none" => Meant(b, a + 1) = i
         /\ ~(i.name # Nameless /\ i.base # "none") /\ i.first => Meant(b, a + 1) = LongAlone
         /\ ~(i.name # Nameless /\ i.base # "none") /\ ~i.first => Meant(b, a + 1) = Meant(b, a)
<1>1. CASE i.name # Nameless /\ i.base # "none"
  <2>1. PICK T : T = Typing(b, a + 1)
    OBVIOUS
  <2>2. T \in SUBSET (1..(a + 1))
    BY <2>1 DEF Typing
  <2>3. a + 1 \in T
    <3>1. a + 1 \in 1..(a + 1) /\ (a + 1 + 1)..(a + 1) = {}
      OBVIOUS
    <3> QED
      BY <1>1, <2>1, <3>1 DEF Typing
  <2>4. Max(T) \in T /\ a + 1 <= Max(T)
    BY <2>2, <2>3, MaxIs
  <2>5. Max(T) = a + 1
    <3>1. PICK m : m = Max(T)
      OBVIOUS
    <3>2. m \in 1..(a + 1) /\ a + 1 <= m
      BY <2>2, <2>4, <3>1
    <3> QED
      BY <3>1, <3>2
  <2> QED
    BY <1>1, <2>1, <2>3, <2>5 DEF Meant
<1>2. CASE ~(i.name # Nameless /\ i.base # "none") /\ i.first
  <2>1. ASSUME NEW h \in Typing(b, a + 1) PROVE FALSE
    <3>1. h \in 1..(a + 1) /\ blocks[b].items[h].name # Nameless /\ blocks[b].items[h].base # "none" /\ \A g \in (h + 1)..(a + 1) : ~blocks[b].items[g].first
      BY DEF Typing
    <3>2. h # a + 1
      BY <1>2, <3>1
    <3>a. h \in 1..(a + 1)
      BY <3>1
    <3>3. a + 1 \in (h + 1)..(a + 1)
      BY <3>a, <3>2
    <3> QED
      BY <1>2, <3>1, <3>3
  <2>2. Typing(b, a + 1) = {}
    BY <2>1
  <2> QED
    BY <1>2, <2>2 DEF Meant, LongAlone
<1>3. CASE ~(i.name # Nameless /\ i.base # "none") /\ ~i.first
  <2>1. ASSUME NEW h, h \in Typing(b, a + 1) PROVE h \in Typing(b, a)
    <3>1. h \in 1..(a + 1) /\ blocks[b].items[h].name # Nameless /\ blocks[b].items[h].base # "none" /\ \A g \in (h + 1)..(a + 1) : ~blocks[b].items[g].first
      BY <2>1 DEF Typing
    <3>2. h # a + 1
      BY <1>3, <3>1
    <3>a. h \in 1..(a + 1)
      BY <3>1
    <3>3. h \in 1..a /\ \A g \in (h + 1)..a : g \in (h + 1)..(a + 1)
      BY <3>a, <3>2
    <3> QED
      BY <3>1, <3>3 DEF Typing
  <2>2. ASSUME NEW h, h \in Typing(b, a) PROVE h \in Typing(b, a + 1)
    <3>1. h \in 1..a /\ blocks[b].items[h].name # Nameless /\ blocks[b].items[h].base # "none" /\ \A g \in (h + 1)..a : ~blocks[b].items[g].first
      BY <2>2 DEF Typing
    <3>a. h \in 1..a
      BY <3>1
    <3>2. h \in 1..(a + 1) /\ \A g \in (h + 1)..(a + 1) : g \in (h + 1)..a \/ g = a + 1
      BY <3>a
    <3> QED
      BY <1>3, <3>1, <3>2 DEF Typing
  <2>3. Typing(b, a + 1) = Typing(b, a)
    BY <2>1, <2>2
  <2> QED
    BY <1>3, <2>3 DEF Meant
<1> QED
  BY <1>1, <1>2, <1>3

(* In front of the first item, a long.                                     *)
LEMMA MeantFirst == ASSUME NEW b PROVE Meant(b, 0) = LongAlone
<1>1. Typing(b, 0) = {}
  BY DEF Typing
<1> QED
  BY <1>1 DEF Meant, LongAlone

(* A long is what the compiler begins a line with.                         *)
LEMMA LongAloneIs == Type(LongAlone) = LongByDefault.type /\ UnitSize(LongAlone) = LongByDefault.size /\ UnitSize(LongAlone) = 4
  BY DEF LongAlone, LongByDefault, Type, Base, BaseSize, UnitSize

-----------------------------------------------------------------------------
(* Reading a VAR block.                                                    *)

Carrying(c, b, a) == c.type = Type(Meant(b, a)) /\ c.size = UnitSize(Meant(b, a)) /\ c.size \in Nat
VarState(s, K, b, a) ==
  /\ s = [ptr |-> s.ptr, syms |-> s.syms, carried |-> s.carried, err |-> s.err]
  /\ s.err \in Errors \cup {Fine}
  /\ s.err = Fine =>
       /\ s.ptr \in Nat /\ 4 <= s.ptr
       /\ VarsIn(s.syms, s.ptr, K, b, a)
       /\ Carrying(s.carried, b, a)
       /\ a >= 1 /\ blocks[b].items[a].name = Nameless => s.ptr % (blocks[b].items[a].align + 1) = 0

(* What the compiler carries to the next item is what the item in front of *)
(* it is.                                                                  *)
LEMMA CarriedOn ==
  ASSUME NEW b, NEW a \in Nat, NEW i, i = blocks[b].items[a + 1],
         AreItems(blocks[b].items), a + 1 \in DOMAIN blocks[b].items,
         NEW c, Carrying(c, b, a), NEW l, i.first => l = LongByDefault, ~i.first => l = c,
         NEW d, d = Carried(l, i)
  PROVE  /\ i.name = Nameless => Carrying(l, b, a + 1)
         /\ i.name # Nameless => Carrying(d, b, a + 1)
<1>1. CASE i.name # Nameless /\ i.base # "none"
  <2>1. Meant(b, a + 1) = i
    BY <1>1, MeantIs
  <2>2. UnitSize(i) \in Nat
    BY Sizes
  <2> QED
    BY <1>1, <2>1, <2>2 DEF Carrying, Carried
<1>2. CASE ~(i.name # Nameless /\ i.base # "none") /\ i.first
  <2>1. Meant(b, a + 1) = LongAlone
    BY <1>2, MeantIs
  <2>2. l = LongByDefault
    BY <1>2
  <2>3. UnitSize(LongAlone) \in Nat
    BY LongAloneIs
  <2>4. Carrying(l, b, a + 1)
    BY <2>1, <2>2, <2>3, LongAloneIs DEF Carrying
  <2> QED
    BY <1>2, <2>4 DEF Carried
<1>3. CASE ~(i.name # Nameless /\ i.base # "none") /\ ~i.first
  <2>1. Meant(b, a + 1) = Meant(b, a)
    BY <1>3, MeantIs
  <2>2. Carrying(l, b, a + 1)
    BY <1>3, <2>1 DEF Carrying
  <2> QED
    BY <1>3, <2>2 DEF Carried
<1> QED
  BY <1>1, <1>2, <1>3

(* Reading one more item gives it bytes of its own behind those of all     *)
(* others.                                                                 *)
LEMMA VarRead ==
  ASSUME NEW K, NEW b \in BlocksOf("var"), NEW a \in Nat, AreBlocks, \A k \in K : k < b,
         a + 1 \in DOMAIN blocks[b].items, NEW s, VarState(s, K, b, a)
  PROVE  VarState(Read("variable", s, blocks[b].items[a + 1]), K, b, a + 1)
<1>1. PICK i : i = blocks[b].items[a + 1]
  OBVIOUS
<1>2. PICK line : line = [s EXCEPT !.carried = IF i.first THEN LongByDefault ELSE @]
  OBVIOUS
<1>3. PICK t : t = VarItem(s, i)
  OBVIOUS
<1>4. Read("variable", s, i) = t
  BY <1>3 DEF Read
<1>5. AreItems(blocks[b].items)
  BY DEF BlocksOf, AreBlocks
<1>6. CASE s.err # Fine
  <2>1. t = s
    BY <1>3, <1>6 DEF VarItem
  <2> QED
    BY <1>1, <1>4, <1>6, <2>1 DEF VarState
<1>7. PICK c : c = IF i.first THEN LongByDefault ELSE s.carried
  OBVIOUS
<1>a. s = [ptr |-> s.ptr, syms |-> s.syms, carried |-> s.carried, err |-> s.err]
  BY DEF VarState
<1>8. line = [ptr |-> s.ptr, syms |-> s.syms, carried |-> c, err |-> s.err]
  BY <1>2, <1>7, <1>a
<1>b. s.err = Fine => /\ s.ptr \in Nat /\ 4 <= s.ptr
                    /\ VarsIn(s.syms, s.ptr, K, b, a)
                    /\ Carrying(s.carried, b, a)
  BY DEF VarState
<1>9. CASE s.err = Fine /\ i.name = Nameless
  <2>1. t = AlignVar(line, i.align)
    BY <1>2, <1>3, <1>9 DEF VarItem
  <2>2. Carrying(c, b, a + 1)
    <3>1. Carrying(s.carried, b, a)
      BY <1>9, <1>b
    <3>2. i.first => c = LongByDefault
      BY <1>7
    <3>3. ~i.first => c = s.carried
      BY <1>7
    <3>4. PICK d : d = Carried(c, i)
      OBVIOUS
    <3> QED
      BY <1>1, <1>5, <1>9, <3>1, <3>2, <3>3, <3>4, CarriedOn
  <2>3. PICK ptr : ptr = Aligned(s.ptr, i.align)
    OBVIOUS
  <2>4. i.align \in {0, 1, 3}
    BY <1>1, <1>5 DEF AreItems
  <2>5. ptr \in Nat /\ s.ptr <= ptr /\ ptr % (i.align + 1) = 0
    BY <1>9, <1>b, <2>3, <2>4, AlignedIs
  <2>6. CASE ptr > HubOrgLimit
    <3>1. t = [line EXCEPT !.err = "space"]
      BY <1>8, <1>9, <2>1, <2>3, <2>6 DEF AlignVar, Refuse
    <3>2. "space" \in Errors /\ "space" # Fine
      <4>1. "space" \in Errors
        BY DEF Errors
      <4> QED
        BY <4>1, NotFine
    <3>3. t = [ptr |-> s.ptr, syms |-> s.syms, carried |-> c, err |-> "space"]
      BY <1>8, <3>1
    <3>4. t = [ptr |-> t.ptr, syms |-> t.syms, carried |-> t.carried, err |-> t.err] /\ t.err = "space"
      BY <3>3
    <3> QED
      BY <1>1, <1>4, <3>2, <3>4 DEF VarState
  <2>7. CASE ~(ptr > HubOrgLimit)
    <3>1. t = [ptr |-> ptr, syms |-> s.syms, carried |-> c, err |-> s.err]
      BY <1>8, <2>1, <2>3, <2>7 DEF AlignVar
    <3>2. VarsIn(s.syms, ptr, K, b, a)
      <4>1. Extends(s.syms, s.syms)
        BY DEF Extends
      <4> QED
        BY <1>9, <1>b, <2>5, <4>1, VarsKept
    <3>3. VarsIn(s.syms, ptr, K, b, a + 1)
      <4>1. a + 1 \notin Variables(b)
        BY <1>1, <1>9 DEF Variables
      <4> QED
        BY <3>2, <4>1, NoVariable
    <3>a. s.ptr \in Nat /\ 4 <= s.ptr
      BY <1>9, <1>b
    <3>4. ptr \in Nat /\ 4 <= ptr
      BY <2>5, <3>a
    <3>5. t.ptr = ptr /\ t.syms = s.syms /\ t.carried = c /\ t.err = s.err
      BY <3>1
    <3>6. t.ptr % (blocks[b].items[a + 1].align + 1) = 0
      BY <1>1, <2>5, <3>5
    <3> QED
      BY <1>1, <1>4, <1>9, <2>2, <3>1, <3>3, <3>4, <3>5, <3>6 DEF VarState
  <2> QED
    BY <2>6, <2>7
<1>10. CASE s.err = Fine /\ i.name # Nameless
  <2>1. PICK d : d = Carried(c, i)
    OBVIOUS
  <2>2. PICK u : u = [ptr |-> s.ptr, syms |-> s.syms, carried |-> d, err |-> s.err]
    OBVIOUS
  <2>3. t = Recorded(u, i, d)
    <3>1. line = [s EXCEPT !.carried = c] /\ line.carried = c
      BY <1>2, <1>7, <1>8
    <3>2. [line EXCEPT !.carried = Carried(@, i)] = u
      BY <1>8, <2>1, <2>2
    <3> QED
      BY <1>2, <1>3, <1>10, <2>1, <3>1, <3>2 DEF VarItem
  <2>4. Carrying(d, b, a + 1) /\ (i.base = "struct" => d.id = i.id)
    <3>1. Carrying(s.carried, b, a)
      BY <1>10, <1>b
    <3>2. i.first => c = LongByDefault
      BY <1>7
    <3>3. ~i.first => c = s.carried
      BY <1>7
    <3>4. Carrying(d, b, a + 1)
      BY <1>1, <1>5, <1>10, <2>1, <3>1, <3>2, <3>3, CarriedOn
    <3>5. i.base = "struct" => d.id = i.id
      BY <2>1 DEF Carried
    <3> QED
      BY <3>4, <3>5
  <2>5. PICK size : size = Times(i) * d.size
    OBVIOUS
  <2>6. size \in Nat
    BY <1>1, <1>5, <2>4, <2>5, Sizes, Product DEF Carrying
  <2>7. CASE \E why \in Errors : t = [ptr |-> s.ptr, syms |-> s.syms, carried |-> d, err |-> why]
    <3>1. PICK why \in Errors : t = [ptr |-> s.ptr, syms |-> s.syms, carried |-> d, err |-> why]
      BY <2>7
    <3>2. t.ptr = s.ptr /\ t.syms = s.syms /\ t.carried = d /\ t.err = why
      BY <3>1
    <3>3. why # Fine
      BY NotFine
    <3> QED
      BY <1>1, <1>4, <3>1, <3>2, <3>3 DEF VarState
  <2>8. CASE /\ Isnt(i.name, s.syms)
             /\ t = [ptr |-> s.ptr + size, syms |-> With(s.syms, i.name, [type |-> d.type, id |-> d.id, at |-> s.ptr, size |-> size]),
                     carried |-> d, err |-> s.err]
    <3>1. PICK sym : sym = [type |-> d.type, id |-> d.id, at |-> s.ptr, size |-> size]
      OBVIOUS
    <3>2. PICK more : more = With(s.syms, i.name, sym)
      OBVIOUS
    <3>3. Extends(more, s.syms) /\ i.name \in DOMAIN more /\ more[i.name] = sym
      BY <2>8, <3>2, WithExtends DEF Isnt
    <3>a. s.ptr \in Nat /\ 4 <= s.ptr
      BY <1>10, <1>b
    <3>4. s.ptr + size \in Nat /\ s.ptr <= s.ptr + size /\ 4 <= s.ptr + size
      BY <3>a, <2>6
    <3>5. a + 1 > 1 /\ blocks[b].items[a].name = Nameless => s.ptr % (blocks[b].items[a].align + 1) = 0
      <4>1. a + 1 > 1 => a >= 1
        OBVIOUS
      <4> QED
        BY <1>10, <4>1 DEF VarState
    <3>6. (a + 1) - 1 = a
      OBVIOUS
    <3>7. Own(more, s.ptr + size, b, a + 1)
      <4>3. PICK end \in Nat : end = s.ptr + size
        BY <3>4
      <4>1. sym.type = d.type /\ sym.id = d.id /\ sym.at = s.ptr /\ sym.size = size
        BY <3>1
      <4>2. sym.type = Type(Meant(b, a + 1)) /\ sym.size = Times(i) * UnitSize(Meant(b, a + 1))
        BY <2>4, <2>5, <4>1 DEF Carrying
      <4> QED
        <5>1. blocks[b].items[a + 1].name \in DOMAIN more /\ more[blocks[b].items[a + 1].name] = sym
          BY <1>1, <3>3
        <5>2. sym.at + sym.size <= end /\ sym.at \in Nat /\ sym.size \in Nat /\ 4 <= sym.at
          BY <2>6, <3>a, <4>1, <4>3
        <5>3. blocks[b].items[a + 1].base = "struct" => sym.id = blocks[b].items[a + 1].id
          BY <1>1, <2>4, <4>1
        <5>4. a + 1 > 1 /\ blocks[b].items[(a + 1) - 1].name = Nameless => sym.at % (blocks[b].items[(a + 1) - 1].align + 1) = 0
          BY <3>5, <3>6, <4>1
        <5> QED
          BY <1>1, <4>2, <4>3, <5>1, <5>2, <5>3, <5>4 DEF Own
    <3>8. a + 1 \in Variables(b)
      BY <1>1, <1>10 DEF Variables
    <3>9. more[blocks[b].items[a + 1].name].at = s.ptr
      BY <1>1, <3>1, <3>3
    <3>10. VarsIn(more, s.ptr + size, K, b, a + 1)
      BY <1>10, <1>b, <3>a, <3>3, <3>4, <3>7, <3>8, <3>9, OneMore
    <3>11. t = [ptr |-> s.ptr + size, syms |-> more, carried |-> d, err |-> s.err]
      BY <2>8, <3>1, <3>2
    <3>12. blocks[b].items[a + 1].name # Nameless
      BY <1>1, <1>10
    <3>13. t.ptr = s.ptr + size /\ t.syms = more /\ t.carried = d /\ t.err = Fine
      BY <1>10, <3>11
    <3>14. t.ptr \in Nat /\ 4 <= t.ptr /\ VarsIn(t.syms, t.ptr, K, b, a + 1) /\ Carrying(t.carried, b, a + 1)
      BY <2>4, <3>4, <3>10, <3>13
    <3>15. t = [ptr |-> t.ptr, syms |-> t.syms, carried |-> t.carried, err |-> t.err]
      BY <3>11
    <3> QED
      BY <1>1, <1>4, <3>12, <3>13, <3>14, <3>15 DEF VarState
  <2> QED
    <3>1. u.err = Fine /\ u.syms = s.syms /\ u.ptr = s.ptr
      BY <1>10, <2>2
    <3>2. ASSUME NEW why \in Errors, t = Refuse(u, why) PROVE t = [ptr |-> s.ptr, syms |-> s.syms, carried |-> d, err |-> why]
      BY <2>2, <3>1, <3>2 DEF Refuse
    <3>3. {"name", "array", "space"} \subseteq Errors
      BY DEF Errors
    <3>4. \/ t = Refuse(u, "name") \/ t = Refuse(u, "array") \/ t = Refuse(u, "space")
          \/ /\ Isnt(i.name, s.syms)
             /\ t = [u EXCEPT !.ptr = @ + size, !.syms = With(@, i.name, [type |-> d.type, id |-> d.id, at |-> u.ptr, size |-> size])]
      BY <2>3, <2>5, <3>1 DEF Recorded
    <3> QED
      BY <2>2, <2>7, <2>8, <3>1, <3>2, <3>3, <3>4
<1> QED
  BY <1>6, <1>9, <1>10

(* So a whole VAR block does.                                              *)
LEMMA VarBlockRead ==
  ASSUME NEW K, NEW b \in BlocksOf("var"), AreBlocks, \A k \in K : k < b,
         varPtr \in Nat, 4 <= varPtr, VarsIn(mainSymbols, varPtr, K, b, 0)
  PROVE  VarState(CompileVarBlock(blocks[b]), K, b, Len(blocks[b].items))
<1>1. PICK s : s = [ptr |-> varPtr, syms |-> mainSymbols, carried |-> LongByDefault, err |-> Fine]
  OBVIOUS
<1>2. PICK n : n = Len(blocks[b].items)
  OBVIOUS
<1>3. AreItems(blocks[b].items)
  BY DEF BlocksOf, AreBlocks
<1>4. n \in Nat /\ DOMAIN blocks[b].items = 1..n
  BY <1>2, <1>3 DEF AreItems
<1>5. PICK r : Reads("variable", s, blocks[b].items, r) /\ ReadAll("variable", s, blocks[b].items) = r[n]
  BY <1>2, <1>4, ReadAllReads
<1> DEFINE G == {a \in 0..n : VarState(r[a], K, b, a)}
<1>6. 0 \in G
  <2>1. Carrying(LongByDefault, b, 0)
    BY MeantFirst, LongAloneIs DEF Carrying
  <2>2. VarState(s, K, b, 0)
    <3>1. s.ptr = varPtr /\ s.syms = mainSymbols /\ s.carried = LongByDefault /\ s.err = Fine
      BY <1>1
    <3>2. ~(0 >= 1)
      OBVIOUS
    <3> QED
      BY <1>1, <2>1, <3>1, <3>2 DEF VarState
  <2>3. r[0] = s /\ 0 \in 0..n
    BY <1>4, <1>5 DEF Reads
  <2> QED
    BY <2>2, <2>3
<1>7. ASSUME NEW a \in 1..n, a - 1 \in G PROVE a \in G
  <2>1. r[a] = Read("variable", r[a - 1], blocks[b].items[a])
    BY <1>2, <1>5 DEF Reads
  <2>2. PICK c \in Nat : c = a - 1
    BY <1>4
  <2>3. a = c + 1 /\ c + 1 \in DOMAIN blocks[b].items
    BY <1>4, <2>2
  <2>4. VarState(r[c], K, b, c)
    BY <1>7, <2>2
  <2>5. VarState(Read("variable", r[c], blocks[b].items[c + 1]), K, b, c + 1)
    BY <2>3, <2>4, VarRead
  <2>6. VarState(r[a], K, b, a)
    BY <2>1, <2>2, <2>3, <2>5
  <2>7. a \in 0..n
    BY <1>4
  <2> QED
    BY <2>6, <2>7
<1> HIDE DEF G
<1>8. \A a \in 0..n : a \in G
  BY <1>4, <1>6, <1>7, UpTo
<1>9. n \in 0..n
  BY <1>4
<1>10. VarState(r[n], K, b, n)
  BY <1>8, <1>9 DEF G
<1> QED
  BY <1>1, <1>2, <1>5, <1>10 DEF CompileVarBlock

-----------------------------------------------------------------------------
(* The longs of a header: t[k] are those of its first k items.             *)

Sum(list, t, n) ==
  /\ t[0] = 0 /\ t[Len(list)] = n
  /\ \A k \in 0..Len(list) : t[k] \in Nat
  /\ \A k \in 1..Len(list) : t[k] = t[k - 1] + ValueLongs(list[k])
Sums(list, n) == \E t : Sum(list, t, n)

Counting(s, e) == s = [n |-> s.n, err |-> s.err] /\ s.err \in Errors \cup {Fine} /\ (s.err = Fine => e = Fine /\ s.n \in Nat)

(* Counting one more value adds its longs, or is an error.                 *)
LEMMA CountedIs ==
  ASSUME NEW s, NEW e, Counting(s, e), NEW i, NEW limit, ValueLongs(i) \in Nat
  PROVE  /\ Counting(Counted(s, i, limit), e)
         /\ Counted(s, i, limit).err = Fine => s.err = Fine /\ Counted(s, i, limit).n = s.n + ValueLongs(i)
<1>1. PICK t : t = Counted(s, i, limit)
  OBVIOUS
<1>2. s = [n |-> s.n, err |-> s.err]
  BY DEF Counting
<1>3. CASE s.err # Fine
  <2>1. t = s
    BY <1>1, <1>3 DEF Counted
  <2> QED
    BY <1>1, <1>3, <2>1
<1>4. CASE s.err = Fine /\ \E why \in {"name", "limit"} : t = [n |-> s.n, err |-> why]
  <2>1. PICK why \in {"name", "limit"} : t = [n |-> s.n, err |-> why]
    BY <1>4
  <2>a. why \in Errors
    BY DEF Errors
  <2>2. t.n = s.n /\ t.err = why /\ why # Fine /\ why \in Errors
    BY <2>1, <2>a, NotFine
  <2> QED
    BY <1>1, <2>1, <2>2 DEF Counting
<1>5. CASE s.err = Fine /\ t = [n |-> s.n + ValueLongs(i), err |-> Fine]
  <2>1. t.n = s.n + ValueLongs(i) /\ t.err = Fine
    BY <1>5
  <2>2. s.n \in Nat /\ e = Fine
    BY <1>5 DEF Counting
  <2>3. t.n \in Nat
    BY <2>1, <2>2
  <2> QED
    BY <1>1, <1>5, <2>1, <2>2, <2>3 DEF Counting
<1>6. s.err = Fine => \/ t = Refuse(s, "name") \/ t = Refuse(s, "limit")
                    \/ t = [s EXCEPT !.n = @ + ValueLongs(i)]
  BY <1>1 DEF Counted
<1>7. ASSUME s.err = Fine, NEW why PROVE Refuse(s, why) = [n |-> s.n, err |-> why]
  BY <1>2, <1>7 DEF Refuse
<1>8. s.err = Fine => [s EXCEPT !.n = @ + ValueLongs(i)] = [n |-> s.n + ValueLongs(i), err |-> Fine]
  BY <1>2
<1> QED
  BY <1>3, <1>4, <1>5, <1>6, <1>7, <1>8

(* The first pass counts the longs of a list of values, or has an error.   *)
LEMMA Counts ==
  ASSUME NEW list, AreItems(list), NEW as \in {"parameter", "result"},
         NEW e \in Errors \cup {Fine}, NEW q, q = ReadAll(as, [n |-> 0, err |-> e], list)
  PROVE  q.err \in Errors \cup {Fine} /\ (q.err = Fine => e = Fine /\ q.n \in Nat /\ Sums(list, q.n))
<1>1. PICK n : n = Len(list)
  OBVIOUS
<1>2. n \in Nat /\ DOMAIN list = 1..n
  BY <1>1 DEF AreItems
<1>3. PICK s : s = [n |-> 0, err |-> e]
  OBVIOUS
<1>4. PICK r : Reads(as, s, list, r) /\ q = r[n]
  BY <1>1, <1>2, <1>3, ReadAllReads
<1>5. PICK limit : \A x, i : Read(as, x, i) = Counted(x, i, limit)
  BY DEF Read
<1> DEFINE Summed(k) == \A h \in 1..k : r[h].n = r[h - 1].n + ValueLongs(list[h])
           Clear(k) == \A h \in 0..k : r[h].n \in Nat
           G == {k \in 0..n : Counting(r[k], e) /\ (r[k].err = Fine => Summed(k) /\ Clear(k))}
<1>6. 0 \in G
  <2>1. r[0] = s /\ s.n = 0 /\ s.err = e
    BY <1>3, <1>4 DEF Reads
  <2>2. Counting(s, e)
    BY <1>3, <2>1 DEF Counting
  <2>3. Summed(0) /\ Clear(0)
    <3>1. \A h \in 0..0 : h = 0
      OBVIOUS
    <3> QED
      BY <2>1, <3>1
  <2> QED
    BY <1>2, <2>1, <2>2, <2>3
<1>7. ASSUME NEW k \in 1..n, k - 1 \in G PROVE k \in G
  <2>1. r[k] = Counted(r[k - 1], list[k], limit)
    BY <1>1, <1>4, <1>5 DEF Reads
  <2>2. ValueLongs(list[k]) \in Nat
    BY <1>2, Sizes
  <2>3. Counting(r[k - 1], e) /\ (r[k - 1].err = Fine => Summed(k - 1) /\ Clear(k - 1))
    BY <1>7
  <2>4. /\ Counting(r[k], e)
        /\ r[k].err = Fine => r[k - 1].err = Fine /\ r[k].n = r[k - 1].n + ValueLongs(list[k])
    BY <2>1, <2>2, <2>3, CountedIs
  <2>5. ASSUME r[k].err = Fine PROVE Summed(k) /\ Clear(k)
    <3>1. Summed(k - 1) /\ Clear(k - 1) /\ r[k].n \in Nat /\ r[k].n = r[k - 1].n + ValueLongs(list[k])
      BY <2>3, <2>4, <2>5 DEF Counting
    <3>2. \A h \in 1..k : h \in 1..(k - 1) \/ h = k
      BY <1>2
    <3>3. \A h \in 0..k : h \in 0..(k - 1) \/ h = k
      BY <1>2
    <3> QED
      BY <3>1, <3>2, <3>3
  <2>6. k \in 0..n
    BY <1>2
  <2> QED
    BY <2>4, <2>5, <2>6
<1> HIDE DEF G
<1>8. \A k \in 0..n : k \in G
  BY <1>2, <1>6, <1>7, UpTo
<1>9. Counting(r[n], e) /\ (r[n].err = Fine => Summed(n) /\ Clear(n))
  <2>1. n \in 0..n
    BY <1>2
  <2> QED
    BY <1>8, <2>1 DEF G
<1>10. ASSUME q.err = Fine PROVE Sums(list, q.n)
  <2>1. PICK t : t = [k \in 0..n |-> r[k].n]
    OBVIOUS
  <2>2. \A k \in 0..n : t[k] = r[k].n
    BY <2>1
  <2>3. r[0].n = 0
    BY <1>3, <1>4 DEF Reads
  <2>4. 0 \in 0..n /\ n \in 0..n /\ \A k \in 1..n : k \in 0..n /\ k - 1 \in 0..n
    BY <1>2
  <2>5. Sum(list, t, q.n)
    BY <1>1, <1>4, <1>9, <1>10, <2>2, <2>3, <2>4 DEF Sum
  <2> QED
    BY <2>5 DEF Sums
<1> QED
  BY <1>4, <1>9, <1>10 DEF Counting

-----------------------------------------------------------------------------
(* What the first pass knows of a method.                                  *)

LEMMA LocalsScanned ==
  ASSUME NEW list, AreItems(list), NEW e \in Errors \cup {Fine}, NEW q, q = ReadAll("local", [err |-> e], list)
  PROVE  q.err \in Errors \cup {Fine} /\ (q.err = Fine => e = Fine)
<1>1. PICK n : n = Len(list)
  OBVIOUS
<1>2. n \in Nat
  BY <1>1 DEF AreItems
<1>3. PICK s : s = [err |-> e]
  OBVIOUS
<1>4. PICK r : Reads("local", s, list, r) /\ q = r[n]
  BY <1>1, <1>2, <1>3, ReadAllReads
<1> DEFINE fits(x) == x = [err |-> x.err] /\ x.err \in Errors \cup {Fine} /\ (x.err = Fine => e = Fine)
           G == {k \in 0..n : fits(r[k])}
<1>5. 0 \in G
  <2>1. r[0] = s /\ s.err = e
    BY <1>3, <1>4 DEF Reads
  <2> QED
    BY <1>2, <1>3, <2>1
<1>6. ASSUME NEW k \in 1..n, k - 1 \in G PROVE k \in G
  <2>1. r[k] = Scanned(r[k - 1], list[k])
    BY <1>1, <1>4 DEF Reads, Read
  <2>2. PICK x : x = r[k - 1]
    OBVIOUS
  <2>3. x = [err |-> x.err] /\ x.err \in Errors \cup {Fine} /\ (x.err = Fine => e = Fine)
    BY <1>6, <2>2
  <2>4. r[k] = x \/ (x.err = Fine /\ (r[k] = Refuse(x, "name") \/ r[k] = Refuse(x, "array")))
    BY <2>1, <2>2 DEF Scanned
  <2>5. ASSUME NEW why, x.err = Fine PROVE Refuse(x, why) = [err |-> why]
    BY <2>3, <2>5 DEF Refuse
  <2>6. "name" \in Errors /\ "array" \in Errors
    BY DEF Errors
  <2>7. fits(r[k])
    <3>1. CASE r[k] = x
      BY <2>3, <3>1
    <3>2. CASE \E why \in {"name", "array"} : r[k] = [err |-> why]
      <4>1. PICK why \in {"name", "array"} : r[k] = [err |-> why]
        BY <3>2
      <4>2. r[k].err = why /\ why # Fine /\ why \in Errors
        BY <2>6, <4>1, NotFine
      <4> QED
        BY <4>1, <4>2
    <3> QED
      BY <2>4, <2>5, <3>1, <3>2
  <2>8. k \in 0..n
    BY <1>2
  <2> QED
    BY <2>7, <2>8
<1> HIDE DEF G
<1>7. \A k \in 0..n : k \in G
  BY <1>2, <1>5, <1>6, UpTo
<1>8. n \in 0..n
  BY <1>2
<1> QED
  BY <1>4, <1>7, <1>8 DEF G

Subs == BlocksOf("pub") \cup BlocksOf("pri")

(* What it makes of a header whose method it accepts.                      *)
LEMMA HeaderRead ==
  ASSUME AreBlocks, NEW b \in Subs, NEW h, h = SubId(blocks[b])
  PROVE  /\ h.err \in Errors \cup {Fine}
         /\ h.err = Fine => /\ blocks[b].name \notin DOMAIN mainSymbols
                          /\ h.params \in Nat /\ Sums(blocks[b].params, h.params)
                          /\ h.results \in Nat /\ Sums(blocks[b].results, h.results)
<1>1. b \in DOMAIN blocks /\ blocks[b].kind \in {"pub", "pri"}
  BY DEF Subs, BlocksOf
<1>2. AreItems(blocks[b].params) /\ AreItems(blocks[b].results) /\ AreItems(blocks[b].locals)
  BY <1>1 DEF AreBlocks
<1>3. PICK e : e = IF Isnt(blocks[b].name, mainSymbols) THEN Fine ELSE "name"
  OBVIOUS
<1>a. "name" \in Errors
  BY DEF Errors
<1>4. e \in Errors \cup {Fine} /\ (e = Fine => blocks[b].name \notin DOMAIN mainSymbols)
  BY <1>3, <1>a, NotFine DEF Isnt
<1>5. PICK p : p = ReadAll("parameter", [n |-> 0, err |-> e], blocks[b].params)
  OBVIOUS
<1>6. p.err \in Errors \cup {Fine} /\ (p.err = Fine => e = Fine /\ p.n \in Nat /\ Sums(blocks[b].params, p.n))
  BY <1>2, <1>4, <1>5, Counts
<1>7. PICK r : r = ReadAll("result", [n |-> 0, err |-> p.err], blocks[b].results)
  OBVIOUS
<1>8. r.err \in Errors \cup {Fine} /\ (r.err = Fine => p.err = Fine /\ r.n \in Nat /\ Sums(blocks[b].results, r.n))
  BY <1>2, <1>6, <1>7, Counts
<1>9. PICK l : l = ReadAll("local", [err |-> r.err], blocks[b].locals)
  OBVIOUS
<1>10. l.err \in Errors \cup {Fine} /\ (l.err = Fine => r.err = Fine)
  BY <1>2, <1>8, <1>9, LocalsScanned
<1>11. h = [params |-> p.n, results |-> r.n, err |-> IF l.err = Fine /\ Len(methods) > SubsLimit THEN "methods" ELSE l.err]
  BY <1>3, <1>5, <1>7, <1>9 DEF SubId
<1>12. h.params = p.n /\ h.results = r.n /\ (h.err = "methods" \/ h.err = l.err)
  BY <1>11
<1>b. "methods" \in Errors
  BY DEF Errors
<1>13. "methods" \in Errors /\ "methods" # Fine
  BY <1>b, NotFine
<1>14. h.err = Fine => l.err = Fine
  BY <1>12, <1>13
<1> QED
  BY <1>4, <1>6, <1>8, <1>10, <1>12, <1>13, <1>14

-----------------------------------------------------------------------------
(* The second pass gives the values of a header their places.              *)

Frame(f, base) ==
  /\ f = [at |-> f.at, syms |-> f.syms, err |-> f.err]
  /\ f.err \in Errors \cup {Fine}
  /\ f.err = Fine => base.err = Fine /\ f.at \in Nat /\ Extends(f.syms, base.syms)
Lie(syms, list, a, from, t) ==
  \A j \in 1..a : list[j].name \in DOMAIN syms /\ syms[list[j].name].at = from + (4 * t[j - 1])

\* the three ways a place is refused or given
LEMMA FrameKept ==
  ASSUME NEW f, NEW base, Frame(f, base), NEW g,
         \/ f.err # Fine /\ g = f
         \/ f.err = Fine /\ g \in {Refuse(f, "name"), Refuse(f, "locals")}
         \/ \E name, sym : \E at \in Nat : f.err = Fine /\ name \notin DOMAIN f.syms /\ g = [at |-> at, syms |-> With(f.syms, name, sym), err |-> Fine]
  PROVE  Frame(g, base) /\ (g.err = Fine => f.err = Fine /\ Extends(g.syms, f.syms))
<1>1. f = [at |-> f.at, syms |-> f.syms, err |-> f.err]
  BY DEF Frame
<1>2. CASE f.err # Fine /\ g = f
  BY <1>2
<1>3. CASE f.err = Fine /\ g \in {Refuse(f, "name"), Refuse(f, "locals")}
  <2>1. PICK why \in {"name", "locals"} : g = Refuse(f, why)
    BY <1>3
  <2>2. why \in Errors
    BY DEF Errors
  <2>3. g = [at |-> f.at, syms |-> f.syms, err |-> why]
    BY <1>1, <1>3, <2>1 DEF Refuse
  <2>4. g = [at |-> g.at, syms |-> g.syms, err |-> g.err] /\ g.err = why /\ why # Fine
    BY <2>2, <2>3, NotFine
  <2> QED
    BY <2>2, <2>4 DEF Frame
<1>4. CASE \E name, sym : \E at \in Nat : f.err = Fine /\ name \notin DOMAIN f.syms /\ g = [at |-> at, syms |-> With(f.syms, name, sym), err |-> Fine]
  <2>a. PICK name, sym : \E at \in Nat : f.err = Fine /\ name \notin DOMAIN f.syms /\ g = [at |-> at, syms |-> With(f.syms, name, sym), err |-> Fine]
    BY <1>4
  <2>1. PICK at \in Nat : f.err = Fine /\ name \notin DOMAIN f.syms /\ g = [at |-> at, syms |-> With(f.syms, name, sym), err |-> Fine]
    BY <2>a
  <2>3. g = [at |-> g.at, syms |-> g.syms, err |-> g.err] /\ g.at = at /\ g.syms = With(f.syms, name, sym) /\ g.err = Fine
    BY <2>1
  <2>4. Extends(g.syms, f.syms)
    BY <2>1, <2>3, WithExtends
  <2>5. Extends(f.syms, base.syms) /\ base.err = Fine
    BY <2>1 DEF Frame
  <2>6. Extends(g.syms, base.syms)
    BY <2>4, <2>5, ExtendsFurther
  <2> QED
    BY <2>1, <2>3, <2>4, <2>5, <2>6 DEF Frame
<1> QED
  BY <1>2, <1>3, <1>4

(* The second pass places a list of values one behind the other, over as   *)
(* many longs as the first one counted.                                    *)
LEMMA ValuesPlaced ==
  ASSUME NEW list, AreItems(list), NEW t, NEW n, Sum(list, t, n),
         NEW base, Frame(base, base), NEW q, q = ReadAll("value_place", base, list)
  PROVE  /\ Frame(q, base)
         /\ q.err = Fine => Lie(q.syms, list, Len(list), base.at, t) /\ q.at = base.at + (4 * n)
<1>1. PICK m : m = Len(list)
  OBVIOUS
<1>2. m \in Nat /\ DOMAIN list = 1..m
  BY <1>1 DEF AreItems
<1>3. PICK r : Reads("value_place", base, list, r) /\ q = r[m]
  BY <1>1, <1>2, ReadAllReads
<1> DEFINE Good(f, a) == Frame(f, base) /\ (f.err = Fine => Lie(f.syms, list, a, base.at, t) /\ f.at = base.at + (4 * t[a]))
           G == {a \in 0..m : Good(r[a], a)}
<1>4. 0 \in G
  <2>1. r[0] = base
    BY <1>3 DEF Reads
  <2>2. \A j \in 1..0 : FALSE
    OBVIOUS
  <2>3. t[0] = 0
    BY DEF Sum
  <2>4. base.err = Fine => base.at \in Nat
    BY DEF Frame
  <2>5. base.err = Fine => base.at = base.at + (4 * 0)
    BY <2>4
  <2>6. Good(base, 0)
    BY <2>2, <2>3, <2>5 DEF Lie
  <2>7. 0 \in 0..m
    BY <1>2
  <2> QED
    BY <2>1, <2>6, <2>7
<1>5. ASSUME NEW a \in 1..m, a - 1 \in G PROVE a \in G
  <2>1. PICK f : f = r[a - 1]
    OBVIOUS
  <2>2. PICK g : g = r[a]
    OBVIOUS
  <2>3. PICK i : i = list[a]
    OBVIOUS
  <2>4. g = Placed(f, i)
    BY <1>1, <1>3, <2>1, <2>2, <2>3 DEF Reads, Read
  <2>5. Good(f, a - 1)
    BY <1>5, <2>1
  <2>6. ValueLongs(i) \in Nat
    BY <1>2, <2>3, Sizes
  <2>7. PICK sym : sym = [type |-> Type(i), id |-> Id(i), at |-> f.at]
    OBVIOUS
  <2>8. \/ f.err # Fine /\ g = f
        \/ f.err = Fine /\ g = Refuse(f, "name")
        \/ f.err = Fine /\ i.name \notin DOMAIN f.syms /\ g = [f EXCEPT !.at = @ + (4 * ValueLongs(i)), !.syms = With(@, i.name, sym)]
    BY <2>4, <2>7 DEF Placed, Isnt
  <2>9. f.err = Fine => f.at \in Nat
    BY <2>5 DEF Frame
  <2>10. f.err = Fine => f.at + (4 * ValueLongs(i)) \in Nat
    BY <2>6, <2>9
  <2>11. f = [at |-> f.at, syms |-> f.syms, err |-> f.err]
    BY <2>5 DEF Frame
  <2>12. Frame(g, base) /\ (g.err = Fine => f.err = Fine /\ Extends(g.syms, f.syms))
    <3>1. CASE f.err # Fine /\ g = f
      BY <2>5, <3>1, FrameKept
    <3>2. CASE f.err = Fine /\ g = Refuse(f, "name")
      <4>1. g \in {Refuse(f, "name"), Refuse(f, "locals")}
        BY <3>2
      <4> QED
        BY <2>5, <3>2, <4>1, FrameKept
    <3>3. CASE f.err = Fine /\ i.name \notin DOMAIN f.syms /\ g = [f EXCEPT !.at = @ + (4 * ValueLongs(i)), !.syms = With(@, i.name, sym)]
      <4>1. PICK at \in Nat : at = f.at + (4 * ValueLongs(i))
        BY <2>10, <3>3
      <4>2. g = [at |-> at, syms |-> With(f.syms, i.name, sym), err |-> Fine]
        BY <2>11, <3>3, <4>1
      <4>3. \E name, s : \E x \in Nat : f.err = Fine /\ name \notin DOMAIN f.syms /\ g = [at |-> x, syms |-> With(f.syms, name, s), err |-> Fine]
        BY <3>3, <4>2, Zenon
      <4> QED
        BY <2>5, <4>3, FrameKept
    <3> QED
      BY <2>8, <3>1, <3>2, <3>3
  <2>13. ASSUME g.err = Fine PROVE Lie(g.syms, list, a, base.at, t) /\ g.at = base.at + (4 * t[a])
    <3>1. f.err = Fine /\ Extends(g.syms, f.syms)
      BY <2>12, <2>13
    <3>2. g # Refuse(f, "name")
      <4>1. "name" \in Errors
        BY DEF Errors
      <4>2. [at |-> f.at, syms |-> f.syms, err |-> "name"].err # Fine
        BY <4>1, NotFine
      <4>3. Refuse(f, "name") = [at |-> f.at, syms |-> f.syms, err |-> "name"]
        BY <2>11, <3>1 DEF Refuse
      <4> QED
        BY <2>13, <4>2, <4>3
    <3>3. i.name \notin DOMAIN f.syms /\ g = [at |-> f.at + (4 * ValueLongs(i)), syms |-> With(f.syms, i.name, sym), err |-> f.err]
      BY <2>8, <2>11, <3>1, <3>2
    <3>4. g.at = f.at + (4 * ValueLongs(i)) /\ g.syms = With(f.syms, i.name, sym)
      BY <3>3
    <3>5. i.name \in DOMAIN g.syms /\ g.syms[i.name] = sym
      BY <3>3, <3>4, WithExtends
    <3>6. sym.at = f.at
      BY <2>7
    <3>7. Lie(f.syms, list, a - 1, base.at, t) /\ f.at = base.at + (4 * t[a - 1])
      BY <2>5, <3>1
    <3>8. t[a] = t[a - 1] + ValueLongs(i) /\ t[a - 1] \in Nat
      <4>1. a - 1 \in 0..m
        BY <1>2
      <4> QED
        BY <1>1, <2>3, <4>1 DEF Sum
    <3>9. base.at \in Nat
      BY <2>5, <3>1 DEF Frame
    <3>10. g.at = base.at + (4 * t[a])
      BY <2>6, <3>4, <3>7, <3>8, <3>9
    <3>11. \A j \in 1..a : j \in 1..(a - 1) \/ j = a
      BY <1>2
    <3>12. ASSUME NEW j \in 1..a PROVE list[j].name \in DOMAIN g.syms /\ g.syms[list[j].name].at = base.at + (4 * t[j - 1])
      <4>1. CASE j = a
        BY <2>3, <3>5, <3>6, <3>7, <4>1
      <4>2. CASE j \in 1..(a - 1)
        BY <3>1, <3>7, <4>2 DEF Lie, Extends
      <4> QED
        BY <3>11, <4>1, <4>2
    <3> QED
      BY <3>10, <3>12 DEF Lie
  <2>14. a \in 0..m
    BY <1>2
  <2> QED
    BY <2>2, <2>12, <2>13, <2>14
<1> HIDE DEF G
<1>6. \A a \in 0..m : a \in G
  BY <1>2, <1>4, <1>5, UpTo
<1>7. Good(r[m], m)
  <2>1. m \in 0..m
    BY <1>2
  <2> QED
    BY <1>6, <2>1 DEF G
<1>8. t[m] = n
  BY <1>1 DEF Sum
<1> QED
  BY <1>1, <1>3, <1>7, <1>8

(* And the locals theirs, behind the values.                               *)

End(syms, list, j) == syms[list[j].name].at + (Times(list[j]) * UnitSize(list[j]))
Lodged(syms, list, a, from, to) ==
  /\ from <= to
  /\ \A j \in 1..a : /\ list[j].name \in DOMAIN syms /\ syms[list[j].name].at \in Nat
                     /\ syms[list[j].name].at % (list[j].align + 1) = 0
                     /\ from <= syms[list[j].name].at /\ End(syms, list, j) <= to
  /\ \A j, h \in 1..a : j < h => End(syms, list, j) <= syms[list[h].name].at

(* One more local lies behind the others, aligned.                         *)
LEMMA OneMoreLocal ==
  ASSUME NEW list, AreItems(list), NEW syms, NEW a \in 1..Len(list), NEW from \in Nat, NEW to \in Nat,
         Lodged(syms, list, a - 1, from, to), NEW more, Extends(more, syms),
         NEW at \in Nat, at = Aligned(to, list[a].align),
         list[a].name \in DOMAIN more, more[list[a].name].at = at
  PROVE  /\ at + (Times(list[a]) * UnitSize(list[a])) \in Nat
         /\ Lodged(more, list, a, from, at + (Times(list[a]) * UnitSize(list[a])))
<1>1. PICK size \in Nat : size = Times(list[a]) * UnitSize(list[a])
  BY Sizes DEF AreItems
<1>2. PICK end \in Nat : end = at + size
  OBVIOUS
<1>3. Len(list) \in Nat /\ a \in Nat
  BY DEF AreItems
<1>4. list[a].align \in {0, 1, 3}
  BY DEF AreItems
<1>5. to <= at /\ at % (list[a].align + 1) = 0
  BY <1>4, AlignedIs
<1>6. from <= at /\ from <= end /\ at <= end /\ to <= end
  BY <1>2, <1>5 DEF Lodged
<1>7. \A j \in 1..a : j \in 1..(a - 1) \/ j = a
  BY <1>3
<1>8. End(more, list, a) = end
  BY <1>1, <1>2 DEF End
<1>9. ASSUME NEW j \in 1..(a - 1)
      PROVE  /\ list[j].name \in DOMAIN more /\ more[list[j].name] = syms[list[j].name]
             /\ End(more, list, j) = End(syms, list, j) /\ End(more, list, j) \in Nat
  <2>1. list[j].name \in DOMAIN syms /\ syms[list[j].name].at \in Nat
    BY DEF Lodged
  <2>2. list[j].name \in DOMAIN more /\ more[list[j].name] = syms[list[j].name]
    BY <2>1 DEF Extends
  <2>3. j \in 1..Len(list)
    BY <1>3
  <2>4. PICK length \in Nat : length = Times(list[j]) * UnitSize(list[j])
    BY <2>3, Sizes DEF AreItems
  <2>5. End(syms, list, j) = syms[list[j].name].at + length
    BY <2>4 DEF End
  <2>6. End(syms, list, j) \in Nat
    BY <2>1, <2>4, <2>5
  <2> QED
    BY <2>2, <2>6 DEF End
<1>10. ASSUME NEW j \in 1..a
       PROVE  /\ list[j].name \in DOMAIN more /\ more[list[j].name].at \in Nat
              /\ more[list[j].name].at % (list[j].align + 1) = 0
              /\ from <= more[list[j].name].at /\ End(more, list, j) <= end
  <2>1. CASE j = a
    <3>1. end <= end
      OBVIOUS
    <3> QED
      BY <1>5, <1>6, <1>8, <2>1, <3>1
  <2>2. CASE j \in 1..(a - 1)
    <3>1. End(syms, list, j) <= to
      BY <2>2 DEF Lodged
    <3>2. End(more, list, j) <= end
      BY <1>6, <1>9, <2>2, <3>1
    <3> QED
      BY <1>9, <2>2, <3>2 DEF Lodged
  <2> QED
    BY <1>7, <2>1, <2>2
<1>11. ASSUME NEW j \in 1..a, NEW h \in 1..a, j < h PROVE End(more, list, j) <= more[list[h].name].at
  <2>1. j \in 1..(a - 1)
    BY <1>3, <1>11
  <2>2. CASE h = a
    <3>1. End(syms, list, j) <= to
      BY <2>1 DEF Lodged
    <3>2. End(more, list, j) <= at
      BY <1>5, <1>9, <2>1, <3>1
    <3> QED
      BY <2>2, <3>2
  <2>3. CASE h \in 1..(a - 1)
    <3>1. End(syms, list, j) <= syms[list[h].name].at
      BY <1>11, <2>1, <2>3 DEF Lodged
    <3> QED
      BY <1>9, <2>1, <2>3, <3>1
  <2> QED
    BY <1>7, <2>2, <2>3
<1>12. Lodged(more, list, a, from, end)
  BY <1>6, <1>10, <1>11 DEF Lodged
<1> QED
  BY <1>1, <1>2, <1>12

(* So all of them do.                                                      *)
LEMMA LocalsPlaced ==
  ASSUME NEW list, AreItems(list), NEW base, Frame(base, base), NEW q, q = ReadAll("local_place", base, list)
  PROVE  /\ Frame(q, base)
         /\ q.err = Fine => Lodged(q.syms, list, Len(list), base.at, q.at)
<1>1. PICK m : m = Len(list)
  OBVIOUS
<1>2. m \in Nat /\ DOMAIN list = 1..m
  BY <1>1 DEF AreItems
<1>3. PICK r : Reads("local_place", base, list, r) /\ q = r[m]
  BY <1>1, <1>2, ReadAllReads
<1> DEFINE Good(f, a) == Frame(f, base) /\ (f.err = Fine => Lodged(f.syms, list, a, base.at, f.at))
           G == {a \in 0..m : Good(r[a], a)}
<1>4. 0 \in G
  <2>1. r[0] = base
    BY <1>3 DEF Reads
  <2>2. \A j \in 1..0 : FALSE
    OBVIOUS
  <2>3. base.err = Fine => base.at \in Nat
    BY DEF Frame
  <2>4. base.err = Fine => base.at <= base.at
    BY <2>3
  <2>5. Good(base, 0)
    BY <2>2, <2>4 DEF Lodged
  <2>6. 0 \in 0..m
    BY <1>2
  <2> QED
    BY <2>1, <2>5, <2>6
<1>5. ASSUME NEW a \in 1..m, a - 1 \in G PROVE a \in G
  <2>1. PICK f : f = r[a - 1]
    OBVIOUS
  <2>2. PICK g : g = r[a]
    OBVIOUS
  <2>3. PICK i : i = list[a]
    OBVIOUS
  <2>4. g = PlacedLocal(f, i)
    BY <1>1, <1>3, <2>1, <2>2, <2>3 DEF Reads, Read
  <2>5. Good(f, a - 1)
    BY <1>5, <2>1
  <2>6. PICK at : at = Aligned(f.at, i.align)
    OBVIOUS
  <2>7. PICK end : end = at + (Times(i) * UnitSize(i))
    OBVIOUS
  <2>8. PICK sym : sym = [type |-> Type(i), id |-> Id(i), at |-> at]
    OBVIOUS
  <2>9. \/ f.err # Fine /\ g = f
        \/ f.err = Fine /\ (g = Refuse(f, "name") \/ g = Refuse(f, "locals"))
        \/ f.err = Fine /\ i.name \notin DOMAIN f.syms /\ g = [f EXCEPT !.at = end, !.syms = With(@, i.name, sym)]
    BY <2>4, <2>6, <2>7, <2>8 DEF PlacedLocal, Isnt
  <2>10. f = [at |-> f.at, syms |-> f.syms, err |-> f.err]
    BY <2>5 DEF Frame
  <2>11. f.err = Fine => f.at \in Nat /\ base.err = Fine
    BY <2>5 DEF Frame
  <2>12. base.err = Fine => base.at \in Nat
    BY <2>5 DEF Frame
  <2>13. a \in 0..m
    BY <1>2
  <2>14. CASE f.err # Fine /\ g = f
    <3>1. Frame(g, base)
      BY <2>5, <2>14
    <3> QED
      BY <2>2, <2>13, <2>14, <3>1
  <2>15. CASE f.err = Fine /\ (g = Refuse(f, "name") \/ g = Refuse(f, "locals"))
    <3>1. g \in {Refuse(f, "name"), Refuse(f, "locals")}
      BY <2>15
    <3>2. Frame(g, base)
      BY <2>5, <2>15, <3>1, FrameKept
    <3>3. PICK why \in {"name", "locals"} : g = Refuse(f, why)
      BY <2>15
    <3>4. why \in Errors
      BY DEF Errors
    <3>5. g = [at |-> f.at, syms |-> f.syms, err |-> why]
      BY <2>10, <2>15, <3>3 DEF Refuse
    <3>6. g.err # Fine
      BY <3>4, <3>5, NotFine
    <3> QED
      BY <2>2, <2>13, <3>2, <3>6
  <2>16. CASE f.err = Fine /\ i.name \notin DOMAIN f.syms /\ g = [f EXCEPT !.at = end, !.syms = With(@, i.name, sym)]
    <3>1. g = [at |-> end, syms |-> With(f.syms, i.name, sym), err |-> Fine]
      BY <2>10, <2>16
    <3>2. g.at = end /\ g.syms = With(f.syms, i.name, sym)
      BY <3>1
    <3>3. Extends(g.syms, f.syms) /\ i.name \in DOMAIN g.syms /\ g.syms[i.name] = sym
      BY <2>16, <3>2, WithExtends
    <3>4. f.at \in Nat /\ base.at \in Nat
      BY <2>11, <2>12, <2>16
    <3>5. i.align \in {0, 1, 3}
      BY <1>2, <2>3 DEF AreItems
    <3>6. at \in Nat
      BY <2>6, <3>4, <3>5, AlignedIs
    <3>7. Lodged(f.syms, list, a - 1, base.at, f.at)
      BY <2>5, <2>16
    <3>8. g.syms[list[a].name].at = at /\ list[a].name \in DOMAIN g.syms
      BY <2>3, <2>8, <3>3
    <3>9. a \in 1..Len(list) /\ at = Aligned(f.at, list[a].align)
      BY <1>1, <2>3, <2>6
    <3>10. end \in Nat /\ Lodged(g.syms, list, a, base.at, end)
      BY <2>3, <2>7, <3>3, <3>4, <3>6, <3>7, <3>8, <3>9, OneMoreLocal
    <3>11. \E name, s : \E x \in Nat : f.err = Fine /\ name \notin DOMAIN f.syms /\ g = [at |-> x, syms |-> With(f.syms, name, s), err |-> Fine]
      BY <2>16, <3>1, <3>10, Zenon
    <3>12. Frame(g, base)
      BY <2>5, <3>11, FrameKept
    <3> QED
      BY <2>2, <2>13, <3>2, <3>10, <3>12
  <2> QED
    BY <2>9, <2>14, <2>15, <2>16
<1> HIDE DEF G
<1>6. \A a \in 0..m : a \in G
  BY <1>2, <1>4, <1>5, UpTo
<1>7. Good(r[m], m)
  <2>1. m \in 0..m
    BY <1>2
  <2> QED
    BY <1>6, <2>1 DEF G
<1> QED
  BY <1>1, <1>3, <1>7

-----------------------------------------------------------------------------
(* A frame as a whole.                                                     *)

LEMMA LiesStill ==
  ASSUME NEW syms, NEW more, Extends(more, syms), NEW list, NEW a, NEW from, NEW t, Lie(syms, list, a, from, t)
  PROVE  Lie(more, list, a, from, t)
  BY DEF Lie, Extends

(* Values that lie one behind the other from one byte on fill the longs    *)
(* they have.                                                              *)
LEMMA PackedIs ==
  ASSUME NEW list, AreItems(list), NEW t, NEW n, Sum(list, t, n), NEW syms, NEW from \in Nat,
         Lie(syms, list, Len(list), from, t)
  PROVE  Packed(syms, list, from, from + (4 * n))
<1>1. PICK m \in Nat : m = Len(list)
  BY DEF AreItems
<1>2. DOMAIN list = 1..m
  BY <1>1 DEF AreItems
<1>3. t[0] = 0 /\ t[m] = n /\ \A k \in 0..m : t[k] \in Nat
  BY <1>1 DEF Sum
<1>4. \A j \in 1..m : syms[list[j].name].at = from + (4 * t[j - 1])
  BY <1>1 DEF Lie
<1>5. ASSUME NEW j \in 1..m PROVE syms[list[j].name].at + (4 * ValueLongs(list[j])) = from + (4 * t[j])
  <2>1. t[j] = t[j - 1] + ValueLongs(list[j])
    BY <1>1 DEF Sum
  <2>2. j - 1 \in 0..m
    OBVIOUS
  <2>3. t[j - 1] \in Nat
    BY <1>3, <2>2
  <2>4. ValueLongs(list[j]) \in Nat
    BY <1>2, Sizes
  <2> QED
    BY <1>4, <2>1, <2>3, <2>4
<1>6. m = 0 => from = from + (4 * n)
  BY <1>3
<1>7. ASSUME m > 0
      PROVE  /\ syms[list[1].name].at = from
             /\ syms[list[m].name].at + (4 * ValueLongs(list[m])) = from + (4 * n)
  <2>1. 1 \in 1..m /\ m \in 1..m /\ 1 - 1 = 0
    BY <1>7
  <2>2. syms[list[1].name].at = from + (4 * t[0])
    BY <1>4, <2>1
  <2> QED
    BY <1>3, <1>5, <2>1, <2>2
<1>8. ASSUME NEW j \in 1..(m - 1)
      PROVE  syms[list[j + 1].name].at = syms[list[j].name].at + (4 * ValueLongs(list[j]))
  <2>1. j \in 1..m /\ j + 1 \in 1..m /\ (j + 1) - 1 = j
    OBVIOUS
  <2>2. syms[list[j + 1].name].at = from + (4 * t[(j + 1) - 1])
    BY <1>4, <2>1
  <2> QED
    BY <1>5, <2>1, <2>2
<1> QED
  BY <1>1, <1>6, <1>7, <1>8 DEF Packed

(* The frame of a method agrees with what the first pass counted.          *)
LEMMA FrameBuilt ==
  ASSUME AreBlocks, NEW b \in Subs, NEW P \in Nat, NEW R \in Nat,
         Sums(blocks[b].params, P), Sums(blocks[b].results, R), NEW f, f = SubFrame(blocks[b])
  PROVE  /\ f.err \in Errors \cup {Fine}
         /\ f.err = Fine => /\ Packed(f.syms, blocks[b].params, 0, 4 * P)
                           /\ Packed(f.syms, blocks[b].results, 4 * P, 4 * (P + R))
                           /\ Between(f.syms, blocks[b].locals, 4 * (P + R), (4 * (P + R)) + (4 * f.longs))
<1>1. b \in DOMAIN blocks /\ blocks[b].kind \in {"pub", "pri"}
  BY DEF Subs, BlocksOf
<1>2. AreItems(blocks[b].params) /\ AreItems(blocks[b].results) /\ AreItems(blocks[b].locals)
  BY <1>1 DEF AreBlocks
<1>3. PICK start : start = [at |-> 0, syms |-> NoSymbols, err |-> Fine]
  OBVIOUS
<1>4. PICK p : p = ReadAll("value_place", start, blocks[b].params)
  OBVIOUS
<1>5. PICK r : r = ReadAll("value_place", p, blocks[b].results)
  OBVIOUS
<1>6. PICK l : l = ReadAll("local_place", r, blocks[b].locals)
  OBVIOUS
<1>7. f = [err |-> l.err, syms |-> l.syms, longs |-> Longs(l.at - r.at)]
  BY <1>3, <1>4, <1>5, <1>6 DEF SubFrame
<1>8. f.err = l.err /\ f.syms = l.syms /\ f.longs = Longs(l.at - r.at)
  BY <1>7
<1>9. PICK tp : Sum(blocks[b].params, tp, P)
  BY DEF Sums
<1>10. PICK tr : Sum(blocks[b].results, tr, R)
  BY DEF Sums
<1>11. Frame(start, start)
  <2>1. start.at = 0 /\ start.syms = NoSymbols /\ start.err = Fine
    BY <1>3
  <2>2. Extends(start.syms, start.syms)
    BY DEF Extends
  <2> QED
    BY <1>3, <2>1, <2>2 DEF Frame
<1>12. /\ Frame(p, start)
       /\ p.err = Fine => Lie(p.syms, blocks[b].params, Len(blocks[b].params), start.at, tp) /\ p.at = start.at + (4 * P)
  BY <1>2, <1>4, <1>9, <1>11, ValuesPlaced
<1>13. ASSUME NEW x, NEW y, Frame(x, y) PROVE Frame(x, x)
  BY <1>13 DEF Frame, Extends
<1>14. Frame(p, p)
  BY <1>12, <1>13
<1>15. /\ Frame(r, p)
       /\ r.err = Fine => Lie(r.syms, blocks[b].results, Len(blocks[b].results), p.at, tr) /\ r.at = p.at + (4 * R)
  BY <1>2, <1>5, <1>10, <1>14, ValuesPlaced
<1>16. Frame(r, r)
  BY <1>13, <1>15
<1>17. /\ Frame(l, r)
       /\ l.err = Fine => Lodged(l.syms, blocks[b].locals, Len(blocks[b].locals), r.at, l.at)
  BY <1>2, <1>6, <1>16, LocalsPlaced
<1>18. f.err \in Errors \cup {Fine}
  BY <1>8, <1>17 DEF Frame
<1>19. ASSUME l.err = Fine
       PROVE  /\ Packed(l.syms, blocks[b].params, 0, 4 * P)
              /\ Packed(l.syms, blocks[b].results, 4 * P, 4 * (P + R))
              /\ Between(l.syms, blocks[b].locals, 4 * (P + R), (4 * (P + R)) + (4 * f.longs))
  <2>1. r.err = Fine /\ Extends(l.syms, r.syms) /\ l.at \in Nat
    BY <1>17, <1>19 DEF Frame
  <2>2. p.err = Fine /\ Extends(r.syms, p.syms) /\ r.at \in Nat
    BY <1>15, <2>1 DEF Frame
  <2>3. start.at = 0 /\ p.at = 4 * P /\ r.at = 4 * (P + R)
    <3>1. start.at = 0
      BY <1>3
    <3>2. p.at = 0 + (4 * P) /\ r.at = p.at + (4 * R)
      BY <1>12, <1>15, <2>1, <2>2, <3>1
    <3> QED
      BY <3>1, <3>2
  <2>4. Extends(l.syms, p.syms)
    BY <2>1, <2>2, ExtendsFurther
  <2>5. Lie(l.syms, blocks[b].params, Len(blocks[b].params), 0, tp)
    BY <1>12, <2>2, <2>3, <2>4, LiesStill
  <2>6. Lie(l.syms, blocks[b].results, Len(blocks[b].results), 4 * P, tr)
    BY <1>15, <2>1, <2>3, LiesStill
  <2>7. Packed(l.syms, blocks[b].params, 0, 0 + (4 * P))
    BY <1>2, <1>9, <2>5, PackedIs
  <2>8. Packed(l.syms, blocks[b].results, 4 * P, (4 * P) + (4 * R))
    <3>1. 4 * P \in Nat
      OBVIOUS
    <3> QED
      BY <1>2, <1>10, <2>6, <3>1, PackedIs
  <2>9. 0 + (4 * P) = 4 * P /\ (4 * P) + (4 * R) = 4 * (P + R)
    OBVIOUS
  <2>10. PICK V \in Nat : V = 4 * (P + R)
    OBVIOUS
  <2>11. PICK T \in Nat : T = V + (4 * f.longs) /\ l.at <= T
    <3>1. V <= l.at
      BY <1>17, <1>19, <2>3, <2>10 DEF Lodged
    <3>2. PICK d \in Nat : d = l.at - r.at
      BY <2>1, <2>3, <2>10, <3>1
    <3>3. f.longs = (d + 3) \div 4
      BY <1>8, <3>2 DEF Longs
    <3>4. (d + 3) \div 4 \in Nat /\ d <= 4 * ((d + 3) \div 4)
      OBVIOUS
    <3>5. l.at = V + d
      BY <2>1, <2>3, <2>10, <3>2
    <3> QED
      BY <3>3, <3>4, <3>5
  <2>12. Between(l.syms, blocks[b].locals, V, T)
    <3>1. PICK list : list = blocks[b].locals
      OBVIOUS
    <3>2. PICK m \in Nat : m = Len(list) /\ DOMAIN list = 1..m
      BY <1>2, <3>1 DEF AreItems
    <3>3. Lodged(l.syms, list, m, V, l.at)
      BY <1>17, <1>19, <2>3, <2>10, <3>1, <3>2
    <3>4. ASSUME NEW j \in DOMAIN list
          PROVE  /\ l.syms[list[j].name].at % (list[j].align + 1) = 0
                 /\ V <= l.syms[list[j].name].at
                 /\ l.syms[list[j].name].at + (Times(list[j]) * UnitSize(list[j])) <= T
                 /\ \A h \in (j + 1)..Len(list) :
                      l.syms[list[j].name].at + (Times(list[j]) * UnitSize(list[j])) <= l.syms[list[h].name].at
      <4>1. j \in 1..m
        BY <3>2
      <4>2. PICK at \in Nat : at = l.syms[list[j].name].at
        BY <3>3, <4>1 DEF Lodged
      <4>3. PICK size \in Nat : size = Times(list[j]) * UnitSize(list[j])
        BY <1>2, <3>1, Sizes
      <4>4. End(l.syms, list, j) = at + size
        BY <4>2, <4>3 DEF End
      <4>5. at + size <= l.at
        BY <3>3, <4>1, <4>4 DEF Lodged
      <4>6. at + size <= T
        BY <2>1, <2>11, <4>5
      <4>7. ASSUME NEW h \in (j + 1)..Len(list) PROVE at + size <= l.syms[list[h].name].at
        <5>1. h \in 1..m /\ j < h
          BY <3>2, <4>1
        <5> QED
          BY <3>3, <4>1, <4>4, <5>1 DEF Lodged
      <4> QED
        BY <3>3, <4>1, <4>2, <4>3, <4>6, <4>7 DEF Lodged
    <3> QED
      BY <3>1, <3>4 DEF Between
  <2> QED
    BY <2>7, <2>8, <2>9, <2>10, <2>11, <2>12
<1> QED
  BY <1>8, <1>18, <1>19

-----------------------------------------------------------------------------
(* The table of the methods, as far as those in S have entries: n of them, *)
(* first the PUB methods, then the PRI methods, each in source order.      *)

Earlier(k, l) ==
  \/ blocks[k].kind = "pub" /\ blocks[l].kind = "pri"
  \/ blocks[k].kind = blocks[l].kind /\ k < l
EntryOf(syms, k) == Entry(syms[blocks[k].name])
Describes(e, k) ==
  /\ e.of = blocks[k].name /\ (e.public <=> blocks[k].kind = "pub")
  /\ e.params \in Nat /\ e.results \in Nat
  /\ Sums(blocks[k].params, e.params) /\ Sums(blocks[k].results, e.results)
IsTable(S, n, syms, tbl) ==
  /\ \A k \in S : /\ blocks[k].name \in DOMAIN syms /\ EntryOf(syms, k) \in 1..n
                  /\ Describes(tbl[EntryOf(syms, k)], k)
  /\ \A k, l \in S : Earlier(k, l) => EntryOf(syms, k) < EntryOf(syms, l)
  /\ \A i \in 1..n : \E k \in S : EntryOf(syms, k) = i
\* entries are not changed but for where their code is
IsEntry(e) == e = [of |-> e.of, public |-> e.public, params |-> e.params, results |-> e.results, code |-> e.code]
IsMethods(tbl) == (\E E : tbl \in Seq(E)) /\ \A i \in 1..Len(tbl) : IsEntry(tbl[i])
SameHead(d, e) == d.of = e.of /\ d.public = e.public /\ d.params = e.params /\ d.results = e.results

\* the frames of the methods in C, in the order of the table
Compiled(C, syms, tbl, off, fr) ==
  /\ \A n \in 1..Len(fr) : /\ fr[n].block \in C /\ EntryOf(syms, fr[n].block) = n /\ tbl[n].code = fr[n].code
                           /\ fr[n].end = IF n = Len(fr) THEN off ELSE fr[n + 1].code
  /\ \A k \in C : EntryOf(syms, k) \in 1..Len(fr)

FrameRight(syms, tbl, f) ==
  /\ f.block \in Subs
  /\ LET b == blocks[f.block]
         e == tbl[EntryOf(syms, f.block)]
     IN  /\ Packed(f.syms, b.params, 0, 4 * e.params)
         /\ Packed(f.syms, b.results, 4 * e.params, 4 * (e.params + e.results))
         /\ Between(f.syms, b.locals, 4 * (e.params + e.results), (4 * (e.params + e.results)) + (4 * f.longs))

(* The phases.                                                             *)

Visiting == {"var", "pubs", "pris", "dat", "pub_code", "pri_code"}
Phases == Visiting \cup {"idle", "done"}
KindIn(at) ==
  CASE at = "var" -> "var" [] at \in {"pubs", "pub_code"} -> "pub" [] at \in {"pris", "pri_code"} -> "pri" [] OTHER -> "dat"
InPhase(at, todo) ==
  /\ at \in Phases \cup Errors
  /\ at \notin Visiting => todo = {}
  /\ todo \in SUBSET BlocksOf(KindIn(at))
  /\ \A k \in BlocksOf(KindIn(at)) \ todo : \A m \in todo : k < m
  /\ PasmMode(blocks) => at \in {"idle", "dat", "done"} \cup Errors
VarSeen(at, todo) == IF at = "idle" THEN {} ELSE IF at = "var" THEN BlocksOf("var") \ todo ELSE BlocksOf("var")
VarsRight(at, todo, syms, ptr) ==
  /\ at = "idle" => ptr = 4
  /\ at \notin Errors => ptr \in Nat /\ 4 <= ptr /\ VarsIn(syms, ptr, VarSeen(at, todo), 0, 0)
  /\ at \notin Errors \cup {"idle", "var"} => ptr % 4 = 0
TableRight(at, todo, syms, tbl, off) ==
  /\ IsMethods(tbl)
  /\ at \in {"idle", "var"} => tbl = <<>>
  /\ at = "var" => off = 4 * SubStart
  /\ at = "pubs" => off = 4 * (SubStart + Len(tbl)) /\ IsTable(BlocksOf("pub") \ todo, Len(tbl), syms, tbl)
  /\ at = "pris" => /\ off = 4 * (SubStart + Len(tbl)) /\ BlocksOf("pub") # {}
                    /\ IsTable(BlocksOf("pub") \cup (BlocksOf("pri") \ todo), Len(tbl), syms, tbl)
  /\ at \in {"dat", "pub_code", "pri_code", "done"} /\ ~PasmMode(blocks) =>
       BlocksOf("pub") # {} /\ Len(tbl) >= 1 /\ IsTable(Subs, Len(tbl) - 1, syms, tbl)
CodeRight(at, todo, syms, tbl, off, fr) ==
  /\ \E F : fr \in Seq(F)
  /\ at \in {"idle", "var", "pubs", "pris", "dat"} \/ PasmMode(blocks) => fr = <<>>
  /\ at = "pub_code" => Compiled(BlocksOf("pub") \ todo, syms, tbl, off, fr)
  /\ at = "pri_code" => Compiled(BlocksOf("pub") \cup (BlocksOf("pri") \ todo), syms, tbl, off, fr)
  /\ at = "done" /\ ~PasmMode(blocks) => Compiled(Subs, syms, tbl, off, fr) /\ tbl[Len(tbl)].code = off
FramesRight(syms, tbl, fr) == \A n \in 1..Len(fr) : FrameRight(syms, tbl, fr[n])

Right(at, todo, syms, ptr, tbl, off, fr) ==
  /\ InPhase(at, todo) /\ VarsRight(at, todo, syms, ptr) /\ TableRight(at, todo, syms, tbl, off)
  /\ CodeRight(at, todo, syms, tbl, off, fr) /\ FramesRight(syms, tbl, fr)
Now(at, todo, syms, ptr, tbl, off, fr) ==
  /\ pass = [at |-> at, todo |-> todo] /\ mainSymbols = syms /\ varPtr = ptr
  /\ methods = tbl /\ offset = off /\ frames = fr
MemoryInv ==
  AreBlocks /\ \E at, todo, syms, ptr, tbl, off, fr : Now(at, todo, syms, ptr, tbl, off, fr) /\ Right(at, todo, syms, ptr, tbl, off, fr)

(* No error is a phase.                                                    *)
LEMMA ErrorsApart == ASSUME NEW why \in Errors PROVE why \notin Phases
  BY Zenon DEF Errors, Phases, Visiting

-----------------------------------------------------------------------------
(* The blocks stay, and what is said of them with them.                    *)

(* What is said of a variable stays true while the blocks stay.            *)
LEMMA OwnStays ==
  ASSUME blocks' = blocks, NEW CONSTANT syms, NEW CONSTANT ptr, NEW CONSTANT k, NEW CONSTANT j, Own(syms, ptr, k, j)
  PROVE  Own(syms, ptr, k, j)'
  BY DEF Own, Meant, Typing, Type, Base, BaseSize, Times, UnitSize

(* What is said of the variables stays true of the same values while the   *)
(* blocks stay.                                                            *)
LEMMA VarsStay ==
  ASSUME blocks' = blocks, NEW CONSTANT syms, NEW CONSTANT ptr, NEW CONSTANT K, VarsIn(syms, ptr, K, 0, 0)
  PROVE  VarsIn(syms, ptr, K, 0, 0)'
<1>1. ASSUME NEW CONSTANT k, NEW CONSTANT j, In(K, 0, 0, k, j)' PROVE In(K, 0, 0, k, j)
  BY <1>1 DEF In, BlocksOf, Variables
<1>2. ASSUME NEW CONSTANT k, NEW CONSTANT j, In(K, 0, 0, k, j)' PROVE Own(syms, ptr, k, j)'
  <2>1. Own(syms, ptr, k, j)
    BY <1>1, <1>2 DEF VarsIn
  <2> QED
    BY <2>1, OwnStays
<1>3. ASSUME NEW CONSTANT k, NEW CONSTANT j, NEW CONSTANT l, NEW CONSTANT h, In(K, 0, 0, k, j)', In(K, 0, 0, l, h)'
      PROVE  Behind(syms, k, j, l, h)'
  <2>1. Behind(syms, k, j, l, h)
    BY <1>1, <1>3 DEF VarsIn
  <2> QED
    BY <2>1 DEF Behind
<1> QED
  BY <1>2, <1>3 DEF VarsIn

(* What is in front of the methods stays.                                  *)
LEMMA FirstEntryStays ==
  ASSUME blocks' = blocks
  PROVE  SubStart' = SubStart
  BY DEF SubStart

(* What is said of the table stays true of the same values while the       *)
(* blocks stay.                                                            *)
LEMMA TableStays ==
  ASSUME blocks' = blocks, NEW CONSTANT S, NEW CONSTANT n, NEW CONSTANT syms, NEW CONSTANT tbl, IsTable(S, n, syms, tbl)
  PROVE  IsTable(S, n, syms, tbl)'
<1>1. ASSUME NEW CONSTANT k PROVE EntryOf(syms, k)' = EntryOf(syms, k)
  BY FirstEntryStays DEF EntryOf, Entry
<1>2. ASSUME NEW CONSTANT e, NEW CONSTANT k, Describes(e, k) PROVE Describes(e, k)'
  BY <1>2 DEF Describes
<1>3. ASSUME NEW CONSTANT k, NEW CONSTANT l, Earlier(k, l)' PROVE Earlier(k, l)
  BY <1>3 DEF Earlier
<1>4. ASSUME NEW CONSTANT k, k \in S
      PROVE  (blocks[k].name \in DOMAIN syms /\ EntryOf(syms, k) \in 1..n /\ Describes(tbl[EntryOf(syms, k)], k))'
  <2>1. PICK i : i = EntryOf(syms, k)
    OBVIOUS
  <2>2. blocks[k].name \in DOMAIN syms /\ i \in 1..n /\ Describes(tbl[i], k)
    BY <1>4, <2>1 DEF IsTable
  <2>3. PICK e : e = tbl[i]
    OBVIOUS
  <2>4. Describes(e, k)'
    BY <1>2, <2>2, <2>3
  <2> QED
    BY <1>1, <2>1, <2>2, <2>3, <2>4 DEF Describes
<1> QED
  BY <1>1, <1>3, <1>4 DEF IsTable

(* What is said of the code stays true of the same values while the blocks *)
(* stay.                                                                   *)
LEMMA CompiledStays ==
  ASSUME blocks' = blocks, NEW CONSTANT C, NEW CONSTANT syms, NEW CONSTANT tbl, NEW CONSTANT off, NEW CONSTANT fr,
         Compiled(C, syms, tbl, off, fr)
  PROVE  Compiled(C, syms, tbl, off, fr)'
<1>1. ASSUME NEW CONSTANT k PROVE EntryOf(syms, k)' = EntryOf(syms, k)
  BY FirstEntryStays DEF EntryOf, Entry
<1> QED
  BY <1>1 DEF Compiled

(* What is said of the frames stays true of the same values while the      *)
(* blocks stay.                                                            *)
LEMMA FramesStay ==
  ASSUME blocks' = blocks, NEW CONSTANT syms, NEW CONSTANT tbl, NEW CONSTANT fr, FramesRight(syms, tbl, fr)
  PROVE  FramesRight(syms, tbl, fr)'
<1>1. ASSUME NEW CONSTANT f, FrameRight(syms, tbl, f) PROVE FrameRight(syms, tbl, f)'
  <2>1. EntryOf(syms, f.block)' = EntryOf(syms, f.block)
    BY FirstEntryStays DEF EntryOf, Entry
  <2>2. Subs' = Subs
    BY DEF Subs, BlocksOf
  <2> QED
    BY <1>1, <2>1, <2>2 DEF FrameRight
<1> QED
  BY <1>1 DEF FramesRight

(* All of the invariant stays true of the same values.                     *)
LEMMA RightStays ==
  ASSUME blocks' = blocks, NEW CONSTANT at, NEW CONSTANT todo, NEW CONSTANT syms, NEW CONSTANT ptr,
         NEW CONSTANT tbl, NEW CONSTANT off, NEW CONSTANT fr, Right(at, todo, syms, ptr, tbl, off, fr)
  PROVE  Right(at, todo, syms, ptr, tbl, off, fr)'
<1>1. ASSUME NEW CONSTANT kind PROVE BlocksOf(kind)' = BlocksOf(kind)
  BY DEF BlocksOf
<1>2. Subs' = Subs
  BY <1>1 DEF Subs
<1>3. InPhase(at, todo)'
  <2>1. KindIn(at)' = KindIn(at)
    BY DEF KindIn
  <2>2. InPhase(at, todo)
    BY DEF Right
  <2>3. BlocksOf(KindIn(at))' = BlocksOf(KindIn(at))
    BY <2>1 DEF BlocksOf
  <2> QED
    BY <2>2, <2>3 DEF InPhase, Phases, Visiting, Errors
<1>4. VarsRight(at, todo, syms, ptr)'
  <2>1. PICK K : K = VarSeen(at, todo)
    OBVIOUS
  <2>2. VarSeen(at, todo)' = K
    BY <1>1, <2>1 DEF VarSeen
  <2>3. VarsRight(at, todo, syms, ptr)
    BY DEF Right
  <2>4. VarsIn(syms, ptr, K, 0, 0) => VarsIn(syms, ptr, K, 0, 0)'
    BY VarsStay
  <2> QED
    BY <2>1, <2>2, <2>3, <2>4 DEF VarsRight
<1>5. TableRight(at, todo, syms, tbl, off)'
  <2>1. PICK A : A = BlocksOf("pub") \ todo
    OBVIOUS
  <2>2. PICK B : B = BlocksOf("pub") \cup (BlocksOf("pri") \ todo)
    OBVIOUS
  <2>3. PICK S : S = Subs
    OBVIOUS
  <2>4. A = (BlocksOf("pub") \ todo)' /\ B = (BlocksOf("pub") \cup (BlocksOf("pri") \ todo))' /\ S = Subs'
    BY <1>1, <1>2, <2>1, <2>2, <2>3
  <2>5. TableRight(at, todo, syms, tbl, off)
    BY DEF Right
  <2>6. IsMethods(tbl)'
    BY <2>5 DEF TableRight, IsMethods
  <2>7. /\ at \in {"idle", "var"} => tbl = <<>>
        /\ at = "var" => off = 4 * SubStart'
    BY <2>5, FirstEntryStays DEF TableRight
  <2>8. at = "pubs" => off = 4 * (SubStart' + Len(tbl)) /\ IsTable(A, Len(tbl), syms, tbl)'
    BY <2>1, <2>5, FirstEntryStays, TableStays DEF TableRight
  <2>9. at = "pris" => off = 4 * (SubStart' + Len(tbl)) /\ BlocksOf("pub")' # {} /\ IsTable(B, Len(tbl), syms, tbl)'
    BY <1>1, <2>2, <2>5, FirstEntryStays, TableStays DEF TableRight
  <2>10. at \in {"dat", "pub_code", "pri_code", "done"} /\ ~PasmMode(blocks)' =>
           BlocksOf("pub")' # {} /\ Len(tbl) >= 1 /\ IsTable(S, Len(tbl) - 1, syms, tbl)'
    <3>1. PasmMode(blocks)' = PasmMode(blocks)
      BY DEF PasmMode
    <3>2. PICK n : n = Len(tbl) - 1
      OBVIOUS
    <3>3. IsTable(S, n, syms, tbl) => IsTable(S, n, syms, tbl)'
      BY TableStays
    <3> QED
      BY <1>1, <2>3, <2>5, <3>1, <3>2, <3>3 DEF TableRight
  <2> QED
    BY <2>4, <2>6, <2>7, <2>8, <2>9, <2>10 DEF TableRight
<1>6. CodeRight(at, todo, syms, tbl, off, fr)'
  <2>1. PICK A : A = BlocksOf("pub") \ todo
    OBVIOUS
  <2>2. PICK B : B = BlocksOf("pub") \cup (BlocksOf("pri") \ todo)
    OBVIOUS
  <2>3. PICK S : S = Subs
    OBVIOUS
  <2>4. A = (BlocksOf("pub") \ todo)' /\ B = (BlocksOf("pub") \cup (BlocksOf("pri") \ todo))' /\ S = Subs'
    BY <1>1, <1>2, <2>1, <2>2, <2>3
  <2>5. CodeRight(at, todo, syms, tbl, off, fr)
    BY DEF Right
  <2>6. PasmMode(blocks)' = PasmMode(blocks)
    BY DEF PasmMode
  <2>7. at = "pub_code" => Compiled(A, syms, tbl, off, fr)'
    BY <2>1, <2>5, CompiledStays DEF CodeRight
  <2>8. at = "pri_code" => Compiled(B, syms, tbl, off, fr)'
    BY <2>2, <2>5, CompiledStays DEF CodeRight
  <2>9. at = "done" /\ ~PasmMode(blocks)' => Compiled(S, syms, tbl, off, fr)' /\ tbl[Len(tbl)].code = off
    BY <2>3, <2>5, <2>6, CompiledStays DEF CodeRight
  <2>10. (\E F : fr \in Seq(F)) /\ (at \in {"idle", "var", "pubs", "pris", "dat"} \/ PasmMode(blocks)' => fr = <<>>)
    BY <2>5, <2>6 DEF CodeRight
  <2> QED
    BY <2>4, <2>7, <2>8, <2>9, <2>10 DEF CodeRight
<1>7. FramesRight(syms, tbl, fr)'
  BY FramesStay DEF Right
<1> QED
  BY <1>3, <1>4, <1>5, <1>6, <1>7 DEF Right

(* A step keeps the invariant if what it makes of the variables is right.  *)
LEMMA InvReached ==
  ASSUME AreBlocks, blocks' = blocks, NEW CONSTANT at, NEW CONSTANT todo, NEW CONSTANT syms, NEW CONSTANT ptr,
         NEW CONSTANT tbl, NEW CONSTANT off, NEW CONSTANT fr,
         Now(at, todo, syms, ptr, tbl, off, fr)', Right(at, todo, syms, ptr, tbl, off, fr)
  PROVE  MemoryInv'
<1>1. Right(at, todo, syms, ptr, tbl, off, fr)'
  BY RightStays
<1>2. AreBlocks'
  BY DEF AreBlocks, AreItems
<1> QED
  BY <1>1, <1>2 DEF MemoryInv

-----------------------------------------------------------------------------
(* Rows of the table and frames come in one by one.                        *)

LEMMA Appended ==
  ASSUME NEW E, NEW s \in Seq(E), NEW x, NEW t, t = Append(s, x)
  PROVE  /\ \E F : t \in Seq(F)
         /\ Len(s) \in Nat /\ Len(t) = Len(s) + 1 /\ t[Len(s) + 1] = x
         /\ \A i \in 1..Len(s) : t[i] = s[i]
<1>1. s \in Seq(E \cup {x}) /\ x \in E \cup {x}
  BY SMT
<1>2. t \in Seq(E \cup {x})
  BY <1>1
<1>3. Len(s) \in Nat
  OBVIOUS
<1>4. Len(t) = Len(s) + 1 /\ t[Len(s) + 1] = x /\ \A i \in 1..Len(s) : t[i] = s[i]
  BY <1>1
<1> QED
  BY <1>2, <1>3, <1>4

CodeAt(tbl, i, x) == [tbl EXCEPT ![i].code = x]

(* Filling in where the code of a method is leaves the rest of its row,    *)
(* and all other rows, as they were.                                       *)
LEMMA CodeSet ==
  ASSUME NEW tbl, IsMethods(tbl), NEW i \in 1..Len(tbl), NEW x, NEW t, t = CodeAt(tbl, i, x)
  PROVE  /\ IsMethods(t) /\ Len(t) = Len(tbl) /\ t[i].code = x
         /\ \A j \in 1..Len(tbl) : SameHead(t[j], tbl[j]) /\ (j # i => t[j].code = tbl[j].code)
<1>1. PICK E : tbl \in Seq(E)
  BY DEF IsMethods
<1>2. Len(tbl) \in Nat /\ DOMAIN tbl = 1..Len(tbl) /\ tbl[i] \in E
  BY <1>1
<1>3. PICK e : e = tbl[i]
  OBVIOUS
<1>4. e = [of |-> e.of, public |-> e.public, params |-> e.params, results |-> e.results, code |-> e.code]
  BY <1>3 DEF IsMethods, IsEntry
<1>5. PICK d : d = [e EXCEPT !.code = x]
  OBVIOUS
<1>6. d = [of |-> e.of, public |-> e.public, params |-> e.params, results |-> e.results, code |-> x]
  BY <1>4, <1>5
<1>7. t = [tbl EXCEPT ![i] = d]
  BY <1>3, <1>5 DEF CodeAt
<1>8. t \in Seq(E \cup {d}) /\ Len(t) = Len(tbl)
  <2>1. tbl \in Seq(E \cup {d}) /\ d \in E \cup {d}
    BY <1>1, SMT
  <2>2. DOMAIN t = 1..Len(tbl)
    BY <1>2, <1>7
  <2>3. \A j \in 1..Len(tbl) : t[j] \in E \cup {d}
    <3>1. \A j \in 1..Len(tbl) : tbl[j] \in E \cup {d}
      BY <2>1
    <3> QED
      BY <1>2, <1>7, <3>1
  <2>4. t \in [1..Len(tbl) -> E \cup {d}]
    BY <1>2, <1>7, <2>3
  <2> QED
    BY <1>2, <2>4
<1>9. t[i] = d /\ \A j \in 1..Len(tbl) : j # i => t[j] = tbl[j]
  BY <1>2, <1>7
<1>10. d.of = e.of /\ d.public = e.public /\ d.params = e.params /\ d.results = e.results /\ d.code = x
  BY <1>6
<1>11. IsEntry(d)
  BY <1>6, <1>10 DEF IsEntry
<1>12. \A j \in 1..Len(tbl) : IsEntry(t[j])
  BY <1>9, <1>11 DEF IsMethods
<1>13. \A j \in 1..Len(tbl) : SameHead(t[j], tbl[j]) /\ (j # i => t[j].code = tbl[j].code)
  BY <1>3, <1>9, <1>10 DEF SameHead
<1> QED
  BY <1>8, <1>9, <1>10, <1>12, <1>13 DEF IsMethods

(* A row is added behind the others.                                       *)
LEMMA RowAdded ==
  ASSUME NEW tbl, IsMethods(tbl), NEW row, IsEntry(row), NEW t, t = Append(tbl, row)
  PROVE  /\ IsMethods(t) /\ Len(tbl) \in Nat /\ Len(t) = Len(tbl) + 1 /\ t[Len(tbl) + 1] = row
         /\ \A j \in 1..Len(tbl) : t[j] = tbl[j]
<1>1. PICK E : tbl \in Seq(E)
  BY DEF IsMethods
<1>2. /\ \E F : t \in Seq(F)
      /\ Len(tbl) \in Nat /\ Len(t) = Len(tbl) + 1 /\ t[Len(tbl) + 1] = row
      /\ \A i \in 1..Len(tbl) : t[i] = tbl[i]
  <2>1. t = Append(tbl, row)
    OBVIOUS
  <2>2. \E F : t \in Seq(F)
    BY <1>1, <2>1, Appended
  <2>3. Len(tbl) \in Nat /\ Len(t) = Len(tbl) + 1 /\ t[Len(tbl) + 1] = row
    BY <1>1, <2>1, Appended
  <2>4. \A i \in 1..Len(tbl) : t[i] = tbl[i]
    BY <1>1, <2>1, Appended
  <2> QED
    BY <2>2, <2>3, <2>4
<1>4. ASSUME NEW j \in 1..Len(t) PROVE IsEntry(t[j])
  <2>1. j \in 1..Len(tbl) \/ j = Len(tbl) + 1
    BY <1>2
  <2> QED
    BY <1>2, <2>1 DEF IsMethods
<1> QED
  BY <1>2, <1>4 DEF IsMethods

(* New symbols, and code that is filled in, leave the table the table of   *)
(* its methods.                                                            *)
LEMMA TableKept ==
  ASSUME NEW S, NEW n \in Nat, NEW syms, NEW tbl, IsTable(S, n, syms, tbl), NEW more, Extends(more, syms),
         NEW t, \A i \in 1..n : SameHead(t[i], tbl[i])
  PROVE  IsTable(S, n, more, t) /\ \A k \in S : EntryOf(more, k) = EntryOf(syms, k)
<1>1. ASSUME NEW k \in S PROVE blocks[k].name \in DOMAIN more /\ EntryOf(more, k) = EntryOf(syms, k)
  BY DEF Extends, EntryOf, IsTable
<1>2. ASSUME NEW k \in S PROVE EntryOf(more, k) \in 1..n /\ Describes(t[EntryOf(more, k)], k)
  <2>1. PICK i : i = EntryOf(syms, k)
    OBVIOUS
  <2>2. i \in 1..n /\ Describes(tbl[i], k)
    BY <2>1 DEF IsTable
  <2>3. SameHead(t[i], tbl[i])
    BY <2>2
  <2>4. Describes(t[i], k)
    BY <2>2, <2>3 DEF Describes, SameHead
  <2> QED
    BY <1>1, <2>1, <2>2, <2>4
<1> QED
  BY <1>1, <1>2 DEF IsTable

(* The next method in the order of the source gets the next entry.         *)
LEMMA TableGrows ==
  ASSUME AreBlocks, NEW S, S \in SUBSET Subs, NEW n \in Nat, NEW syms, NEW tbl, IsTable(S, n, syms, tbl),
         NEW b \in Subs, \A k \in S : Earlier(k, b),
         NEW sym, sym.at = SubStart + n, NEW more, Extends(more, syms), blocks[b].name \in DOMAIN more, more[blocks[b].name] = sym,
         NEW t, \A i \in 1..n : t[i] = tbl[i], Describes(t[n + 1], b)
  PROVE  IsTable(S \cup {b}, n + 1, more, t)
<1>1. IsTable(S, n, more, t)
  <2>1. \A i \in 1..n : SameHead(t[i], tbl[i])
    BY DEF SameHead
  <2> QED
    BY <2>1, TableKept
<1>2. EntryOf(more, b) = n + 1
  <2>1. SubStart \in Nat
    BY Instances
  <2>2. (SubStart + n) - SubStart + 1 = n + 1
    BY <2>1
  <2> QED
    BY <2>2 DEF EntryOf, Entry
<1>3. ASSUME NEW k \in S \cup {b}
      PROVE  /\ blocks[k].name \in DOMAIN more /\ EntryOf(more, k) \in 1..(n + 1)
             /\ Describes(t[EntryOf(more, k)], k)
  <2>1. CASE k \in S
    <3>1. EntryOf(more, k) \in 1..n
      BY <1>1, <2>1 DEF IsTable
    <3>2. EntryOf(more, k) \in 1..(n + 1)
      BY <3>1
    <3> QED
      BY <1>1, <2>1, <3>2 DEF IsTable
  <2>2. CASE k = b
    BY <1>2, <2>2
  <2> QED
    BY <2>1, <2>2
<1>4. ASSUME NEW k \in S \cup {b}, NEW l \in S \cup {b}, Earlier(k, l) PROVE EntryOf(more, k) < EntryOf(more, l)
  <2>1. CASE k \in S /\ l \in S
    BY <1>1, <1>4, <2>1 DEF IsTable
  <2>2. CASE k \in S /\ l = b
    <3>1. EntryOf(more, k) \in 1..n
      BY <1>1, <2>2 DEF IsTable
    <3>2. EntryOf(more, k) < n + 1
      BY <3>1
    <3> QED
      BY <1>2, <2>2, <3>2
  <2>3. CASE k = b
    <3>1. k \in Int /\ l \in Int
      BY DEF Subs, BlocksOf, AreBlocks
    <3>2. l = b \/ Earlier(l, b)
      BY DEF Subs
    <3>3. ~(k < l /\ l < k) /\ (k = l => ~(k < l))
      BY <3>1
    <3> QED
      BY <1>4, <2>3, <3>2, <3>3 DEF Earlier
  <2> QED
    BY <2>1, <2>2, <2>3
<1>5. ASSUME NEW i \in 1..(n + 1) PROVE \E k \in S \cup {b} : EntryOf(more, k) = i
  <2>1. i \in 1..n \/ i = n + 1
    OBVIOUS
  <2> QED
    BY <1>1, <1>2, <2>1 DEF IsTable
<1> QED
  BY <1>3, <1>4, <1>5 DEF IsTable

\* an order of the methods, and so two of them have two entries
LEMMA Ordered ==
  ASSUME AreBlocks, NEW k \in Subs, NEW l \in Subs
  PROVE  k = l \/ Earlier(k, l) \/ Earlier(l, k)
<1>1. k \in Int /\ l \in Int /\ blocks[k].kind \in {"pub", "pri"} /\ blocks[l].kind \in {"pub", "pri"}
  BY DEF Subs, BlocksOf, AreBlocks
<1>2. k = l \/ k < l \/ l < k
  BY <1>1
<1> QED
  BY <1>1, <1>2 DEF Earlier

(* No two methods have one entry.                                          *)
LEMMA EntriesApart ==
  ASSUME AreBlocks, NEW S \in SUBSET Subs, NEW n \in Nat, NEW syms, NEW tbl, IsTable(S, n, syms, tbl),
         NEW k \in S, NEW l \in S, EntryOf(syms, k) = EntryOf(syms, l)
  PROVE  k = l
<1>1. PICK i : i = EntryOf(syms, k)
  OBVIOUS
<1>2. i \in 1..n
  BY <1>1 DEF IsTable
<1>3. ~(i < i)
  BY <1>2
<1>4. ~Earlier(k, l) /\ ~Earlier(l, k)
  BY <1>1, <1>3 DEF IsTable
<1> QED
  BY <1>4, Ordered

\* the method that is compiled next has the next entry
LEMMA NextEntry ==
  ASSUME AreBlocks, NEW n \in Nat, NEW syms, NEW tbl, IsTable(Subs, n, syms, tbl),
         NEW C \in SUBSET Subs, NEW off, NEW fr, Len(fr) \in Nat, Compiled(C, syms, tbl, off, fr),
         NEW b \in Subs \ C, \A k \in Subs \ C : k = b \/ Earlier(b, k)
  PROVE  EntryOf(syms, b) = Len(fr) + 1 /\ Len(fr) + 1 \in 1..n
<1>1. PICK m \in Nat : m = Len(fr)
  OBVIOUS
<1>2. PICK i : i = EntryOf(syms, b)
  OBVIOUS
<1>3. i \in 1..n
  BY <1>2 DEF IsTable
<1>4. ASSUME i \in 1..m PROVE FALSE
  <2>1. fr[i].block \in C /\ EntryOf(syms, fr[i].block) = i
    BY <1>1, <1>4 DEF Compiled
  <2>2. fr[i].block = b
    BY <1>2, <2>1, EntriesApart
  <2> QED
    BY <2>1, <2>2
<1>5. i >= m + 1
  BY <1>3, <1>4
<1>6. m + 1 \in 1..n
  BY <1>3, <1>5
<1>7. PICK k \in Subs : EntryOf(syms, k) = m + 1
  BY <1>6 DEF IsTable
<1>8. k \notin C
  <2>1. ~(m + 1 \in 1..m)
    OBVIOUS
  <2> QED
    BY <1>1, <1>7, <2>1 DEF Compiled
<1>9. k = b \/ Earlier(b, k)
  BY <1>8
<1>10. CASE k = b
  BY <1>1, <1>6, <1>7, <1>10
<1>11. CASE Earlier(b, k)
  <2>1. i < m + 1
    BY <1>2, <1>7, <1>11 DEF IsTable
  <2> QED
    BY <1>3, <1>5, <2>1
<1> QED
  BY <1>9, <1>10, <1>11

\* when all are compiled, the last of them has the last entry
LEMMA LastEntry ==
  ASSUME AreBlocks, NEW n \in Nat, NEW syms, NEW tbl, IsTable(Subs, n, syms, tbl), n >= 1,
         NEW b \in Subs, \A k \in Subs : k = b \/ Earlier(k, b)
  PROVE  EntryOf(syms, b) = n
<1>1. n \in 1..n
  OBVIOUS
<1>2. PICK k \in Subs : EntryOf(syms, k) = n
  BY <1>1 DEF IsTable
<1>3. PICK i : i = EntryOf(syms, b)
  OBVIOUS
<1>4. i \in 1..n
  BY <1>3 DEF IsTable
<1>5. CASE k = b
  BY <1>2, <1>5
<1>6. CASE Earlier(k, b)
  <2>1. n < i
    BY <1>2, <1>3, <1>6 DEF IsTable
  <2> QED
    BY <1>4, <2>1
<1> QED
  BY <1>5, <1>6

(* When all are compiled, there are as many frames as entries.             *)
LEMMA AllCompiled ==
  ASSUME AreBlocks, NEW n \in Nat, NEW syms, NEW tbl, IsTable(Subs, n, syms, tbl),
         NEW off, NEW fr, Len(fr) \in Nat, Compiled(Subs, syms, tbl, off, fr)
  PROVE  Len(fr) = n
<1>1. PICK m \in Nat : m = Len(fr)
  OBVIOUS
<1>2. ASSUME m < n PROVE FALSE
  <2>1. m + 1 \in 1..n /\ ~(m + 1 \in 1..m)
    BY <1>2
  <2>2. PICK k \in Subs : EntryOf(syms, k) = m + 1
    BY <2>1 DEF IsTable
  <2> QED
    BY <1>1, <2>1, <2>2 DEF Compiled
<1>3. ASSUME m > n PROVE FALSE
  <2>1. m \in 1..m /\ ~(m \in 1..n)
    BY <1>3
  <2>2. fr[m].block \in Subs /\ EntryOf(syms, fr[m].block) = m
    BY <1>1, <2>1 DEF Compiled
  <2> QED
    BY <2>1, <2>2 DEF IsTable
<1> QED
  BY <1>1, <1>2, <1>3

-----------------------------------------------------------------------------
(* Phases.                                                                 *)

LEMMA BlockNumbers == ASSUME AreBlocks, NEW kind PROVE BlocksOf(kind) \in SUBSET Nat /\ \A k \in BlocksOf(kind) : k >= 1
  BY DEF AreBlocks, BlocksOf

(* A phase begins with all of its blocks to visit.                         *)
LEMMA PhaseStarts ==
  ASSUME NEW at \in Visiting, PasmMode(blocks) => at = "dat", NEW todo, todo = BlocksOf(KindIn(at))
  PROVE  InPhase(at, todo)
<1>1. BlocksOf(KindIn(at)) \ todo = {}
  OBVIOUS
<1> QED
  BY <1>1 DEF InPhase, Phases

(* It visits the first of them, and has the others to visit then.          *)
LEMMA PhaseGoesOn ==
  ASSUME AreBlocks, NEW at \in Visiting, NEW todo, InPhase(at, todo), todo # {}, NEW b, b = Min(todo), NEW rest, rest = todo \ {b}
  PROVE  /\ InPhase(at, rest) /\ b \in BlocksOf(KindIn(at)) /\ b \in todo
         /\ \A k \in BlocksOf(KindIn(at)) \ todo : k < b
         /\ \A k \in rest : b < k
         /\ BlocksOf(KindIn(at)) \ rest = (BlocksOf(KindIn(at)) \ todo) \cup {b}
<1>1. todo \in SUBSET BlocksOf(KindIn(at)) /\ \A k \in BlocksOf(KindIn(at)) \ todo : \A m \in todo : k < m
  BY DEF InPhase
<1>2. todo \in SUBSET Nat
  BY <1>1, BlockNumbers
<1>3. b \in todo /\ \A m \in todo : b <= m
  BY <1>2, MinIs
<1>4. ASSUME NEW k \in rest PROVE b < k
  <2>1. k \in Nat /\ b \in Nat /\ b <= k /\ b # k
    BY <1>2, <1>3
  <2> QED
    BY <2>1
<1>5. ASSUME NEW k \in BlocksOf(KindIn(at)) \ rest, NEW m \in rest PROVE k < m
  <2>1. CASE k = b
    BY <1>4, <2>1
  <2>2. CASE k # b
    <3>1. k \in BlocksOf(KindIn(at)) \ todo /\ m \in todo
      BY <2>2
    <3> QED
      BY <1>1, <3>1
  <2> QED
    BY <2>1, <2>2
<1>6. rest \in SUBSET BlocksOf(KindIn(at))
  BY <1>1
<1>7. BlocksOf(KindIn(at)) \ rest = (BlocksOf(KindIn(at)) \ todo) \cup {b}
  BY <1>1, <1>3
<1>8. InPhase(at, rest)
  BY <1>5, <1>6 DEF InPhase
<1> QED
  BY <1>1, <1>3, <1>4, <1>7, <1>8

(* Without blocks nothing is to be said of variables;                      *)
LEMMA NoVars == ASSUME AreBlocks, NEW syms, NEW ptr PROVE VarsIn(syms, ptr, {}, 0, 0)
<1>1. ASSUME NEW k, NEW j PROVE ~In({}, 0, 0, k, j)
  <2>1. k \in BlocksOf("var") => k >= 1 /\ k \in Nat
    BY BlockNumbers
  <2> QED
    BY <2>1 DEF In
<1> QED
  BY <1>1 DEF VarsIn

(* without frames, of frames;                                              *)
LEMMA NoFrames ==
  ASSUME NEW syms, NEW tbl
  PROVE  (\E F : <<>> \in Seq(F)) /\ FramesRight(syms, tbl, <<>>) /\ Len(<<>>) = 0
<1>1. Len(<<>>) = 0
  OBVIOUS
<1>2. <<>> \in Seq({})
  OBVIOUS
<1>3. \A n \in 1..Len(<<>>) : FALSE
  BY <1>1
<1> QED
  BY <1>1, <1>2, <1>3 DEF FramesRight

(* and without methods, of the table.                                      *)
LEMMA NoRows ==
  ASSUME NEW syms
  PROVE  IsMethods(<<>>) /\ IsTable({}, 0, syms, <<>>)
<1>1. Len(<<>>) = 0
  OBVIOUS
<1>2. <<>> \in Seq({})
  OBVIOUS
<1>3. \A n \in 1..0 : FALSE
  OBVIOUS
<1> QED
  BY <1>1, <1>2, <1>3 DEF IsMethods, IsTable

(* An error keeps what is true of the frames so far.                       *)
LEMMA Stopped ==
  ASSUME NEW why \in Errors, NEW syms, NEW ptr, NEW tbl, NEW off, NEW fr, IsMethods(tbl),
         \E F : fr \in Seq(F), PasmMode(blocks) => fr = <<>>, FramesRight(syms, tbl, fr)
  PROVE  Right(why, {}, syms, ptr, tbl, off, fr)
<1>1. why \notin Phases
  BY ErrorsApart
<1>2. why \notin {"var", "pubs", "pris", "dat", "pub_code", "pri_code", "idle", "done"}
  BY <1>1 DEF Phases, Visiting
<1>3. InPhase(why, {})
  BY DEF InPhase
<1>4. VarsRight(why, {}, syms, ptr)
  BY <1>2 DEF VarsRight
<1>5. TableRight(why, {}, syms, tbl, off)
  BY <1>2 DEF TableRight
<1>6. CodeRight(why, {}, syms, tbl, off, fr)
  BY <1>2 DEF CodeRight
<1> QED
  BY <1>3, <1>4, <1>5, <1>6 DEF Right

(* No phase is an error.                                                   *)
LEMMA PhaseIsNoError == ASSUME NEW at \in Phases PROVE at \notin Errors
  BY ErrorsApart

-----------------------------------------------------------------------------
(* The steps.                                                              *)

LEMMA InitHolds == AreBlocks /\ DeclarationsInit => MemoryInv
<1> SUFFICES ASSUME AreBlocks, DeclarationsInit PROVE MemoryInv
  OBVIOUS
<1>1. Now("idle", {}, NoSymbols, 4, <<>>, 0, <<>>)
  BY DEF DeclarationsInit, Idle, Now
<1>2. InPhase("idle", {})
  BY DEF InPhase, Phases, Visiting
<1>3. VarsRight("idle", {}, NoSymbols, 4)
  BY NoVars DEF VarsRight, VarSeen
<1>4. TableRight("idle", {}, NoSymbols, <<>>, 0)
  BY NoRows DEF TableRight
<1>5. CodeRight("idle", {}, NoSymbols, <<>>, 0, <<>>)
  BY NoFrames DEF CodeRight
<1>6. FramesRight(NoSymbols, <<>>, <<>>)
  BY NoFrames
<1>7. Right("idle", {}, NoSymbols, 4, <<>>, 0, <<>>)
  BY <1>2, <1>3, <1>4, <1>5, <1>6 DEF Right
<1> QED
  BY <1>1, <1>7 DEF MemoryInv

(* Begin keeps the invariant.                                              *)
LEMMA BeginHolds == MemoryInv /\ Begin => MemoryInv'
<1> SUFFICES ASSUME MemoryInv, Begin PROVE MemoryInv'
  OBVIOUS
<1>1. PICK at, todo, syms, ptr, tbl, off, fr : Now(at, todo, syms, ptr, tbl, off, fr) /\ Right(at, todo, syms, ptr, tbl, off, fr)
  BY DEF MemoryInv
<1>2. AreBlocks /\ blocks' = blocks
  BY DEF MemoryInv, Begin
<1>3. at = "idle"
  BY <1>1 DEF Now, Begin
<1>4. ptr = 4 /\ tbl = <<>> /\ fr = <<>>
  BY <1>1, <1>3 DEF Right, VarsRight, TableRight, CodeRight
<1>5. PICK start : start = 4 * SubStart
  OBVIOUS
<1>6. CASE PasmMode(blocks)
  <2>1. PICK rest : rest = BlocksOf("dat")
    OBVIOUS
  <2>2. Now("dat", rest, syms, ptr, tbl, start, fr)'
    BY <1>1, <1>5, <1>6, <2>1 DEF Begin, To, Now
  <2>3. InPhase("dat", rest)
    BY <2>1, PhaseStarts DEF Visiting, KindIn
  <2>4. VarsRight("dat", rest, syms, ptr)
    <3>1. BlocksOf("var") = {}
      BY <1>6 DEF PasmMode, BlocksOf
    <3>2. VarSeen("dat", rest) = {}
      BY <3>1 DEF VarSeen
    <3>3. ptr \in Nat /\ 4 <= ptr /\ ptr % 4 = 0
      BY <1>4
    <3> QED
      BY <1>2, <3>2, <3>3, NoVars DEF VarsRight
  <2>5. TableRight("dat", rest, syms, tbl, start)
    BY <1>4, <1>6, NoRows DEF TableRight
  <2>6. CodeRight("dat", rest, syms, tbl, start, fr)
    BY <1>4, NoFrames DEF CodeRight
  <2>7. Right("dat", rest, syms, ptr, tbl, start, fr)
    BY <1>4, <2>3, <2>4, <2>5, <2>6, NoFrames DEF Right
  <2> QED
    BY <1>2, <2>2, <2>7, InvReached
<1>7. CASE ~PasmMode(blocks)
  <2>1. PICK rest : rest = BlocksOf("var")
    OBVIOUS
  <2>2. Now("var", rest, syms, ptr, tbl, start, fr)'
    BY <1>1, <1>4, <1>5, <1>7, <2>1 DEF Begin, To, Now
  <2>3. InPhase("var", rest)
    BY <1>7, <2>1, PhaseStarts DEF Visiting, KindIn
  <2>4. VarsRight("var", rest, syms, ptr)
    <3>1. VarSeen("var", rest) = {}
      BY <2>1 DEF VarSeen
    <3>2. ptr \in Nat /\ 4 <= ptr
      BY <1>4
    <3> QED
      BY <1>2, <3>1, <3>2, NoVars DEF VarsRight
  <2>5. TableRight("var", rest, syms, tbl, start)
    BY <1>4, <1>5, NoRows DEF TableRight
  <2>6. CodeRight("var", rest, syms, tbl, start, fr)
    BY <1>4, NoFrames DEF CodeRight
  <2>7. Right("var", rest, syms, ptr, tbl, start, fr)
    BY <1>4, <2>3, <2>4, <2>5, <2>6, NoFrames DEF Right
  <2> QED
    BY <1>2, <2>2, <2>7, InvReached
<1> QED
  BY <1>6, <1>7

(* A VAR block keeps it: the variables of one more block have their bytes. *)
LEMMA VarBlockHolds == MemoryInv /\ VarBlock => MemoryInv'
<1> SUFFICES ASSUME MemoryInv, VarBlock PROVE MemoryInv'
  OBVIOUS
<1>1. PICK at, todo, syms, ptr, tbl, off, fr : Now(at, todo, syms, ptr, tbl, off, fr) /\ Right(at, todo, syms, ptr, tbl, off, fr)
  BY DEF MemoryInv
<1>2. AreBlocks /\ blocks' = blocks
  BY DEF MemoryInv, VarBlock
<1>3. at = "var" /\ todo # {}
  BY <1>1 DEF Now, VarBlock, Visits
<1>4. InPhase("var", todo) /\ VarsRight("var", todo, syms, ptr) /\ TableRight("var", todo, syms, tbl, off) /\ CodeRight("var", todo, syms, tbl, off, fr)
  BY <1>1, <1>3 DEF Right
<1>5. fr = <<>> /\ tbl = <<>>
  BY <1>4 DEF CodeRight, TableRight
<1>6. PICK b : b = Min(todo)
  OBVIOUS
<1>7. PICK rest : rest = todo \ {b}
  OBVIOUS
<1>8. PICK K : K = BlocksOf("var") \ todo
  OBVIOUS
<1>9. /\ InPhase("var", rest) /\ b \in BlocksOf("var") /\ \A k \in K : k < b
      /\ BlocksOf("var") \ rest = K \cup {b}
  <2>1. KindIn("var") = "var" /\ "var" \in Visiting
    BY DEF KindIn, Visiting
  <2> QED
    BY <1>2, <1>3, <1>4, <1>6, <1>7, <1>8, <2>1, PhaseGoesOn
<1>10. ptr \in Nat /\ 4 <= ptr /\ VarsIn(syms, ptr, K, 0, 0)
  <2>1. "var" \notin Errors /\ VarSeen("var", todo) = K
    BY <1>8, PhaseIsNoError DEF Phases, Visiting, VarSeen
  <2> QED
    BY <1>4, <2>1 DEF VarsRight
<1>11. VarsIn(syms, ptr, K, b, 0)
  <2>1. ASSUME NEW k, NEW j, In(K, b, 0, k, j) PROVE In(K, 0, 0, k, j)
    <3>1. j \in 1..Len(blocks[k].items)
      BY <1>2, <2>1, VarPlaces DEF In
    <3>2. ~(j <= 0)
      BY <3>1
    <3> QED
      BY <2>1, <3>2 DEF In
  <2> QED
    BY <1>10, <2>1 DEF VarsIn
<1>12. PICK s : s = CompileVarBlock(blocks[b])
  OBVIOUS
<1>13. VarState(s, K, b, Len(blocks[b].items))
  <2>1. mainSymbols = syms /\ varPtr = ptr
    BY <1>1 DEF Now
  <2>2. varPtr \in Nat /\ 4 <= varPtr /\ VarsIn(mainSymbols, varPtr, K, b, 0)
    BY <1>10, <1>11, <2>1
  <2> QED
    BY <1>2, <1>9, <1>12, <2>2, VarBlockRead
<1>14. /\ varPtr' = s.ptr /\ mainSymbols' = s.syms /\ methods' = tbl /\ offset' = off /\ frames' = fr
       /\ IF s.err = Fine THEN pass' = [at |-> "var", todo |-> rest] ELSE pass' = [at |-> s.err, todo |-> {}]
  BY <1>1, <1>6, <1>7, <1>12 DEF VarBlock, Visited, Block, To, Stop, Now
<1>15. CASE s.err # Fine
  <2>1. s.err \in Errors
    BY <1>13, <1>15 DEF VarState
  <2>2. PICK why \in Errors : why = s.err
    BY <2>1
  <2>3. PICK more : more = s.syms
    OBVIOUS
  <2>4. PICK end : end = s.ptr
    OBVIOUS
  <2>5. Now(why, {}, more, end, tbl, off, fr)'
    BY <1>14, <1>15, <2>2, <2>3, <2>4 DEF Now
  <2>6. Right(why, {}, more, end, tbl, off, fr)
    BY <1>5, NoRows, NoFrames, Stopped
  <2> QED
    BY <1>2, <2>5, <2>6, InvReached
<1>16. CASE s.err = Fine
  <2>1. PICK more : more = s.syms
    OBVIOUS
  <2>2. PICK end : end = s.ptr
    OBVIOUS
  <2>3. Now("var", rest, more, end, tbl, off, fr)'
    BY <1>14, <1>16, <2>1, <2>2 DEF Now
  <2>4. end \in Nat /\ 4 <= end /\ VarsIn(more, end, K, b, Len(blocks[b].items))
    BY <1>13, <1>16, <2>1, <2>2 DEF VarState
  <2>5. VarsIn(more, end, K \cup {b}, 0, 0)
    <3>1. ASSUME NEW k, NEW j, In(K \cup {b}, 0, 0, k, j) PROVE In(K, b, Len(blocks[b].items), k, j)
      <4>1. k \in BlocksOf("var") /\ j \in Variables(k) /\ j \in 1..Len(blocks[k].items) /\ k \in Nat /\ k >= 1
        BY <1>2, <3>1, VarPlaces, BlockNumbers DEF In
      <4>2. k # 0
        BY <4>1
      <4>3. k \in K \/ k = b
        BY <3>1, <4>2 DEF In
      <4>4. AreItems(blocks[k].items)
        BY <1>2, <4>1, VarPlaces
      <4>5. j <= Len(blocks[k].items)
        BY <4>1, <4>4 DEF AreItems
      <4> QED
        BY <4>1, <4>3, <4>5 DEF In
    <3> QED
      BY <2>4, <3>1 DEF VarsIn
  <2>6. VarsRight("var", rest, more, end)
    <3>1. VarSeen("var", rest) = K \cup {b}
      BY <1>9 DEF VarSeen
    <3> QED
      BY <2>4, <2>5, <3>1 DEF VarsRight
  <2>7. TableRight("var", rest, more, tbl, off)
    BY <1>4 DEF TableRight
  <2>8. CodeRight("var", rest, more, tbl, off, fr)
    BY <1>5, NoFrames DEF CodeRight
  <2>9. Right("var", rest, more, end, tbl, off, fr)
    BY <1>5, <1>9, <2>6, <2>7, <2>8, NoFrames DEF Right
  <2> QED
    BY <1>2, <2>3, <2>9, InvReached
<1> QED
  BY <1>15, <1>16

(* The end of the VAR blocks keeps it: the pointer is aligned.             *)
LEMMA EndVarHolds == MemoryInv /\ EndVar => MemoryInv'
<1> SUFFICES ASSUME MemoryInv, EndVar PROVE MemoryInv'
  OBVIOUS
<1>1. PICK at, todo, syms, ptr, tbl, off, fr : Now(at, todo, syms, ptr, tbl, off, fr) /\ Right(at, todo, syms, ptr, tbl, off, fr)
  BY DEF MemoryInv
<1>2. AreBlocks /\ blocks' = blocks
  BY DEF MemoryInv, EndVar
<1>3. at = "var" /\ todo = {}
  BY <1>1 DEF Now, EndVar, Ended
<1>4. InPhase("var", {}) /\ VarsRight("var", {}, syms, ptr) /\ TableRight("var", {}, syms, tbl, off) /\ CodeRight("var", {}, syms, tbl, off, fr)
  BY <1>1, <1>3 DEF Right
<1>5. fr = <<>> /\ tbl = <<>> /\ off = 4 * SubStart
  BY <1>4 DEF CodeRight, TableRight
<1>6. "var" \notin Errors /\ "var" \in Phases /\ "pubs" \in Visiting /\ KindIn("pubs") = "pub"
  BY PhaseIsNoError DEF Phases, Visiting, KindIn
<1>7. ~PasmMode(blocks)
  BY <1>4, <1>6 DEF InPhase
<1>8. ptr \in Nat /\ 4 <= ptr /\ VarsIn(syms, ptr, BlocksOf("var"), 0, 0)
  <2>1. VarSeen("var", {}) = BlocksOf("var")
    BY DEF VarSeen
  <2> QED
    BY <1>4, <1>6, <2>1 DEF VarsRight
<1>9. PICK end : end = Aligned(ptr, 3)
  OBVIOUS
<1>10. end \in Nat /\ ptr <= end /\ end % 4 = 0
  <2>1. 3 \in {0, 1, 3} /\ 3 + 1 = 4
    OBVIOUS
  <2>2. end \in Nat /\ ptr <= end /\ end % (3 + 1) = 0
    BY <1>8, <1>9, <2>1, AlignedIs
  <2> QED
    BY <2>1, <2>2
<1>11. PICK rest : rest = BlocksOf("pub")
  OBVIOUS
<1>12. /\ varPtr' = end /\ mainSymbols' = syms /\ methods' = tbl /\ offset' = off /\ frames' = fr
       /\ pass' = [at |-> "space", todo |-> {}] \/ pass' = [at |-> "pubs", todo |-> rest]
  BY <1>1, <1>9, <1>11 DEF EndVar, To, Stop, Now
<1>13. CASE pass' = [at |-> "space", todo |-> {}]
  <2>1. "space" \in Errors
    BY DEF Errors
  <2>2. Now("space", {}, syms, end, tbl, off, fr)'
    BY <1>12, <1>13 DEF Now
  <2>3. Right("space", {}, syms, end, tbl, off, fr)
    BY <1>5, <2>1, NoRows, NoFrames, Stopped
  <2> QED
    BY <1>2, <2>2, <2>3, InvReached
<1>14. CASE pass' = [at |-> "pubs", todo |-> rest]
  <2>1. Now("pubs", rest, syms, end, tbl, off, fr)'
    BY <1>12, <1>14 DEF Now
  <2>2. InPhase("pubs", rest)
    BY <1>6, <1>7, <1>11, PhaseStarts
  <2>3. VarsRight("pubs", rest, syms, end)
    <3>1. VarSeen("pubs", rest) = BlocksOf("var")
      BY DEF VarSeen
    <3>2. Extends(syms, syms)
      BY DEF Extends
    <3>3. VarsIn(syms, end, BlocksOf("var"), 0, 0)
      BY <1>8, <1>10, <3>2, VarsKept
    <3>4. 4 <= end
      BY <1>8, <1>10
    <3> QED
      BY <1>10, <3>1, <3>3, <3>4 DEF VarsRight
  <2>4. TableRight("pubs", rest, syms, tbl, off)
    <3>1. BlocksOf("pub") \ rest = {} /\ Len(tbl) = 0
      BY <1>5, <1>11
    <3>2. SubStart + 0 = SubStart
      BY <1>2, Instances
    <3> QED
      BY <1>5, <3>1, <3>2, NoRows DEF TableRight
  <2>5. CodeRight("pubs", rest, syms, tbl, off, fr)
    BY <1>5, NoFrames DEF CodeRight
  <2>6. Right("pubs", rest, syms, end, tbl, off, fr)
    BY <1>5, <2>2, <2>3, <2>4, <2>5, NoFrames DEF Right
  <2> QED
    BY <1>2, <2>1, <2>6, InvReached
<1> QED
  BY <1>12, <1>13, <1>14

\* the variables are as good when a name is added
LEMMA VarsStillRight ==
  ASSUME NEW at, NEW to, NEW todo, NEW rest, NEW syms, NEW more, NEW ptr,
         at \in Phases \ {"idle", "var"}, to \in Phases \ {"idle", "var"}, VarsRight(at, todo, syms, ptr), Extends(more, syms)
  PROVE  VarsRight(to, rest, more, ptr)
<1>1. at \notin Errors
  BY PhaseIsNoError
<1>2. VarSeen(at, todo) = BlocksOf("var") /\ VarSeen(to, rest) = BlocksOf("var")
  BY DEF VarSeen
<1>3. ptr \in Nat /\ 4 <= ptr /\ ptr % 4 = 0 /\ VarsIn(syms, ptr, BlocksOf("var"), 0, 0)
  BY <1>1, <1>2 DEF VarsRight
<1>4. ptr <= ptr
  BY <1>3
<1>5. VarsIn(more, ptr, BlocksOf("var"), 0, 0)
  BY <1>3, <1>4, VarsKept
<1> QED
  BY <1>2, <1>3, <1>5 DEF VarsRight

\* the methods that have an entry, and those that have code
EnteredBy(name, todo) == IF name \in {"pubs", "pub_code"} THEN BlocksOf("pub") \ todo ELSE BlocksOf("pub") \cup (BlocksOf("pri") \ todo)

(* The method visited next is behind those visited and in front of those   *)
(* that are not, in the order of the table.                                *)
LEMMA NextMethod ==
  ASSUME AreBlocks, NEW name \in {"pubs", "pris", "pub_code", "pri_code"}, NEW todo, InPhase(name, todo), todo # {},
         NEW b, b = Min(todo), NEW rest, rest = todo \ {b}, NEW S, S = EnteredBy(name, todo)
  PROVE  /\ InPhase(name, rest) /\ b \in Subs \ S /\ S \in SUBSET Subs /\ EnteredBy(name, rest) = S \cup {b}
         /\ blocks[b].kind = KindIn(name)
         /\ \A k \in S : Earlier(k, b)
         /\ \A k \in Subs \ S : k = b \/ Earlier(b, k)
<1>1. name \in Visiting
  BY DEF Visiting
<1>2. /\ InPhase(name, rest) /\ b \in BlocksOf(KindIn(name)) /\ b \in todo
      /\ \A k \in BlocksOf(KindIn(name)) \ todo : k < b
      /\ \A k \in rest : b < k
      /\ BlocksOf(KindIn(name)) \ rest = (BlocksOf(KindIn(name)) \ todo) \cup {b}
  BY <1>1, PhaseGoesOn
<1>3. todo \in SUBSET BlocksOf(KindIn(name))
  BY DEF InPhase
<1>4. \A k : k \in BlocksOf("pub") => blocks[k].kind = "pub"
  BY DEF BlocksOf
<1>5. \A k : k \in BlocksOf("pri") => blocks[k].kind = "pri"
  BY DEF BlocksOf
<1>6. CASE name \in {"pubs", "pub_code"}
  <2>1. KindIn(name) = "pub"
    BY <1>6 DEF KindIn
  <2>2. S = BlocksOf("pub") \ todo /\ EnteredBy(name, rest) = BlocksOf("pub") \ rest
    BY <1>6 DEF EnteredBy
  <2>3. \A k \in S : Earlier(k, b)
    BY <1>2, <1>4, <2>1, <2>2 DEF Earlier
  <2>4. ASSUME NEW k \in Subs \ S PROVE k = b \/ Earlier(b, k)
    <3>1. k \in rest \/ k = b \/ k \in BlocksOf("pri")
      BY <2>2 DEF Subs
    <3> QED
      BY <1>2, <1>3, <1>4, <1>5, <2>1, <3>1 DEF Earlier
  <2>5. b \in Subs \ S /\ S \in SUBSET Subs
    BY <1>2, <2>1, <2>2 DEF Subs
  <2> QED
    BY <1>2, <1>4, <2>1, <2>2, <2>3, <2>4, <2>5
<1>7. CASE name \in {"pris", "pri_code"}
  <2>1. KindIn(name) = "pri"
    BY <1>7 DEF KindIn
  <2>2. S = BlocksOf("pub") \cup (BlocksOf("pri") \ todo) /\ EnteredBy(name, rest) = BlocksOf("pub") \cup (BlocksOf("pri") \ rest)
    BY <1>7 DEF EnteredBy
  <2>3. \A k \in S : Earlier(k, b)
    BY <1>2, <1>4, <1>5, <2>1, <2>2 DEF Earlier
  <2>4. ASSUME NEW k \in Subs \ S PROVE k = b \/ Earlier(b, k)
    <3>1. k \in rest \/ k = b
      BY <2>2 DEF Subs
    <3> QED
      BY <1>2, <1>3, <1>5, <2>1, <3>1 DEF Earlier
  <2>5. b \in Subs \ S /\ S \in SUBSET Subs
    <3>1. "pri" # "pub"
      OBVIOUS
    <3>2. b \notin BlocksOf("pub")
      BY <1>2, <1>4, <1>5, <2>1, <3>1
    <3> QED
      BY <1>2, <2>1, <2>2, <3>2 DEF Subs
  <2> QED
    BY <1>2, <1>5, <2>1, <2>2, <2>3, <2>4, <2>5
<1> QED
  BY <1>6, <1>7

(* A method header in the first pass keeps it: the table has one more row. *)
LEMMA MethodIdHolds == ASSUME NEW name \in {"pubs", "pris"} PROVE MemoryInv /\ MethodId(name) => MemoryInv'
<1> SUFFICES ASSUME MemoryInv, MethodId(name) PROVE MemoryInv'
  OBVIOUS
<1>1. PICK at, todo, syms, ptr, tbl, off, fr : Now(at, todo, syms, ptr, tbl, off, fr) /\ Right(at, todo, syms, ptr, tbl, off, fr)
  BY DEF MemoryInv
<1>2. AreBlocks /\ blocks' = blocks
  BY DEF MemoryInv, MethodId
<1>3. at = name /\ todo # {}
  BY <1>1 DEF Now, MethodId, Visits
<1>4. InPhase(name, todo) /\ VarsRight(name, todo, syms, ptr) /\ TableRight(name, todo, syms, tbl, off) /\ CodeRight(name, todo, syms, tbl, off, fr)
  BY <1>1, <1>3 DEF Right
<1>5. fr = <<>>
  BY <1>4 DEF CodeRight
<1>6. PICK b : b = Min(todo)
  OBVIOUS
<1>7. PICK rest : rest = todo \ {b}
  OBVIOUS
<1>8. PICK S : S = EnteredBy(name, todo)
  OBVIOUS
<1>9. /\ InPhase(name, rest) /\ b \in Subs /\ b \notin S /\ S \in SUBSET Subs /\ EnteredBy(name, rest) = S \cup {b}
      /\ blocks[b].kind = KindIn(name) /\ \A k \in S : Earlier(k, b)
  <2>1. name \in {"pubs", "pris", "pub_code", "pri_code"}
    OBVIOUS
  <2>2. /\ InPhase(name, rest) /\ b \in Subs \ S /\ S \in SUBSET Subs /\ EnteredBy(name, rest) = S \cup {b}
        /\ blocks[b].kind = KindIn(name)
        /\ \A k \in S : Earlier(k, b)
        /\ \A k \in Subs \ S : k = b \/ Earlier(b, k)
    BY <1>2, <1>3, <1>4, <1>6, <1>7, <1>8, <2>1, NextMethod
  <2> QED
    BY <2>2
<1>10. PICK n : n = Len(tbl)
  OBVIOUS
<1>11. IsMethods(tbl) /\ off = 4 * (SubStart + n) /\ IsTable(S, n, syms, tbl) /\ (name = "pris" => BlocksOf("pub") # {})
  BY <1>4, <1>8, <1>10 DEF TableRight, EnteredBy
<1>12. n \in Nat
  <2>1. PICK E : tbl \in Seq(E)
    BY <1>11 DEF IsMethods
  <2> QED
    BY <1>10, <2>1
<1>13. PICK h : h = SubId(blocks[b])
  OBVIOUS
<1>14. /\ h.err \in Errors \cup {Fine}
       /\ h.err = Fine => /\ blocks[b].name \notin DOMAIN syms
                         /\ h.params \in Nat /\ Sums(blocks[b].params, h.params)
                         /\ h.results \in Nat /\ Sums(blocks[b].results, h.results)
  <2>1. mainSymbols = syms
    BY <1>1 DEF Now
  <2> QED
    BY <1>2, <1>9, <1>13, <2>1, HeaderRead
<1>15. CASE h.err # Fine
  <2>1. PICK why \in Errors : why = h.err
    BY <1>14, <1>15
  <2>2. pass' = [at |-> why, todo |-> {}] /\ UNCHANGED <<mainSymbols, methods, offset, varPtr, frames>>
    BY <1>1, <1>6, <1>13, <1>15, <2>1 DEF MethodId, Now, Stop, Block, Visited
  <2>3. Now(why, {}, syms, ptr, tbl, off, fr)'
    BY <1>1, <2>2 DEF Now
  <2>4. Right(why, {}, syms, ptr, tbl, off, fr)
    BY <1>5, <1>11, NoFrames, Stopped
  <2> QED
    BY <1>2, <2>3, <2>4, InvReached
<1>16. CASE h.err = Fine
  <2>1. PICK sym : sym = [params |-> h.params, results |-> h.results, at |-> off \div 4]
    OBVIOUS
  <2>2. PICK more : more = With(syms, blocks[b].name, sym)
    OBVIOUS
  <2>3. PICK row : row = [of |-> blocks[b].name, public |-> name = "pubs", params |-> h.params, results |-> h.results, code |-> 0]
    OBVIOUS
  <2>4. PICK t : t = Append(tbl, row)
    OBVIOUS
  <2>5. PICK end : end = off + 4
    OBVIOUS
  <2>6. Now(name, rest, more, ptr, t, end, fr)'
    <3>1. pass = [at |-> name, todo |-> todo] /\ mainSymbols = syms /\ methods = tbl /\ offset = off /\ varPtr = ptr /\ frames = fr
      BY <1>1, <1>3 DEF Now
    <3>2. Visited = b /\ Block = blocks[b]
      BY <1>6, <3>1 DEF Visited, Block
    <3>3. SubId(Block) = h
      BY <1>13, <3>2
    <3>4. /\ mainSymbols' = With(mainSymbols, Block.name, [params |-> h.params, results |-> h.results, at |-> offset \div 4])
          /\ methods' = Append(methods, [of |-> Block.name, public |-> name = "pubs",
                                         params |-> h.params, results |-> h.results, code |-> 0])
          /\ offset' = offset + 4
          /\ To(name, pass.todo \ {Visited})
          /\ UNCHANGED <<varPtr, frames>>
      BY <1>16, <3>3 DEF MethodId
    <3>5. mainSymbols' = more /\ methods' = t /\ offset' = end /\ varPtr' = ptr /\ frames' = fr
      BY <2>1, <2>2, <2>3, <2>4, <2>5, <3>1, <3>2, <3>4
    <3>6. pass' = [at |-> name, todo |-> rest]
      BY <1>7, <3>1, <3>2, <3>4 DEF To
    <3> QED
      BY <3>5, <3>6 DEF Now
  <2>7. Extends(more, syms) /\ blocks[b].name \in DOMAIN more /\ more[blocks[b].name] = sym
    BY <1>14, <1>16, <2>2, WithExtends
  <2>8. sym.at = SubStart + n
    <3>1. SubStart \in Nat
      BY <1>2, Instances
    <3>2. (4 * (SubStart + n)) \div 4 = SubStart + n
      BY <1>12, <3>1
    <3> QED
      BY <1>11, <2>1, <3>2
  <2>9. IsMethods(t) /\ Len(t) = n + 1 /\ t[n + 1] = row /\ \A j \in 1..n : t[j] = tbl[j]
    <3>2. IsEntry(row)
      BY <2>3, Zenon DEF IsEntry
    <3>3. IsMethods(t) /\ Len(t) = Len(tbl) + 1 /\ t[Len(tbl) + 1] = row
      BY <1>11, <2>4, <3>2, RowAdded
    <3>4. \A j \in 1..Len(tbl) : t[j] = tbl[j]
      BY <1>11, <2>4, <3>2, RowAdded
    <3> QED
      BY <1>10, <3>3, <3>4
  <2>10. Describes(row, b)
    <3>1. row.of = blocks[b].name /\ row.params = h.params /\ row.results = h.results
      BY <2>3
    <3>2. row.public <=> blocks[b].kind = "pub"
      <4>1. row.public = (name = "pubs")
        BY <2>3
      <4>2. name = "pubs" <=> KindIn(name) = "pub"
        BY DEF KindIn
      <4> QED
        BY <1>9, <4>1, <4>2
    <3> QED
      BY <1>14, <1>16, <3>1, <3>2 DEF Describes
  <2>11. IsTable(S \cup {b}, n + 1, more, t)
    BY <1>2, <1>9, <1>11, <1>12, <2>7, <2>8, <2>9, <2>10, TableGrows
  <2>12. TableRight(name, rest, more, t, end)
    <3>1. end = 4 * (SubStart + Len(t))
      <4>1. SubStart \in Nat
        BY <1>2, Instances
      <4>2. (4 * (SubStart + n)) + 4 = 4 * (SubStart + (n + 1))
        BY <1>12, <4>1
      <4> QED
        BY <1>11, <2>5, <2>9, <4>2
    <3>2. IsTable(EnteredBy(name, rest), Len(t), more, t)
      BY <1>9, <2>9, <2>11
    <3> QED
      BY <1>11, <2>9, <3>1, <3>2 DEF TableRight, EnteredBy
  <2>13. VarsRight(name, rest, more, ptr)
    <3>1. name \in Phases \ {"idle", "var"}
      BY DEF Phases, Visiting
    <3> QED
      BY <1>4, <2>7, <3>1, VarsStillRight
  <2>14. CodeRight(name, rest, more, t, end, fr)
    BY <1>5, NoFrames DEF CodeRight
  <2>15. Right(name, rest, more, ptr, t, end, fr)
    BY <1>5, <1>9, <2>12, <2>13, <2>14, NoFrames DEF Right
  <2> QED
    BY <1>2, <2>6, <2>15, InvReached
<1> QED
  BY <1>15, <1>16

(* The end of the PUB methods keeps it,                                    *)
LEMMA EndPubsHolds == MemoryInv /\ EndPubs => MemoryInv'
<1> SUFFICES ASSUME MemoryInv, EndPubs PROVE MemoryInv'
  OBVIOUS
<1>1. PICK at, todo, syms, ptr, tbl, off, fr : Now(at, todo, syms, ptr, tbl, off, fr) /\ Right(at, todo, syms, ptr, tbl, off, fr)
  BY DEF MemoryInv
<1>2. AreBlocks /\ blocks' = blocks
  BY DEF MemoryInv, EndPubs
<1>3. at = "pubs" /\ todo = {}
  BY <1>1 DEF Now, EndPubs, Ended
<1>4. InPhase("pubs", {}) /\ VarsRight("pubs", {}, syms, ptr) /\ TableRight("pubs", {}, syms, tbl, off) /\ CodeRight("pubs", {}, syms, tbl, off, fr)
  BY <1>1, <1>3 DEF Right
<1>5. fr = <<>> /\ IsMethods(tbl) /\ off = 4 * (SubStart + Len(tbl)) /\ IsTable(BlocksOf("pub"), Len(tbl), syms, tbl)
  <2>1. BlocksOf("pub") \ {} = BlocksOf("pub")
    OBVIOUS
  <2> QED
    BY <1>4, <2>1 DEF CodeRight, TableRight
<1>6. ~PasmMode(blocks)
  <2>1. "pubs" \in Phases
    BY DEF Phases, Visiting
  <2>2. "pubs" \notin Errors
    BY <2>1, PhaseIsNoError
  <2> QED
    BY <1>4, <2>2 DEF InPhase
<1>7. CASE tbl = <<>>
  <2>1. "no_method" \in Errors
    BY DEF Errors
  <2>2. Now("no_method", {}, syms, ptr, tbl, off, fr)'
    BY <1>1, <1>7 DEF EndPubs, Stop, Now
  <2>3. Right("no_method", {}, syms, ptr, tbl, off, fr)
    BY <1>5, <2>1, NoFrames, Stopped
  <2> QED
    BY <1>2, <2>2, <2>3, InvReached
<1>8. CASE tbl # <<>>
  <2>1. PICK rest : rest = BlocksOf("pri")
    OBVIOUS
  <2>2. Now("pris", rest, syms, ptr, tbl, off, fr)'
    BY <1>1, <1>8, <2>1 DEF EndPubs, To, Now
  <2>3. InPhase("pris", rest)
    <3>1. "pris" \in Visiting /\ KindIn("pris") = "pri"
      BY DEF Visiting, KindIn
    <3> QED
      BY <1>6, <2>1, <3>1, PhaseStarts
  <2>4. VarsRight("pris", rest, syms, ptr)
    <3>1. "pubs" \in Phases \ {"idle", "var"} /\ "pris" \in Phases \ {"idle", "var"}
      BY DEF Phases, Visiting
    <3>2. Extends(syms, syms)
      BY DEF Extends
    <3> QED
      BY <1>4, <3>1, <3>2, VarsStillRight
  <2>5. TableRight("pris", rest, syms, tbl, off)
    <3>1. BlocksOf("pub") \cup (BlocksOf("pri") \ rest) = BlocksOf("pub")
      BY <2>1
    <3>2. 1 \in 1..Len(tbl)
      <4>1. PICK E : tbl \in Seq(E)
        BY <1>5 DEF IsMethods
      <4>2. Len(tbl) \in Nat /\ Len(tbl) # 0
        BY <1>8, <4>1
      <4> QED
        BY <4>2
    <3>3. BlocksOf("pub") # {}
      BY <1>5, <3>2 DEF IsTable
    <3> QED
      BY <1>5, <3>1, <3>3 DEF TableRight
  <2>6. CodeRight("pris", rest, syms, tbl, off, fr)
    BY <1>5, NoFrames DEF CodeRight
  <2>7. Right("pris", rest, syms, ptr, tbl, off, fr)
    BY <1>5, <2>3, <2>4, <2>5, <2>6, NoFrames DEF Right
  <2> QED
    BY <1>2, <2>2, <2>7, InvReached
<1> QED
  BY <1>7, <1>8

(* and that of the PRI methods, where the table gets its last long.        *)
LEMMA EndPrisHolds == MemoryInv /\ EndPris => MemoryInv'
<1> SUFFICES ASSUME MemoryInv, EndPris PROVE MemoryInv'
  OBVIOUS
<1>1. PICK at, todo, syms, ptr, tbl, off, fr : Now(at, todo, syms, ptr, tbl, off, fr) /\ Right(at, todo, syms, ptr, tbl, off, fr)
  BY DEF MemoryInv
<1>2. AreBlocks /\ blocks' = blocks
  BY DEF MemoryInv, EndPris
<1>3. at = "pris" /\ todo = {}
  BY <1>1 DEF Now, EndPris, Ended
<1>4. InPhase("pris", {}) /\ VarsRight("pris", {}, syms, ptr) /\ TableRight("pris", {}, syms, tbl, off) /\ CodeRight("pris", {}, syms, tbl, off, fr)
  BY <1>1, <1>3 DEF Right
<1>5. PICK n : n = Len(tbl)
  OBVIOUS
<1>6. fr = <<>> /\ IsMethods(tbl) /\ BlocksOf("pub") # {} /\ IsTable(Subs, n, syms, tbl)
  <2>1. BlocksOf("pub") \cup (BlocksOf("pri") \ {}) = Subs
    BY DEF Subs
  <2> QED
    BY <1>4, <1>5, <2>1 DEF CodeRight, TableRight
<1>7. ~PasmMode(blocks)
  <2>1. "pris" \in Phases
    BY DEF Phases, Visiting
  <2>2. "pris" \notin Errors
    BY <2>1, PhaseIsNoError
  <2> QED
    BY <1>4, <2>2 DEF InPhase
<1>8. PICK rest : rest = BlocksOf("dat")
  OBVIOUS
<1>9. PICK row : row = [of |-> Nameless, public |-> FALSE, params |-> 0, results |-> 0, code |-> 0]
  OBVIOUS
<1>10. PICK t : t = Append(tbl, row)
  OBVIOUS
<1>11. PICK end : end = off + 4
  OBVIOUS
<1>12. Now("dat", rest, syms, ptr, t, end, fr)'
  BY <1>1, <1>8, <1>9, <1>10, <1>11 DEF EndPris, To, Now
<1>13. IsMethods(t) /\ n \in Nat /\ Len(t) = n + 1 /\ \A j \in 1..n : t[j] = tbl[j]
  <2>a. IsEntry(row)
    BY <1>9 DEF IsEntry
  <2>1. IsMethods(t) /\ Len(tbl) \in Nat /\ Len(t) = Len(tbl) + 1
    BY <1>6, <2>a, <1>10, RowAdded
  <2>2. \A j \in 1..Len(tbl) : t[j] = tbl[j]
    BY <1>6, <2>a, <1>10, RowAdded
  <2> QED
    BY <1>5, <2>1, <2>2
<1>14. InPhase("dat", rest)
  <2>1. "dat" \in Visiting /\ KindIn("dat") = "dat"
    BY DEF Visiting, KindIn
  <2> QED
    BY <1>8, <2>1, PhaseStarts
<1>15. Extends(syms, syms)
  BY DEF Extends
<1>16. VarsRight("dat", rest, syms, ptr)
  <2>1. "dat" \in Phases \ {"idle", "var"} /\ "pris" \in Phases \ {"idle", "var"}
    BY DEF Phases, Visiting
  <2> QED
    BY <1>4, <1>15, <2>1, VarsStillRight
<1>17. TableRight("dat", rest, syms, t, end)
  <2>1. IsTable(Subs, n, syms, t)
    <3>1. \A j \in 1..n : SameHead(t[j], tbl[j])
      BY <1>13 DEF SameHead
    <3> QED
      BY <1>6, <1>13, <1>15, <3>1, TableKept
  <2>2. Len(t) >= 1 /\ Len(t) - 1 = n
    BY <1>13
  <2> QED
    BY <1>6, <1>13, <2>1, <2>2 DEF TableRight
<1>18. CodeRight("dat", rest, syms, t, end, fr)
  BY <1>6, NoFrames DEF CodeRight
<1>19. Right("dat", rest, syms, ptr, t, end, fr)
  BY <1>6, <1>14, <1>16, <1>17, <1>18, NoFrames DEF Right
<1> QED
  BY <1>2, <1>12, <1>19, InvReached

(* A DAT block keeps it: it adds a symbol and bytes.                       *)
LEMMA DatBlockHolds == MemoryInv /\ DatBlock => MemoryInv'
<1> SUFFICES ASSUME MemoryInv, DatBlock PROVE MemoryInv'
  OBVIOUS
<1>1. PICK at, todo, syms, ptr, tbl, off, fr : Now(at, todo, syms, ptr, tbl, off, fr) /\ Right(at, todo, syms, ptr, tbl, off, fr)
  BY DEF MemoryInv
<1>2. AreBlocks /\ blocks' = blocks
  BY DEF MemoryInv, DatBlock
<1>3. at = "dat" /\ todo # {}
  BY <1>1 DEF Now, DatBlock, Visits
<1>4. InPhase("dat", todo) /\ VarsRight("dat", todo, syms, ptr) /\ TableRight("dat", todo, syms, tbl, off) /\ CodeRight("dat", todo, syms, tbl, off, fr)
  BY <1>1, <1>3 DEF Right
<1>5. fr = <<>> /\ IsMethods(tbl)
  BY <1>4 DEF CodeRight, TableRight
<1>6. PICK b : b = Min(todo)
  OBVIOUS
<1>7. PICK rest : rest = todo \ {b}
  OBVIOUS
<1>8. PICK end : end = off + blocks[b].size
  OBVIOUS
<1>9. InPhase("dat", rest)
  <2>1. "dat" \in Visiting
    BY DEF Visiting
  <2> QED
    BY <1>2, <1>3, <1>4, <1>6, <1>7, <2>1, PhaseGoesOn
<1>10. CASE ~Isnt(blocks[b].name, syms)
  <2>1. "name" \in Errors
    BY DEF Errors
  <2>2. Now("name", {}, syms, ptr, tbl, end, fr)'
    BY <1>1, <1>6, <1>8, <1>10 DEF DatBlock, Stop, Now, Visited, Block
  <2>3. Right("name", {}, syms, ptr, tbl, end, fr)
    BY <1>5, <2>1, NoFrames, Stopped
  <2> QED
    BY <1>2, <2>2, <2>3, InvReached
<1>11. CASE Isnt(blocks[b].name, syms)
  <2>1. PICK more : more = With(syms, blocks[b].name, [at |-> off])
    OBVIOUS
  <2>2. Now("dat", rest, more, ptr, tbl, end, fr)'
    BY <1>1, <1>6, <1>7, <1>8, <1>11, <2>1 DEF DatBlock, To, Now, Visited, Block
  <2>3. Extends(more, syms)
    BY <1>11, <2>1, WithExtends DEF Isnt
  <2>4. VarsRight("dat", rest, more, ptr)
    <3>1. "dat" \in Phases \ {"idle", "var"}
      BY DEF Phases, Visiting
    <3> QED
      BY <1>4, <2>3, <3>1, VarsStillRight
  <2>5. TableRight("dat", rest, more, tbl, end)
    <3>1. CASE PasmMode(blocks)
      BY <1>5, <3>1 DEF TableRight
    <3>2. CASE ~PasmMode(blocks)
      <4>1. BlocksOf("pub") # {} /\ Len(tbl) >= 1 /\ IsTable(Subs, Len(tbl) - 1, syms, tbl)
        BY <1>4, <3>2 DEF TableRight
      <4>2. PICK n \in Nat : n = Len(tbl) - 1
        <5>1. PICK E : tbl \in Seq(E)
          BY <1>5 DEF IsMethods
        <5>2. Len(tbl) \in Nat
          BY <5>1
        <5> QED
          BY <4>1, <5>2
      <4>3. \A j \in 1..n : SameHead(tbl[j], tbl[j])
        BY DEF SameHead
      <4>4. IsTable(Subs, n, more, tbl)
        BY <2>3, <4>1, <4>2, <4>3, TableKept
      <4> QED
        BY <1>5, <4>1, <4>2, <4>4 DEF TableRight
    <3> QED
      BY <3>1, <3>2
  <2>6. CodeRight("dat", rest, more, tbl, end, fr)
    BY <1>5, NoFrames DEF CodeRight
  <2>7. Right("dat", rest, more, ptr, tbl, end, fr)
    BY <1>5, <1>9, <2>4, <2>5, <2>6, NoFrames DEF Right
  <2> QED
    BY <1>2, <2>2, <2>7, InvReached
<1> QED
  BY <1>10, <1>11

(* The end of the DAT blocks keeps it.                                     *)
LEMMA EndDatHolds == MemoryInv /\ EndDat => MemoryInv'
<1> SUFFICES ASSUME MemoryInv, EndDat PROVE MemoryInv'
  OBVIOUS
<1>1. PICK at, todo, syms, ptr, tbl, off, fr : Now(at, todo, syms, ptr, tbl, off, fr) /\ Right(at, todo, syms, ptr, tbl, off, fr)
  BY DEF MemoryInv
<1>2. AreBlocks /\ blocks' = blocks
  BY DEF MemoryInv, EndDat
<1>3. at = "dat" /\ todo = {}
  BY <1>1 DEF Now, EndDat, Ended
<1>4. InPhase("dat", {}) /\ VarsRight("dat", {}, syms, ptr) /\ TableRight("dat", {}, syms, tbl, off) /\ CodeRight("dat", {}, syms, tbl, off, fr)
  BY <1>1, <1>3 DEF Right
<1>5. fr = <<>> /\ IsMethods(tbl)
  BY <1>4 DEF CodeRight, TableRight
<1>6. "dat" \in Phases \ {"idle", "var"} /\ "done" \in Phases \ {"idle", "var"} /\ "pub_code" \in Phases \ {"idle", "var"}
  BY DEF Phases, Visiting
<1>7. Extends(syms, syms)
  BY DEF Extends
<1>8. CASE PasmMode(blocks)
  <2>1. Now("done", {}, syms, ptr, tbl, off, fr)'
    BY <1>1, <1>8 DEF EndDat, Stop, Now
  <2>2. InPhase("done", {})
    BY DEF InPhase, Phases
  <2>3. VarsRight("done", {}, syms, ptr)
    BY <1>4, <1>6, <1>7, VarsStillRight
  <2>4. TableRight("done", {}, syms, tbl, off)
    BY <1>5, <1>8 DEF TableRight
  <2>5. CodeRight("done", {}, syms, tbl, off, fr)
    BY <1>5, <1>8, NoFrames DEF CodeRight
  <2>6. Right("done", {}, syms, ptr, tbl, off, fr)
    BY <1>5, <2>2, <2>3, <2>4, <2>5, NoFrames DEF Right
  <2> QED
    BY <1>2, <2>1, <2>6, InvReached
<1>9. CASE ~PasmMode(blocks)
  <2>1. PICK rest : rest = BlocksOf("pub")
    OBVIOUS
  <2>2. Now("pub_code", rest, syms, ptr, tbl, off, fr)'
    BY <1>1, <1>9, <2>1 DEF EndDat, To, Now
  <2>3. InPhase("pub_code", rest)
    <3>1. "pub_code" \in Visiting /\ KindIn("pub_code") = "pub"
      BY DEF Visiting, KindIn
    <3> QED
      BY <1>9, <2>1, <3>1, PhaseStarts
  <2>4. VarsRight("pub_code", rest, syms, ptr)
    BY <1>4, <1>6, <1>7, VarsStillRight
  <2>5. TableRight("pub_code", rest, syms, tbl, off)
    BY <1>4, <1>9 DEF TableRight
  <2>6. CodeRight("pub_code", rest, syms, tbl, off, fr)
    <3>1. BlocksOf("pub") \ rest = {} /\ Len(fr) = 0
      BY <1>5, <2>1
    <3>2. Compiled({}, syms, tbl, off, fr)
      <4>1. \A n \in 1..Len(fr) : FALSE
        BY <3>1
      <4> QED
        BY <4>1 DEF Compiled
    <3> QED
      BY <1>5, <1>9, <3>1, <3>2, NoFrames DEF CodeRight
  <2>7. Right("pub_code", rest, syms, ptr, tbl, off, fr)
    BY <1>5, <2>3, <2>4, <2>5, <2>6, NoFrames DEF Right
  <2> QED
    BY <1>2, <2>2, <2>7, InvReached
<1> QED
  BY <1>8, <1>9

(* Frames agree with the table as long as the heads of its rows stay.      *)
LEMMA FramesKept ==
  ASSUME NEW syms, NEW tbl, NEW fr, FramesRight(syms, tbl, fr),
         NEW C, NEW off, Compiled(C, syms, tbl, off, fr), Len(fr) \in Nat, NEW n \in Nat, Len(fr) <= n,
         NEW t, \A i \in 1..n : SameHead(t[i], tbl[i])
  PROVE  FramesRight(syms, t, fr)
<1>1. ASSUME NEW i \in 1..Len(fr) PROVE FrameRight(syms, t, fr[i])
  <2>1. FrameRight(syms, tbl, fr[i])
    BY DEF FramesRight
  <2>2. EntryOf(syms, fr[i].block) = i
    BY DEF Compiled
  <2>3. i \in 1..n
    OBVIOUS
  <2>4. t[i].params = tbl[i].params /\ t[i].results = tbl[i].results
    BY <2>3 DEF SameHead
  <2> QED
    BY <2>1, <2>2, <2>4 DEF FrameRight
<1> QED
  BY <1>1 DEF FramesRight

(* A method in the second pass keeps it: there is one more frame, and its  *)
(* row leads to its code.                                                  *)
LEMMA MethodHolds == ASSUME NEW name \in {"pub_code", "pri_code"} PROVE MemoryInv /\ Method(name) => MemoryInv'
<1> SUFFICES ASSUME MemoryInv, Method(name) PROVE MemoryInv'
  OBVIOUS
<1>1. PICK at, todo, syms, ptr, tbl, off, fr : Now(at, todo, syms, ptr, tbl, off, fr) /\ Right(at, todo, syms, ptr, tbl, off, fr)
  BY DEF MemoryInv
<1>2. AreBlocks /\ blocks' = blocks
  BY DEF MemoryInv, Method
<1>3. at = name /\ todo # {}
  BY <1>1 DEF Now, Method, Visits
<1>4. /\ InPhase(name, todo) /\ VarsRight(name, todo, syms, ptr) /\ TableRight(name, todo, syms, tbl, off)
      /\ CodeRight(name, todo, syms, tbl, off, fr) /\ FramesRight(syms, tbl, fr)
  BY <1>1, <1>3 DEF Right
<1>5. name \in Phases \ {"idle", "var"} /\ name \notin Errors
  <2>1. name \in Phases \ {"idle", "var"}
    BY DEF Phases, Visiting
  <2> QED
    BY <2>1, PhaseIsNoError
<1>6. ~PasmMode(blocks)
  BY <1>4, <1>5 DEF InPhase
<1>7. PICK b : b = Min(todo)
  OBVIOUS
<1>8. PICK rest : rest = todo \ {b}
  OBVIOUS
<1>9. PICK C : C = EnteredBy(name, todo)
  OBVIOUS
<1>10. /\ InPhase(name, rest) /\ b \in Subs \ C /\ C \in SUBSET Subs /\ EnteredBy(name, rest) = C \cup {b}
       /\ \A k \in Subs \ C : k = b \/ Earlier(b, k)
  <2>1. name \in {"pubs", "pris", "pub_code", "pri_code"}
    OBVIOUS
  <2>2. /\ InPhase(name, rest) /\ b \in Subs \ C /\ C \in SUBSET Subs /\ EnteredBy(name, rest) = C \cup {b}
        /\ blocks[b].kind = KindIn(name)
        /\ \A k \in C : Earlier(k, b)
        /\ \A k \in Subs \ C : k = b \/ Earlier(b, k)
    BY <1>2, <1>3, <1>4, <1>7, <1>8, <1>9, <2>1, NextMethod
  <2> QED
    BY <2>2
<1>11. IsMethods(tbl) /\ BlocksOf("pub") # {} /\ Len(tbl) >= 1 /\ IsTable(Subs, Len(tbl) - 1, syms, tbl)
  BY <1>4, <1>6 DEF TableRight
<1>12. PICK n \in Nat : n = Len(tbl) - 1 /\ Len(tbl) \in Nat
  <2>1. PICK E : tbl \in Seq(E)
    BY <1>11 DEF IsMethods
  <2>2. Len(tbl) \in Nat
    BY <2>1
  <2> QED
    BY <1>11, <2>2
<1>13. PICK F : fr \in Seq(F)
  BY <1>4 DEF CodeRight
<1>14. PICK m \in Nat : m = Len(fr)
  BY <1>13
<1>15. Compiled(C, syms, tbl, off, fr)
  BY <1>4, <1>9 DEF CodeRight, EnteredBy
<1>16. EntryOf(syms, b) = m + 1 /\ m + 1 \in 1..n
  BY <1>2, <1>10, <1>11, <1>12, <1>14, <1>15, NextEntry
<1>17. m + 1 \in 1..Len(tbl)
  BY <1>12, <1>16
<1>18. PICK P \in Nat : P = tbl[m + 1].params /\ Sums(blocks[b].params, P)
  BY <1>10, <1>11, <1>12, <1>16 DEF IsTable, Describes
<1>19. PICK R \in Nat : R = tbl[m + 1].results /\ Sums(blocks[b].results, R)
  BY <1>10, <1>11, <1>12, <1>16 DEF IsTable, Describes
<1>20. PICK f : f = SubFrame(blocks[b])
  OBVIOUS
<1>21. /\ f.err \in Errors \cup {Fine}
       /\ f.err = Fine => /\ Packed(f.syms, blocks[b].params, 0, 4 * P)
                         /\ Packed(f.syms, blocks[b].results, 4 * P, 4 * (P + R))
                         /\ Between(f.syms, blocks[b].locals, 4 * (P + R), (4 * (P + R)) + (4 * f.longs))
  BY <1>2, <1>10, <1>18, <1>19, <1>20, FrameBuilt
<1>22. pass = [at |-> name, todo |-> todo] /\ mainSymbols = syms /\ methods = tbl /\ offset = off /\ varPtr = ptr /\ frames = fr
  BY <1>1, <1>3 DEF Now
<1>23. Visited = b /\ Block = blocks[b]
  BY <1>7, <1>22 DEF Visited, Block
<1>24. SubFrame(Block) = f /\ Entry(mainSymbols[Block.name]) = m + 1
  BY <1>16, <1>20, <1>22, <1>23 DEF EntryOf
<1>25. CASE f.err # Fine
  <2>1. PICK why \in Errors : why = f.err
    BY <1>21, <1>25
  <2>2. pass' = [at |-> why, todo |-> {}] /\ UNCHANGED <<mainSymbols, methods, offset, varPtr, frames>>
    BY <1>24, <1>25, <2>1 DEF Method, Stop
  <2>3. Now(why, {}, syms, ptr, tbl, off, fr)'
    BY <1>22, <2>2 DEF Now
  <2>4. Right(why, {}, syms, ptr, tbl, off, fr)
    BY <1>4, <1>6, <1>11, <1>13, Stopped
  <2> QED
    BY <1>2, <2>3, <2>4, InvReached
<1>26. CASE f.err = Fine
  <2>1. PICK t : t = [tbl EXCEPT ![m + 1].code = off]
    OBVIOUS
  <2>2. PICK end : end = off + (RfvarSize(f.longs) + blocks[b].size + 1)
    OBVIOUS
  <2>3. PICK frame : frame = [block |-> b, syms |-> f.syms, longs |-> f.longs, code |-> off, end |-> end]
    OBVIOUS
  <2>4. PICK more : more = Append(fr, frame)
    OBVIOUS
  <2>5. Now(name, rest, syms, ptr, t, end, more)'
    <3>1. /\ methods' = [methods EXCEPT ![Entry(mainSymbols[Block.name])].code = offset]
          /\ frames' = Append(frames, [block |-> Visited, syms |-> f.syms, longs |-> f.longs, code |-> offset,
                                       end |-> offset + (RfvarSize(f.longs) + Block.size + 1)])
          /\ offset' = offset + (RfvarSize(f.longs) + Block.size + 1)
          /\ To(name, pass.todo \ {Visited})
          /\ UNCHANGED <<mainSymbols, varPtr>>
      BY <1>24, <1>26 DEF Method
    <3>2. methods' = t /\ frames' = more /\ offset' = end /\ mainSymbols' = syms /\ varPtr' = ptr
      BY <1>22, <1>23, <1>24, <2>1, <2>2, <2>3, <2>4, <3>1
    <3>3. pass' = [at |-> name, todo |-> rest]
      BY <1>8, <1>22, <1>23, <3>1 DEF To
    <3> QED
      BY <3>2, <3>3 DEF Now
  <2>6. IsMethods(t) /\ Len(t) = Len(tbl) /\ t[m + 1].code = off
    <3>1. PICK i : i = m + 1
      OBVIOUS
    <3>2. IsMethods(tbl) /\ i \in 1..Len(tbl) /\ t = CodeAt(tbl, i, off)
      BY <1>11, <1>17, <2>1, <3>1 DEF CodeAt
    <3>3. IsMethods(t) /\ Len(t) = Len(tbl) /\ t[i].code = off
      BY <3>2, CodeSet
    <3> QED
      BY <3>1, <3>3
  <2>7. \A j \in 1..Len(tbl) : SameHead(t[j], tbl[j]) /\ (j # m + 1 => t[j].code = tbl[j].code)
    <3>1. PICK i : i = m + 1
      OBVIOUS
    <3>2. IsMethods(tbl) /\ i \in 1..Len(tbl) /\ t = CodeAt(tbl, i, off)
      BY <1>11, <1>17, <2>1, <3>1 DEF CodeAt
    <3>3. \A j \in 1..Len(tbl) : SameHead(t[j], tbl[j]) /\ (j # i => t[j].code = tbl[j].code)
      BY <3>2, CodeSet
    <3> QED
      BY <3>1, <3>3
  <2>8. \E G : more \in Seq(G)
    BY <1>13, <2>4, Appended
  <2>9. Len(more) = m + 1 /\ more[m + 1] = frame /\ \A i \in 1..m : more[i] = fr[i]
    <3>1. Len(more) = Len(fr) + 1 /\ more[Len(fr) + 1] = frame
      BY <1>13, <2>4, Appended
    <3>2. \A i \in 1..Len(fr) : more[i] = fr[i]
      BY <1>13, <2>4, Appended
    <3> QED
      BY <1>14, <3>1, <3>2
  <2>10. frame.block = b /\ frame.syms = f.syms /\ frame.longs = f.longs /\ frame.code = off /\ frame.end = end
    BY <2>3
  <2>11. IsTable(Subs, n, syms, t)
    <3>1. Extends(syms, syms)
      BY DEF Extends
    <3>2. \A j \in 1..n : SameHead(t[j], tbl[j])
      <4>1. \A j \in 1..n : j \in 1..Len(tbl)
        BY <1>12
      <4> QED
        BY <2>7, <4>1
    <3> QED
      BY <1>11, <1>12, <3>1, <3>2, TableKept
  <2>12. TableRight(name, rest, syms, t, end)
    BY <1>11, <1>12, <2>6, <2>11 DEF TableRight
  <2>13. Compiled(C \cup {b}, syms, t, end, more)
    <3>1. ASSUME NEW i \in 1..Len(more)
          PROVE  /\ more[i].block \in C \cup {b} /\ EntryOf(syms, more[i].block) = i /\ t[i].code = more[i].code
                 /\ more[i].end = IF i = Len(more) THEN end ELSE more[i + 1].code
      <4>1. i \in 1..m \/ i = m + 1
        BY <2>9
      <4>2. CASE i = m + 1
        BY <1>16, <2>6, <2>9, <2>10, <4>2
      <4>3. CASE i \in 1..m
        <5>1. i # m + 1 /\ i \in 1..Len(tbl)
          BY <1>17, <4>3
        <5>2. more[i] = fr[i] /\ t[i].code = tbl[i].code
          BY <2>7, <2>9, <4>3, <5>1
        <5>3. /\ fr[i].block \in C /\ EntryOf(syms, fr[i].block) = i /\ tbl[i].code = fr[i].code
              /\ fr[i].end = IF i = m THEN off ELSE fr[i + 1].code
          BY <1>14, <1>15, <4>3 DEF Compiled
        <5>4. more[i].end = more[i + 1].code
          <6>1. CASE i = m
            BY <2>9, <2>10, <5>2, <5>3, <6>1
          <6>2. CASE i # m
            <7>1. i + 1 \in 1..m
              BY <4>3, <6>2
            <7>2. more[i + 1] = fr[i + 1]
              BY <2>9, <7>1
            <7> QED
              BY <5>2, <5>3, <6>2, <7>2
          <6> QED
            BY <6>1, <6>2
        <5> QED
          BY <2>9, <5>1, <5>2, <5>3, <5>4
      <4> QED
        BY <4>1, <4>2, <4>3
    <3>2. ASSUME NEW k \in C \cup {b} PROVE EntryOf(syms, k) \in 1..Len(more)
      <4>1. CASE k = b
        BY <1>16, <2>9, <4>1
      <4>2. CASE k \in C
        <5>1. EntryOf(syms, k) \in 1..m
          BY <1>14, <1>15, <4>2 DEF Compiled
        <5>2. EntryOf(syms, k) \in 1..(m + 1)
          BY <5>1
        <5> QED
          BY <2>9, <5>2
      <4> QED
        BY <4>1, <4>2
    <3> QED
      BY <3>1, <3>2 DEF Compiled
  <2>14. CodeRight(name, rest, syms, t, end, more)
    <3>1. Compiled(EnteredBy(name, rest), syms, t, end, more)
      BY <1>10, <2>13
    <3> QED
      BY <1>6, <2>8, <3>1 DEF CodeRight, EnteredBy
  <2>15. FramesRight(syms, t, more)
    <3>1. FramesRight(syms, t, fr)
      <4>1. m <= Len(tbl)
        BY <1>17
      <4>2. \A j \in 1..Len(tbl) : SameHead(t[j], tbl[j])
        BY <2>7
      <4> QED
        BY <1>4, <1>12, <1>14, <1>15, <4>1, <4>2, FramesKept
    <3>2. FrameRight(syms, t, frame)
      <4>1. t[m + 1].params = P /\ t[m + 1].results = R
        BY <1>17, <1>18, <1>19, <2>7 DEF SameHead
      <4>2. EntryOf(syms, frame.block) = m + 1 /\ frame.block \in Subs
        BY <1>10, <1>16, <2>10
      <4> QED
        BY <1>21, <1>26, <2>10, <4>1, <4>2 DEF FrameRight
    <3>3. ASSUME NEW i \in 1..Len(more) PROVE FrameRight(syms, t, more[i])
      <4>1. i \in 1..m \/ i = m + 1
        BY <2>9
      <4> QED
        BY <1>14, <2>9, <3>1, <3>2, <4>1 DEF FramesRight
    <3> QED
      BY <3>3 DEF FramesRight
  <2>16. VarsRight(name, rest, syms, ptr)
    <3>1. Extends(syms, syms)
      BY DEF Extends
    <3> QED
      BY <1>4, <1>5, <3>1, VarsStillRight
  <2>17. Right(name, rest, syms, ptr, t, end, more)
    BY <1>10, <2>12, <2>14, <2>15, <2>16 DEF Right
  <2> QED
    BY <1>2, <2>5, <2>17, InvReached
<1> QED
  BY <1>25, <1>26

(* The end of the PUB code keeps it.                                       *)
LEMMA EndPubCodeHolds == MemoryInv /\ EndPubCode => MemoryInv'
<1> SUFFICES ASSUME MemoryInv, EndPubCode PROVE MemoryInv'
  OBVIOUS
<1>1. PICK at, todo, syms, ptr, tbl, off, fr : Now(at, todo, syms, ptr, tbl, off, fr) /\ Right(at, todo, syms, ptr, tbl, off, fr)
  BY DEF MemoryInv
<1>2. AreBlocks /\ blocks' = blocks
  BY DEF MemoryInv, EndPubCode
<1>3. at = "pub_code" /\ todo = {}
  BY <1>1 DEF Now, EndPubCode, Ended
<1>4. /\ InPhase("pub_code", {}) /\ VarsRight("pub_code", {}, syms, ptr) /\ TableRight("pub_code", {}, syms, tbl, off)
      /\ CodeRight("pub_code", {}, syms, tbl, off, fr) /\ FramesRight(syms, tbl, fr)
  BY <1>1, <1>3 DEF Right
<1>5. "pub_code" \in Phases \ {"idle", "var"} /\ "pri_code" \in Phases \ {"idle", "var"} /\ "pri_code" \in Visiting /\ KindIn("pri_code") = "pri"
  BY DEF Phases, Visiting, KindIn
<1>6. ~PasmMode(blocks)
  <2>1. "pub_code" \notin Errors
    BY <1>5, PhaseIsNoError
  <2> QED
    BY <1>4, <2>1 DEF InPhase
<1>7. PICK rest : rest = BlocksOf("pri")
  OBVIOUS
<1>8. Now("pri_code", rest, syms, ptr, tbl, off, fr)'
  BY <1>1, <1>7 DEF EndPubCode, To, Now
<1>9. InPhase("pri_code", rest)
  BY <1>5, <1>6, <1>7, PhaseStarts
<1>10. VarsRight("pri_code", rest, syms, ptr)
  <2>1. Extends(syms, syms)
    BY DEF Extends
  <2> QED
    BY <1>4, <1>5, <2>1, VarsStillRight
<1>11. TableRight("pri_code", rest, syms, tbl, off)
  BY <1>4, <1>6 DEF TableRight
<1>12. CodeRight("pri_code", rest, syms, tbl, off, fr)
  <2>1. BlocksOf("pub") \ {} = BlocksOf("pub") /\ BlocksOf("pub") \cup (BlocksOf("pri") \ rest) = BlocksOf("pub")
    BY <1>7
  <2>2. Compiled(BlocksOf("pub"), syms, tbl, off, fr)
    BY <1>4, <2>1 DEF CodeRight
  <2> QED
    BY <1>4, <1>6, <2>1, <2>2 DEF CodeRight
<1>13. Right("pri_code", rest, syms, ptr, tbl, off, fr)
  BY <1>4, <1>9, <1>10, <1>11, <1>12 DEF Right
<1> QED
  BY <1>2, <1>8, <1>13, InvReached

(* The symbol by which the last long is found is that of the last method   *)
(* in the order of the table.                                              *)
LEMMA FinalIsLast ==
  ASSUME AreBlocks, BlocksOf("pub") # {}
  PROVE  \E b \in Subs : FinalSymbol = mainSymbols[blocks[b].name] /\ \A k \in Subs : k = b \/ Earlier(k, b)
<1>1. PICK n \in Nat : n = Len(blocks)
  BY DEF AreBlocks
<1>2. ASSUME NEW kind PROVE BlocksOf(kind) \in SUBSET (1..n)
  BY <1>1 DEF AreBlocks, BlocksOf
<1>3. \A k : k \in BlocksOf("pub") => blocks[k].kind = "pub"
  BY DEF BlocksOf
<1>4. \A k : k \in BlocksOf("pri") => blocks[k].kind = "pri"
  BY DEF BlocksOf
<1>5. CASE BlocksOf("pri") = {}
  <2>1. PICK b : b = Max(BlocksOf("pub"))
    OBVIOUS
  <2>2. BlocksOf("pub") \in SUBSET (1..n)
    BY <1>2
  <2>3. b \in BlocksOf("pub") /\ \A k \in BlocksOf("pub") : k <= b
    BY <2>1, <2>2, MaxIs
  <2>4. FinalSymbol = mainSymbols[blocks[b].name]
    BY <1>5, <2>1 DEF FinalSymbol, FinalOfPubs
  <2>5. ASSUME NEW k \in Subs PROVE k = b \/ Earlier(k, b)
    <3>1. k \in BlocksOf("pub")
      BY <1>5 DEF Subs
    <3>2. k \in 1..n /\ b \in 1..n /\ k <= b
      BY <2>2, <2>3, <3>1
    <3>3. k = b \/ k < b
      BY <3>2
    <3> QED
      BY <1>3, <2>3, <3>1, <3>3 DEF Earlier
  <2> QED
    BY <2>3, <2>4, <2>5 DEF Subs
<1>6. CASE BlocksOf("pri") # {}
  <2>1. PICK b : b = Max(BlocksOf("pri"))
    OBVIOUS
  <2>2. BlocksOf("pri") \in SUBSET (1..n)
    BY <1>2
  <2>3. b \in BlocksOf("pri") /\ \A k \in BlocksOf("pri") : k <= b
    BY <1>6, <2>1, <2>2, MaxIs
  <2>4. FinalSymbol = mainSymbols[blocks[b].name]
    BY <1>6, <2>1 DEF FinalSymbol
  <2>5. ASSUME NEW k \in Subs PROVE k = b \/ Earlier(k, b)
    <3>1. CASE k \in BlocksOf("pub")
      BY <1>3, <1>4, <2>3, <3>1 DEF Earlier
    <3>2. CASE k \in BlocksOf("pri")
      <4>1. k \in 1..n /\ b \in 1..n /\ k <= b
        BY <2>2, <2>3, <3>2
      <4>2. k = b \/ k < b
        BY <4>1
      <4> QED
        BY <1>4, <2>3, <3>2, <4>2 DEF Earlier
    <3> QED
      BY <3>1, <3>2 DEF Subs
  <2> QED
    BY <2>3, <2>4, <2>5 DEF Subs
<1> QED
  BY <1>5, <1>6

(* The end of the PRI code keeps it: the last long leads to the end.       *)
LEMMA EndPriCodeHolds == MemoryInv /\ EndPriCode => MemoryInv'
<1> SUFFICES ASSUME MemoryInv, EndPriCode PROVE MemoryInv'
  OBVIOUS
<1>1. PICK at, todo, syms, ptr, tbl, off, fr : Now(at, todo, syms, ptr, tbl, off, fr) /\ Right(at, todo, syms, ptr, tbl, off, fr)
  BY DEF MemoryInv
<1>2. AreBlocks /\ blocks' = blocks
  BY DEF MemoryInv, EndPriCode
<1>3. at = "pri_code" /\ todo = {}
  BY <1>1 DEF Now, EndPriCode, Ended
<1>4. /\ InPhase("pri_code", {}) /\ VarsRight("pri_code", {}, syms, ptr) /\ TableRight("pri_code", {}, syms, tbl, off)
      /\ CodeRight("pri_code", {}, syms, tbl, off, fr) /\ FramesRight(syms, tbl, fr)
  BY <1>1, <1>3 DEF Right
<1>5. "pri_code" \in Phases \ {"idle", "var"} /\ "done" \in Phases \ {"idle", "var"}
  BY DEF Phases, Visiting
<1>6. ~PasmMode(blocks)
  <2>1. "pri_code" \notin Errors
    BY <1>5, PhaseIsNoError
  <2> QED
    BY <1>4, <2>1 DEF InPhase
<1>7. IsMethods(tbl) /\ BlocksOf("pub") # {} /\ Len(tbl) >= 1 /\ IsTable(Subs, Len(tbl) - 1, syms, tbl)
  BY <1>4, <1>6 DEF TableRight
<1>8. PICK n \in Nat : n = Len(tbl) - 1 /\ Len(tbl) = n + 1
  <2>1. PICK E : tbl \in Seq(E)
    BY <1>7 DEF IsMethods
  <2>2. Len(tbl) \in Nat
    BY <2>1
  <2> QED
    BY <1>7, <2>2
<1>9. Compiled(Subs, syms, tbl, off, fr) /\ \E F : fr \in Seq(F)
  <2>1. BlocksOf("pub") \cup (BlocksOf("pri") \ {}) = Subs
    BY DEF Subs
  <2> QED
    BY <1>4, <2>1 DEF CodeRight
<1>10. Len(fr) \in Nat
  BY <1>9
<1>11. Len(fr) = n
  BY <1>2, <1>7, <1>8, <1>9, <1>10, AllCompiled
<1>12. PICK b \in Subs : FinalSymbol = mainSymbols[blocks[b].name] /\ \A k \in Subs : k = b \/ Earlier(k, b)
  BY <1>2, <1>7, FinalIsLast
<1>13. n >= 1
  <2>1. EntryOf(syms, b) \in 1..n
    BY <1>7, <1>8 DEF IsTable
  <2> QED
    BY <2>1
<1>14. EntryOf(syms, b) = n
  BY <1>2, <1>7, <1>8, <1>12, <1>13, LastEntry
<1>15. Entry(FinalSymbol) = n
  BY <1>1, <1>12, <1>14 DEF Now, EntryOf
<1>16. PICK t : t = [tbl EXCEPT ![n + 1].code = off]
  OBVIOUS
<1>17. Now("done", {}, syms, ptr, t, off, fr)'
  <2>1. methods' = t
    BY <1>1, <1>15, <1>16 DEF EndPriCode, Now
  <2> QED
    BY <1>1, <2>1 DEF EndPriCode, Stop, Now
<1>18. n + 1 \in 1..Len(tbl)
  BY <1>8
<1>19. IsMethods(t) /\ Len(t) = Len(tbl) /\ t[n + 1].code = off
  <2>1. PICK i : i = n + 1
    OBVIOUS
  <2>2. IsMethods(tbl) /\ i \in 1..Len(tbl) /\ t = CodeAt(tbl, i, off)
    BY <1>7, <1>18, <1>16, <2>1 DEF CodeAt
  <2>3. IsMethods(t) /\ Len(t) = Len(tbl) /\ t[i].code = off
    BY <2>2, CodeSet
  <2> QED
    BY <2>1, <2>3
<1>20. \A j \in 1..Len(tbl) : SameHead(t[j], tbl[j]) /\ (j # n + 1 => t[j].code = tbl[j].code)
  <2>1. PICK i : i = n + 1
    OBVIOUS
  <2>2. IsMethods(tbl) /\ i \in 1..Len(tbl) /\ t = CodeAt(tbl, i, off)
    BY <1>7, <1>18, <1>16, <2>1 DEF CodeAt
  <2>3. \A j \in 1..Len(tbl) : SameHead(t[j], tbl[j]) /\ (j # i => t[j].code = tbl[j].code)
    BY <2>2, CodeSet
  <2> QED
    BY <2>1, <2>3
<1>21. \A j \in 1..n : j \in 1..Len(tbl) /\ j # n + 1
  BY <1>8
<1>22. \A j \in 1..n : SameHead(t[j], tbl[j]) /\ t[j].code = tbl[j].code
  BY <1>20, <1>21
<1>23. InPhase("done", {})
  <2>1. "done" \in Phases
    BY <1>5
  <2>2. "done" \notin Visiting
    BY DEF Visiting
  <2> QED
    BY <1>6, <2>1, <2>2 DEF InPhase
<1>24. Extends(syms, syms)
  BY DEF Extends
<1>25. VarsRight("done", {}, syms, ptr)
  BY <1>4, <1>5, <1>24, VarsStillRight
<1>26. TableRight("done", {}, syms, t, off)
  <2>1. IsTable(Subs, n, syms, t)
    BY <1>7, <1>8, <1>22, <1>24, TableKept
  <2> QED
    BY <1>7, <1>8, <1>19, <2>1 DEF TableRight
<1>27. CodeRight("done", {}, syms, t, off, fr)
  <2>1. Compiled(Subs, syms, t, off, fr)
    BY <1>9, <1>11, <1>22 DEF Compiled
  <2>2. t[Len(t)].code = off
    BY <1>8, <1>19
  <2> QED
    BY <1>6, <1>9, <2>1, <2>2 DEF CodeRight
<1>28. FramesRight(syms, t, fr)
  <2>1. n <= n
    OBVIOUS
  <2>2. \A j \in 1..n : SameHead(t[j], tbl[j])
    BY <1>22
  <2> QED
    BY <1>4, <1>9, <1>11, <2>1, <2>2, FramesKept
<1>29. Right("done", {}, syms, ptr, t, off, fr)
  BY <1>23, <1>25, <1>26, <1>27, <1>28 DEF Right
<1> QED
  BY <1>2, <1>17, <1>29, InvReached

(* A step that changes nothing keeps it.                                   *)
LEMMA StaysPut == MemoryInv /\ UNCHANGED declVars => MemoryInv'
<1> SUFFICES ASSUME MemoryInv, UNCHANGED declVars PROVE MemoryInv'
  OBVIOUS
<1>1. PICK at, todo, syms, ptr, tbl, off, fr : Now(at, todo, syms, ptr, tbl, off, fr) /\ Right(at, todo, syms, ptr, tbl, off, fr)
  BY DEF MemoryInv
<1>2. AreBlocks /\ blocks' = blocks
  BY DEF MemoryInv, declVars
<1>3. Now(at, todo, syms, ptr, tbl, off, fr)'
  BY <1>1 DEF Now, declVars
<1> QED
  BY <1>1, <1>2, <1>3, InvReached

(* Every step keeps the invariant.                                         *)
LEMMA NextHolds == MemoryInv /\ [DeclarationsNext]_declVars => MemoryInv'
<1> SUFFICES ASSUME MemoryInv, [DeclarationsNext]_declVars PROVE MemoryInv'
  OBVIOUS
<1>1. CASE Begin \/ VarBlock \/ EndVar
  BY <1>1, BeginHolds, VarBlockHolds, EndVarHolds
<1>2. CASE MethodId("pubs")
  BY <1>2, MethodIdHolds
<1>3. CASE MethodId("pris")
  BY <1>3, MethodIdHolds
<1>4. CASE EndPubs \/ EndPris \/ DatBlock \/ EndDat
  BY <1>4, EndPubsHolds, EndPrisHolds, DatBlockHolds, EndDatHolds
<1>5. CASE Method("pub_code")
  BY <1>5, MethodHolds
<1>6. CASE Method("pri_code")
  BY <1>6, MethodHolds
<1>7. CASE EndPubCode \/ EndPriCode
  BY <1>7, EndPubCodeHolds, EndPriCodeHolds
<1>8. CASE UNCHANGED declVars
  BY <1>8, StaysPut
<1> QED
  BY <1>1, <1>2, <1>3, <1>4, <1>5, <1>6, <1>7, <1>8 DEF DeclarationsNext

-----------------------------------------------------------------------------
(* What the invariant says of the variables, the frames and the table.     *)

(* It says that the variables have bytes of their own,                     *)
LEMMA VariablesAreOwn == MemoryInv => VariablesOwn
<1> SUFFICES ASSUME MemoryInv, pass.at \notin Errors \cup {"idle", "var"}
             PROVE  varPtr % 4 = 0 /\ \A k \in BlocksOf("var") : \A j \in Variables(k) : OwnBytes(k, j) /\ Follow(k, j)
  BY DEF VariablesOwn
<1>1. PICK at, todo, syms, ptr, tbl, off, fr : Now(at, todo, syms, ptr, tbl, off, fr) /\ Right(at, todo, syms, ptr, tbl, off, fr)
  BY DEF MemoryInv
<1>2. pass.at = at /\ mainSymbols = syms /\ varPtr = ptr
  BY <1>1 DEF Now
<1>3. at \notin Errors /\ at # "idle" /\ at # "var"
  BY <1>2
<1>4. VarsIn(syms, ptr, BlocksOf("var"), 0, 0) /\ ptr % 4 = 0
  BY <1>1, <1>3 DEF Right, VarsRight, VarSeen
<1>5. \A k \in BlocksOf("var") : \A j \in Variables(k) : In(BlocksOf("var"), 0, 0, k, j)
  BY DEF In
<1>6. ASSUME NEW k \in BlocksOf("var"), NEW j \in Variables(k) PROVE OwnBytes(k, j)
  <2>1. Own(syms, ptr, k, j)
    BY <1>4, <1>5 DEF VarsIn
  <2> QED
    BY <1>2, <2>1 DEF Own, OwnBytes, Symbol
<1>7. ASSUME NEW k \in BlocksOf("var"), NEW j \in Variables(k) PROVE Follow(k, j)
  <2>1. ASSUME NEW l \in BlocksOf("var"), NEW h \in Variables(l) PROVE Behind(syms, k, j, l, h)
    BY <1>4, <1>5 DEF VarsIn
  <2> QED
    BY <1>2, <2>1 DEF Behind, Follow, Symbol
<1> QED
  BY <1>2, <1>4, <1>6, <1>7

(* that the frames agree with the table,                                   *)
LEMMA FramesDoAgree == MemoryInv => FramesAgree
<1> SUFFICES ASSUME MemoryInv PROVE FramesAgree
  OBVIOUS
<1>1. PICK at, todo, syms, ptr, tbl, off, fr : Now(at, todo, syms, ptr, tbl, off, fr) /\ Right(at, todo, syms, ptr, tbl, off, fr)
  BY DEF MemoryInv
<1>2. mainSymbols = syms /\ methods = tbl /\ frames = fr
  BY <1>1 DEF Now
<1>3. DOMAIN fr = 1..Len(fr)
  <2>1. PICK F : fr \in Seq(F)
    BY <1>1 DEF Right, CodeRight
  <2> QED
    BY <2>1
<1>4. ASSUME NEW n \in DOMAIN fr PROVE FrameRight(syms, tbl, fr[n])
  BY <1>1, <1>3 DEF Right, FramesRight
<1>5. ASSUME NEW n \in DOMAIN fr PROVE FrameAgrees(fr[n])
  BY <1>2, <1>4 DEF FrameRight, FrameAgrees, EntryOf
<1> QED
  BY <1>2, <1>5 DEF FramesAgree

(* and that the table leads to the code.                                   *)
LEMMA TableDoesLead == MemoryInv => TableLeadsToCode
<1> SUFFICES ASSUME MemoryInv, pass.at = "done", ~PasmMode(blocks)
             PROVE  /\ Len(methods) = Len(frames) + 1 /\ methods[Len(methods)].code = offset
                    /\ \A n \in DOMAIN frames :
                         /\ methods[n].code = frames[n].code /\ methods[n + 1].code = frames[n].end
                         /\ methods[n].of = blocks[frames[n].block].name
                         /\ (methods[n].public <=> blocks[frames[n].block].kind = "pub")
                         /\ Entry(mainSymbols[methods[n].of]) = n
                    /\ {frames[n].block : n \in DOMAIN frames} = BlocksOf("pub") \cup BlocksOf("pri")
  BY DEF TableLeadsToCode
<1>1. PICK at, todo, syms, ptr, tbl, off, fr : Now(at, todo, syms, ptr, tbl, off, fr) /\ Right(at, todo, syms, ptr, tbl, off, fr)
  BY DEF MemoryInv
<1>2. at = "done" /\ mainSymbols = syms /\ methods = tbl /\ offset = off /\ frames = fr
  BY <1>1 DEF Now
<1>3. AreBlocks
  BY DEF MemoryInv
<1>4. PICK F : fr \in Seq(F)
  BY <1>1 DEF Right, CodeRight
<1>5. PICK E : tbl \in Seq(E)
  BY <1>1 DEF Right, TableRight, IsMethods
<1>6. PICK m \in Nat : m = Len(fr) /\ DOMAIN fr = 1..m
  BY <1>4
<1>7. PICK n \in Nat : n = Len(tbl) - 1 /\ Len(tbl) = n + 1 /\ IsTable(Subs, n, syms, tbl)
  <2>1. Len(tbl) >= 1 /\ IsTable(Subs, Len(tbl) - 1, syms, tbl)
    BY <1>1, <1>2 DEF Right, TableRight
  <2>2. Len(tbl) \in Nat
    BY <1>5
  <2>3. Len(tbl) - 1 \in Nat /\ Len(tbl) = (Len(tbl) - 1) + 1
    BY <2>1, <2>2
  <2> QED
    BY <2>1, <2>3
<1>8. Compiled(Subs, syms, tbl, off, fr) /\ tbl[Len(tbl)].code = off
  BY <1>1, <1>2 DEF Right, CodeRight
<1>9. m = n
  BY <1>3, <1>6, <1>7, <1>8, AllCompiled
<1>10. \A i \in 1..m : /\ fr[i].block \in Subs /\ EntryOf(syms, fr[i].block) = i /\ tbl[i].code = fr[i].code
                       /\ fr[i].end = IF i = m THEN off ELSE fr[i + 1].code
  BY <1>6, <1>8 DEF Compiled
<1>11. ASSUME NEW i \in 1..m PROVE tbl[i + 1].code = fr[i].end
  <2>1. CASE i = m
    BY <1>7, <1>8, <1>9, <1>10, <2>1
  <2>2. CASE i # m
    <3>1. i + 1 \in 1..m
      BY <2>2
    <3>2. PICK j : j = i + 1
      OBVIOUS
    <3>3. tbl[j].code = fr[j].code
      BY <1>10, <3>1, <3>2
    <3> QED
      BY <1>10, <2>2, <3>2, <3>3
  <2> QED
    BY <2>1, <2>2
<1>12. ASSUME NEW i \in 1..m
       PROVE  /\ tbl[i].of = blocks[fr[i].block].name /\ (tbl[i].public <=> blocks[fr[i].block].kind = "pub")
              /\ Entry(syms[tbl[i].of]) = i
  <2>1. PICK k \in Subs : k = fr[i].block
    BY <1>10
  <2>2. EntryOf(syms, k) = i
    BY <1>10, <2>1
  <2>3. Describes(tbl[i], k)
    BY <1>7, <2>2 DEF IsTable
  <2>4. tbl[i].of = blocks[k].name /\ (tbl[i].public <=> blocks[k].kind = "pub")
    BY <2>3 DEF Describes
  <2>5. Entry(syms[tbl[i].of]) = i
    BY <2>2, <2>4 DEF EntryOf
  <2> QED
    BY <2>1, <2>4, <2>5
<1>13. {fr[i].block : i \in 1..m} = Subs
  <2>1. ASSUME NEW k \in Subs PROVE k \in {fr[i].block : i \in 1..m}
    <3>1. PICK i \in 1..m : i = EntryOf(syms, k)
      BY <1>6, <1>8 DEF Compiled
    <3>2. PICK l \in Subs : l = fr[i].block
      BY <1>10
    <3>3. EntryOf(syms, l) = EntryOf(syms, k)
      BY <1>10, <3>1, <3>2
    <3>4. l = k
      BY <1>3, <1>7, <3>3, EntriesApart
    <3> QED
      BY <3>2, <3>4
  <2> QED
    BY <1>10, <2>1
<1>14. Subs = BlocksOf("pub") \cup BlocksOf("pri")
  BY DEF Subs
<1>15. Len(methods) = Len(frames) + 1 /\ methods[Len(methods)].code = offset
  BY <1>2, <1>6, <1>7, <1>8, <1>9
<1>16. DOMAIN frames = 1..m
  BY <1>2, <1>6
<1>17. ASSUME NEW i \in 1..m
       PROVE  /\ methods[i].code = frames[i].code /\ methods[i + 1].code = frames[i].end
              /\ methods[i].of = blocks[frames[i].block].name
              /\ (methods[i].public <=> blocks[frames[i].block].kind = "pub")
              /\ Entry(mainSymbols[methods[i].of]) = i
  BY <1>2, <1>10, <1>11, <1>12
<1>18. {frames[i].block : i \in 1..m} = BlocksOf("pub") \cup BlocksOf("pri")
  BY <1>2, <1>13, <1>14
<1> QED
  BY <1>15, <1>16, <1>17, <1>18

(* For any declarations and any limits, every variable has the type its    *)
(* line gives it and bytes of its own, a frame is what the callers of its  *)
(* method take it for, and every entry of the table leads to the code of   *)
(* its own method (spinResolver.ts:767, 3272, 3302, 3553, 3731, 3735).     *)
THEOREM MemoryIsOwned == DeclarationsSpec => []MemoryOwned
<1>1. AreBlocks /\ DeclarationsInit => MemoryInv
  BY InitHolds
<1>2. MemoryInv /\ [DeclarationsNext]_declVars => MemoryInv'
  BY NextHolds
<1>3. MemoryInv => MemoryOwned
  BY VariablesAreOwn, FramesDoAgree, TableDoesLead DEF MemoryOwned
<1> QED
  BY <1>1, <1>2, <1>3, PTL DEF DeclarationsSpec

-----------------------------------------------------------------------------
(* The names of the blocks in S, and of the first a items of block b.      *)

PlaceIn(S, b, a, k, j) == k \in DOMAIN blocks /\ ((k \in S /\ j \in DeclaredIn(k)) \/ (k = b /\ j \in Variables(b) /\ j <= a))
NamesSeen(syms, S, b, a) ==
  /\ \A n \in DOMAIN syms : \E k, j : PlaceIn(S, b, a, k, j) /\ NameAt(k, j) = n
  /\ \A k, j : PlaceIn(S, b, a, k, j) => NameAt(k, j) \in DOMAIN syms
  /\ \A k, j, l, h : PlaceIn(S, b, a, k, j) /\ PlaceIn(S, b, a, l, h) /\ NameAt(k, j) = NameAt(l, h) => k = l /\ j = h
PointersSeen(S, b, a) ==
  \A k, j : PlaceIn(S, b, a, k, j) /\ k \in BlocksOf("var") /\ Meant(k, j).ptr => blocks[k].items[j].count = -1

(* A VAR block declares the names of its items.                            *)
LEMMA VarDeclares == ASSUME NEW b \in BlocksOf("var") PROVE b \in DOMAIN blocks /\ DeclaredIn(b) = Variables(b)
  BY DEF BlocksOf, DeclaredIn

(* An item has a number behind 0.                                          *)
LEMMA ItemNames ==
  ASSUME NEW b \in BlocksOf("var"), AreBlocks, NEW j \in Variables(b)
  PROVE  j \in Nat /\ j # 0 /\ NameAt(b, j) = blocks[b].items[j].name
<1>1. b \in DOMAIN blocks /\ blocks[b].kind = "var"
  BY DEF BlocksOf
<1>2. AreItems(blocks[b].items) /\ j \in DOMAIN blocks[b].items
  BY <1>1 DEF AreBlocks, Variables
<1>3. PICK n \in Nat : n = Len(blocks[b].items) /\ DOMAIN blocks[b].items = 1..n
  BY <1>2 DEF AreItems
<1>4. j \in Nat /\ j # 0
  BY <1>2, <1>3
<1> QED
  BY <1>4 DEF NameAt

(* A name that is there before its place is reached has two meanings.      *)
LEMMA Clash ==
  ASSUME NEW syms, NEW S, NEW b, NEW a, NamesSeen(syms, S, b, a), b \in BlocksOf("var") \/ b = 0, AreBlocks,
         NEW k \in DOMAIN blocks, NEW j \in DeclaredIn(k), ~PlaceIn(S, b, a, k, j), NameAt(k, j) \in DOMAIN syms
  PROVE  ~Legal
<1>1. PICK l, h : PlaceIn(S, b, a, l, h) /\ NameAt(l, h) = NameAt(k, j)
  BY DEF NamesSeen
<1>2. l \in DOMAIN blocks /\ h \in DeclaredIn(l)
  <2>1. CASE l \in S /\ h \in DeclaredIn(l)
    BY <1>1, <2>1 DEF PlaceIn
  <2>2. CASE l = b /\ h \in Variables(b)
    <3>1. b \in DOMAIN blocks
      BY <1>1, <2>2 DEF PlaceIn
    <3>2. b # 0
      BY <3>1 DEF AreBlocks
    <3> QED
      BY <2>2, <3>1, <3>2, VarDeclares
  <2> QED
    BY <1>1, <2>1, <2>2 DEF PlaceIn
<1>3. ~(k = l /\ j = h)
  BY <1>1
<1> QED
  BY <1>1, <1>2, <1>3 DEF Legal, GlobalNamesApart

(* A new name comes in with its place.                                     *)
LEMMA NameComesIn ==
  ASSUME NEW syms, NEW S, NEW b, NEW a, NamesSeen(syms, S, b, a),
         NEW Z, NEW c, NEW d, NEW x, NEW y,
         \A k, j : PlaceIn(Z, c, d, k, j) <=> PlaceIn(S, b, a, k, j) \/ (k = x /\ j = y),
         NameAt(x, y) \notin DOMAIN syms, NEW more, DOMAIN more = DOMAIN syms \cup {NameAt(x, y)}
  PROVE  NamesSeen(more, Z, c, d)
<1>1. ASSUME NEW n \in DOMAIN more PROVE \E k, j : PlaceIn(Z, c, d, k, j) /\ NameAt(k, j) = n
  <2>1. CASE n \in DOMAIN syms
    <3>1. PICK k, j : PlaceIn(S, b, a, k, j) /\ NameAt(k, j) = n
      BY <2>1 DEF NamesSeen
    <3> QED
      BY <3>1
  <2>2. CASE n = NameAt(x, y)
    <3>1. PlaceIn(Z, c, d, x, y)
      OBVIOUS
    <3> QED
      BY <2>2, <3>1
  <2> QED
    BY <2>1, <2>2
<1>2. ASSUME NEW k, NEW j, PlaceIn(Z, c, d, k, j) PROVE NameAt(k, j) \in DOMAIN more
  <2>1. PlaceIn(S, b, a, k, j) => NameAt(k, j) \in DOMAIN syms
    BY DEF NamesSeen
  <2> QED
    BY <1>2, <2>1
<1>3. ASSUME NEW k, NEW j, NEW l, NEW h, PlaceIn(Z, c, d, k, j), PlaceIn(Z, c, d, l, h), NameAt(k, j) = NameAt(l, h)
      PROVE  k = l /\ j = h
  <2>1. PlaceIn(S, b, a, k, j) => NameAt(k, j) \in DOMAIN syms
    BY DEF NamesSeen
  <2>2. PlaceIn(S, b, a, l, h) => NameAt(l, h) \in DOMAIN syms
    BY DEF NamesSeen
  <2>3. PlaceIn(S, b, a, k, j) /\ PlaceIn(S, b, a, l, h) => k = l /\ j = h
    BY <1>3 DEF NamesSeen
  <2> QED
    BY <1>3, <2>1, <2>2, <2>3
<1> QED
  BY <1>1, <1>2, <1>3 DEF NamesSeen

(* The same places with the same names are seen as well.                   *)
LEMMA SamePlaces ==
  ASSUME NEW syms, NEW S, NEW b, NEW a, NamesSeen(syms, S, b, a), PointersSeen(S, b, a),
         NEW Z, NEW c, NEW d, \A k, j : PlaceIn(Z, c, d, k, j) <=> PlaceIn(S, b, a, k, j)
  PROVE  NamesSeen(syms, Z, c, d) /\ PointersSeen(Z, c, d)
<1>1. NamesSeen(syms, Z, c, d)
  BY DEF NamesSeen
<1>2. PointersSeen(Z, c, d)
  BY DEF PointersSeen
<1> QED
  BY <1>1, <1>2

-----------------------------------------------------------------------------
(* What a VAR block is refused for.                                        *)

VarNames(s, S, b, a) ==
  /\ s.err \in {Fine, "name", "array", "space"}
  /\ s.err = Fine => NamesSeen(s.syms, S, b, a) /\ PointersSeen(S, b, a)
  /\ s.err \in {"name", "array"} => ~Legal

(* One more item is refused for its name or as an array only if the object *)
(* is not legal.                                                           *)
LEMMA VarNamesRead ==
  ASSUME NEW K, NEW S, NEW b \in BlocksOf("var"), b \notin S, NEW a \in Nat, AreBlocks,
         a + 1 \in DOMAIN blocks[b].items, NEW s, VarState(s, K, b, a), VarNames(s, S, b, a)
  PROVE  VarNames(Read("variable", s, blocks[b].items[a + 1]), S, b, a + 1)
<1>1. PICK i : i = blocks[b].items[a + 1]
  OBVIOUS
<1>2. PICK line : line = [s EXCEPT !.carried = IF i.first THEN LongByDefault ELSE @]
  OBVIOUS
<1>3. PICK t : t = VarItem(s, i)
  OBVIOUS
<1>4. Read("variable", s, i) = t
  BY <1>3 DEF Read
<1>5. AreItems(blocks[b].items) /\ b \in DOMAIN blocks
  BY DEF BlocksOf, AreBlocks
<1>6. CASE s.err # Fine
  <2>1. t = s
    BY <1>3, <1>6 DEF VarItem
  <2> QED
    BY <1>1, <1>4, <1>6, <2>1 DEF VarNames
<1>7. PICK c : c = IF i.first THEN LongByDefault ELSE s.carried
  OBVIOUS
<1>a. s = [ptr |-> s.ptr, syms |-> s.syms, carried |-> s.carried, err |-> s.err]
  BY DEF VarState
<1>8. line = [ptr |-> s.ptr, syms |-> s.syms, carried |-> c, err |-> s.err]
  BY <1>2, <1>7, <1>a
<1>b. s.err = Fine => Carrying(s.carried, b, a) /\ NamesSeen(s.syms, S, b, a) /\ PointersSeen(S, b, a)
  BY DEF VarState, VarNames
<1>c. "space" # Fine /\ "name" # Fine /\ "array" # Fine
  <2>1. "space" \in Errors /\ "name" \in Errors /\ "array" \in Errors
    BY DEF Errors
  <2> QED
    BY <2>1, NotFine
<1>9. CASE s.err = Fine /\ i.name = Nameless
  <2>1. t = AlignVar(line, i.align)
    BY <1>2, <1>3, <1>9 DEF VarItem
  <2>2. t.err = "space" \/ (t.err = Fine /\ t.syms = s.syms)
    <3>1. line.err = Fine /\ line.syms = s.syms
      BY <1>8, <1>9
    <3>2. t = [line EXCEPT !.err = "space"] \/ t = [line EXCEPT !.ptr = Aligned(line.ptr, i.align)]
      BY <2>1, <3>1 DEF AlignVar, Refuse
    <3>3. [line EXCEPT !.err = "space"].err = "space"
      BY <1>8
    <3>4. PICK p : p = Aligned(line.ptr, i.align)
      OBVIOUS
    <3>5. [line EXCEPT !.ptr = p].err = Fine /\ [line EXCEPT !.ptr = p].syms = s.syms
      BY <1>8, <3>1
    <3> QED
      BY <3>2, <3>3, <3>4, <3>5
  <2>3. a + 1 \notin Variables(b)
    BY <1>1, <1>9 DEF Variables
  <2>4. ASSUME NEW k, NEW j PROVE PlaceIn(S, b, a + 1, k, j) <=> PlaceIn(S, b, a, k, j)
    <3>1. ASSUME k = b, j \in Variables(b) PROVE j <= a + 1 <=> j <= a
      <4>1. j \in Nat /\ j # a + 1
        BY <2>3, <3>1, ItemNames
      <4> QED
        BY <4>1
    <3> QED
      BY <3>1 DEF PlaceIn
  <2>5. NamesSeen(s.syms, S, b, a + 1) /\ PointersSeen(S, b, a + 1)
    BY <1>9, <1>b, <2>4, SamePlaces
  <2>6. t.err \in {Fine, "space"} /\ (t.err = Fine => NamesSeen(t.syms, S, b, a + 1) /\ PointersSeen(S, b, a + 1))
    BY <2>2, <2>5, <1>c
  <2>7. VarNames(t, S, b, a + 1)
    BY <2>6, <1>c DEF VarNames
  <2> QED
    BY <1>1, <1>4, <2>7
<1>10. CASE s.err = Fine /\ i.name # Nameless
  <2>1. PICK d : d = Carried(c, i)
    OBVIOUS
  <2>2. PICK u : u = [ptr |-> s.ptr, syms |-> s.syms, carried |-> d, err |-> s.err]
    OBVIOUS
  <2>3. t = Recorded(u, i, d)
    <3>1. line = [s EXCEPT !.carried = c] /\ line.carried = c
      BY <1>2, <1>7, <1>8
    <3>2. [line EXCEPT !.carried = Carried(@, i)] = u
      BY <1>8, <2>1, <2>2
    <3> QED
      BY <1>2, <1>3, <1>10, <2>1, <3>1, <3>2 DEF VarItem
  <2>4. Carrying(d, b, a + 1)
    <3>1. Carrying(s.carried, b, a)
      BY <1>10, <1>b
    <3>2. i.first => c = LongByDefault
      BY <1>7
    <3>3. ~i.first => c = s.carried
      BY <1>7
    <3> QED
      BY <1>1, <1>5, <1>10, <2>1, <3>1, <3>2, <3>3, CarriedOn
  <2>5. d.type.ptr = Meant(b, a + 1).ptr
    BY <2>4 DEF Carrying, Type
  <2>6. a + 1 \in Variables(b)
    BY <1>1, <1>10 DEF Variables
  <2>7. NameAt(b, a + 1) = i.name /\ a + 1 \in DeclaredIn(b)
    BY <1>1, <2>6, ItemNames, VarDeclares
  <2>8. ~PlaceIn(S, b, a, b, a + 1)
    BY DEF PlaceIn
  <2>9. ASSUME NEW k, NEW j PROVE PlaceIn(S, b, a + 1, k, j) <=> PlaceIn(S, b, a, k, j) \/ (k = b /\ j = a + 1)
    <3>1. ASSUME k = b, j \in Variables(b) PROVE j <= a + 1 <=> j <= a \/ j = a + 1
      <4>1. j \in Nat
        BY <3>1, ItemNames
      <4> QED
        BY <4>1
    <3> QED
      BY <1>5, <2>6, <3>1 DEF PlaceIn
  <2>10. CASE ~Isnt(i.name, s.syms)
    <3>1. t.err = "name"
      BY <2>2, <2>3, <2>10, <1>10 DEF Recorded, Refuse
    <3>2. NameAt(b, a + 1) \in DOMAIN s.syms
      BY <2>7, <2>10 DEF Isnt
    <3>3. ~Legal
      <4>1. NamesSeen(s.syms, S, b, a)
        BY <1>10, <1>b
      <4> QED
        BY <1>5, <2>7, <2>8, <3>2, <4>1, Clash
    <3> QED
      BY <1>1, <1>4, <1>c, <3>1, <3>3 DEF VarNames
  <2>11. CASE Isnt(i.name, s.syms) /\ d.type.ptr /\ i.count # -1
    <3>1. t.err = "array"
      BY <2>2, <2>3, <2>11, <1>10 DEF Recorded, Refuse
    <3>2. Meant(b, a + 1).ptr /\ blocks[b].items[a + 1].count # -1
      BY <1>1, <2>5, <2>11
    <3>3. ~Legal
      BY <2>6, <3>2 DEF Legal, NoPointerArray
    <3> QED
      BY <1>1, <1>4, <1>c, <3>1, <3>3 DEF VarNames
  <2>12. CASE Isnt(i.name, s.syms) /\ ~(d.type.ptr /\ i.count # -1)
    <3>1. PICK size : size = Times(i) * d.size
      OBVIOUS
    <3>2. PICK sym : sym = [type |-> d.type, id |-> d.id, at |-> u.ptr, size |-> size]
      OBVIOUS
    <3>3. u.err = Fine /\ u.syms = s.syms
      BY <1>10, <2>2
    <3>4. t = Refuse(u, "space") \/ t = [u EXCEPT !.ptr = @ + size, !.syms = With(@, i.name, sym)]
      BY <2>3, <2>12, <3>1, <3>2, <3>3 DEF Recorded
    <3>5. Refuse(u, "space").err = "space"
      BY <2>2, <3>3 DEF Refuse
    <3>6. PICK more : more = With(s.syms, i.name, sym)
      OBVIOUS
    <3>a. PICK end : end = u.ptr + size
      OBVIOUS
    <3>b. [u EXCEPT !.ptr = @ + size, !.syms = With(@, i.name, sym)] = [u EXCEPT !.ptr = end, !.syms = more]
      BY <3>3, <3>6, <3>a
    <3>7. [u EXCEPT !.ptr = end, !.syms = more].err = Fine /\ [u EXCEPT !.ptr = end, !.syms = more].syms = more
      BY <2>2, <3>3
    <3>8. t.err = "space" \/ (t.err = Fine /\ t.syms = more)
      BY <3>4, <3>5, <3>7, <3>b
    <3>9. DOMAIN more = DOMAIN s.syms \cup {NameAt(b, a + 1)}
      BY <2>7, <3>6 DEF With
    <3>10. NamesSeen(more, S, b, a + 1)
      <4>1. NameAt(b, a + 1) \notin DOMAIN s.syms
        BY <2>7, <2>12 DEF Isnt
      <4> QED
        BY <1>10, <1>b, <2>9, <3>9, <4>1, NameComesIn
    <3>11. PointersSeen(S, b, a + 1)
      <4>1. Meant(b, a + 1).ptr => blocks[b].items[a + 1].count = -1
        BY <1>1, <2>5, <2>12
      <4> QED
        BY <1>10, <1>b, <2>9, <4>1 DEF PointersSeen
    <3>12. VarNames(t, S, b, a + 1)
      BY <1>c, <3>8, <3>10, <3>11 DEF VarNames
    <3> QED
      BY <1>1, <1>4, <3>12
  <2> QED
    BY <2>10, <2>11, <2>12
<1> QED
  BY <1>6, <1>9, <1>10

(* So is a whole VAR block.                                                *)
LEMMA VarBlockNames ==
  ASSUME NEW S, NEW b \in BlocksOf("var"), AreBlocks, b \notin S, \A k \in S : k < b,
         varPtr \in Nat, 4 <= varPtr, VarsIn(mainSymbols, varPtr, S, b, 0),
         NamesSeen(mainSymbols, S, 0, 0), PointersSeen(S, 0, 0)
  PROVE  VarNames(CompileVarBlock(blocks[b]), S \cup {b}, 0, 0)
<1>1. PICK s : s = [ptr |-> varPtr, syms |-> mainSymbols, carried |-> LongByDefault, err |-> Fine]
  OBVIOUS
<1>2. PICK n : n = Len(blocks[b].items)
  OBVIOUS
<1>3. AreItems(blocks[b].items) /\ b \in DOMAIN blocks
  BY DEF BlocksOf, AreBlocks
<1>4. n \in Nat /\ DOMAIN blocks[b].items = 1..n
  BY <1>2, <1>3 DEF AreItems
<1>5. PICK r : Reads("variable", s, blocks[b].items, r) /\ ReadAll("variable", s, blocks[b].items) = r[n]
  BY <1>2, <1>4, ReadAllReads
<1>a. 0 \notin DOMAIN blocks
  BY DEF AreBlocks
<1>b. ASSUME NEW j \in Variables(b) PROVE j \in 1..n /\ j <= n /\ ~(j <= 0)
  <2>1. j \in 1..n
    BY <1>4 DEF Variables
  <2> QED
    BY <1>4, <2>1
<1> DEFINE G == {a \in 0..n : VarState(r[a], S, b, a) /\ VarNames(r[a], S, b, a)}
<1>6. 0 \in G
  <2>1. Carrying(LongByDefault, b, 0)
    BY MeantFirst, LongAloneIs DEF Carrying
  <2>2. s.ptr = varPtr /\ s.syms = mainSymbols /\ s.carried = LongByDefault /\ s.err = Fine
    BY <1>1
  <2>3. VarState(s, S, b, 0)
    <3>1. ~(0 >= 1)
      OBVIOUS
    <3> QED
      BY <1>1, <2>1, <2>2, <3>1 DEF VarState
  <2>4. VarNames(s, S, b, 0)
    <3>1. ASSUME NEW k, NEW j PROVE PlaceIn(S, b, 0, k, j) <=> PlaceIn(S, 0, 0, k, j)
      BY <1>a, <1>b DEF PlaceIn
    <3>2. NamesSeen(mainSymbols, S, b, 0) /\ PointersSeen(S, b, 0)
      BY <3>1, SamePlaces
    <3>3. "name" # Fine /\ "array" # Fine
      <4>1. "name" \in Errors /\ "array" \in Errors
        BY DEF Errors
      <4> QED
        BY <4>1, NotFine
    <3> QED
      BY <2>2, <3>2, <3>3 DEF VarNames
  <2>5. r[0] = s /\ 0 \in 0..n
    BY <1>4, <1>5 DEF Reads
  <2> QED
    BY <2>3, <2>4, <2>5
<1>7. ASSUME NEW a \in 1..n, a - 1 \in G PROVE a \in G
  <2>1. r[a] = Read("variable", r[a - 1], blocks[b].items[a])
    BY <1>2, <1>5 DEF Reads
  <2>2. PICK c \in Nat : c = a - 1
    BY <1>4
  <2>3. a = c + 1 /\ c + 1 \in DOMAIN blocks[b].items
    BY <1>4, <2>2
  <2>4. VarState(r[c], S, b, c) /\ VarNames(r[c], S, b, c)
    BY <1>7, <2>2
  <2>5. VarState(Read("variable", r[c], blocks[b].items[c + 1]), S, b, c + 1)
    BY <2>3, <2>4, VarRead
  <2>6. VarNames(Read("variable", r[c], blocks[b].items[c + 1]), S, b, c + 1)
    BY <2>3, <2>4, VarNamesRead
  <2>7. VarState(r[a], S, b, a) /\ VarNames(r[a], S, b, a)
    BY <2>1, <2>2, <2>3, <2>5, <2>6
  <2>8. a \in 0..n
    BY <1>4
  <2> QED
    BY <2>7, <2>8
<1> HIDE DEF G
<1>8. \A a \in 0..n : a \in G
  BY <1>4, <1>6, <1>7, UpTo
<1>9. n \in 0..n
  BY <1>4
<1>10. PICK q : q = r[n]
  OBVIOUS
<1>11. VarNames(q, S, b, n)
  BY <1>8, <1>9, <1>10 DEF G
<1>12. ASSUME NEW k, NEW j PROVE PlaceIn(S \cup {b}, 0, 0, k, j) <=> PlaceIn(S, b, n, k, j)
  BY <1>3, <1>a, <1>b, VarDeclares DEF PlaceIn
<1>13. q.err = Fine => NamesSeen(q.syms, S \cup {b}, 0, 0) /\ PointersSeen(S \cup {b}, 0, 0)
  <2>1. q.err = Fine => NamesSeen(q.syms, S, b, n) /\ PointersSeen(S, b, n)
    BY <1>11 DEF VarNames
  <2> QED
    BY <1>12, <2>1, SamePlaces
<1>14. VarNames(q, S \cup {b}, 0, 0)
  BY <1>11, <1>13 DEF VarNames
<1> QED
  BY <1>1, <1>2, <1>5, <1>10, <1>14 DEF CompileVarBlock

-----------------------------------------------------------------------------
(* What the first pass refuses a header for.                               *)

NameKnown(list) == \E j \in DOMAIN list : list[j].name \in DOMAIN mainSymbols
PointersAlone(list) == \A j \in DOMAIN list : list[j].ptr => list[j].count = -1

(* The longs of a list are their sum.                                      *)
LEMMA TotalIs == ASSUME NEW list, AreItems(list) PROVE \E t : Sum(list, t, TotalLongs(list))
<1> DEFINE Longs2(k) == ValueLongs(list[k])
           Totals2(r, n) == r = [k \in 0..n |-> IF k = 0 THEN 0 ELSE r[k - 1] + Longs2(k)]
<1>1. PICK n \in Nat : n = Len(list) /\ DOMAIN list = 1..n
  BY DEF AreItems
<1>2. \A k \in 1..n : Longs2(k) \in Nat
  BY <1>1, Sizes
<1> DEFINE G == {m \in 0..n : \E r : Totals2(r, m)}
<1>3. 0 \in G
  <2>1. PICK r : r = [k \in 0..0 |-> 0]
    OBVIOUS
  <2>2. \A k \in 0..0 : k = 0 /\ r[k] = 0
    BY <2>1
  <2>3. Totals2(r, 0)
    BY <2>1, <2>2
  <2>4. \E t : Totals2(t, 0)
    BY <2>3
  <2>5. 0 \in 0..n
    OBVIOUS
  <2> QED
    BY <2>4, <2>5
<1>4. ASSUME NEW m \in 1..n, m - 1 \in G PROVE m \in G
  <2>1. PICK r : Totals2(r, m - 1)
    BY <1>4
  <2>2. PICK t : t = [k \in 0..m |-> IF k = m THEN r[m - 1] + Longs2(m) ELSE r[k]]
    OBVIOUS
  <2> HIDE DEF Longs2
  <2>3. ASSUME NEW k \in 0..m PROVE t[k] = IF k = 0 THEN 0 ELSE t[k - 1] + Longs2(k)
    <3>1. CASE k = 0
      <4>1. 0 \in 0..m /\ 0 # m /\ 0 \in 0..(m - 1)
        OBVIOUS
      <4>2. t[0] = r[0] /\ r[0] = 0
        BY <2>1, <2>2, <4>1
      <4> QED
        BY <3>1, <4>2
    <3>2. CASE k = m
      <4>1. m - 1 \in 0..m /\ m - 1 # m /\ m # 0
        OBVIOUS
      <4>2. t[m - 1] = r[m - 1]
        BY <2>2, <4>1
      <4>3. t[m] = r[m - 1] + Longs2(m)
        BY <2>2
      <4> QED
        BY <3>2, <4>1, <4>2, <4>3
    <3>3. CASE k # 0 /\ k # m
      <4>1. k - 1 \in 0..m /\ k - 1 # m /\ k \in 0..(m - 1)
        BY <3>3
      <4>2. t[k - 1] = r[k - 1] /\ t[k] = r[k]
        BY <2>2, <3>3, <4>1
      <4>3. r[k] = r[k - 1] + Longs2(k)
        BY <2>1, <3>3, <4>1
      <4> QED
        BY <3>3, <4>2, <4>3
    <3> QED
      BY <3>1, <3>2, <3>3
  <2>4. Totals2(t, m)
    BY <2>2, <2>3
  <2>5. \E u : Totals2(u, m)
    BY <2>4
  <2>6. m \in 0..n
    OBVIOUS
  <2> QED
    BY <2>5, <2>6
<1>5. n \in G
  <2> HIDE DEF G
  <2> QED
    BY <1>3, <1>4, UpTo
<1>6. \E r : Totals2(r, n)
  BY <1>5
<1>7. PICK t : t = CHOOSE u : Totals2(u, n)
  OBVIOUS
<1>8. Totals2(t, n)
  BY <1>6, <1>7
<1>9. TotalLongs(list) = t[n]
  BY <1>1, <1>7 DEF TotalLongs
<1> DEFINE H == {m \in 0..n : t[m] \in Nat}
<1>10. 0 \in H
  BY <1>8
<1>11. ASSUME NEW m \in 1..n, m - 1 \in H PROVE m \in H
  <2>1. t[m] = t[m - 1] + Longs2(m)
    BY <1>8
  <2>2. m \in 0..n
    OBVIOUS
  <2> QED
    BY <1>2, <1>11, <2>1, <2>2
<1>12. \A m \in 0..n : t[m] \in Nat
  <2>1. \A m \in 0..n : m \in H
    <3> HIDE DEF H
    <3> QED
      BY <1>10, <1>11, UpTo
  <2> QED
    BY <2>1
<1>13. t[0] = 0 /\ \A k \in 1..n : t[k] = t[k - 1] + Longs2(k)
  BY <1>8
<1>14. Sum(list, t, TotalLongs(list))
  <2>1. Sum(list, t, t[n])
    BY <1>1, <1>12, <1>13 DEF Sum
  <2> QED
    BY <1>9, <2>1
<1> QED
  BY <1>14

(* It is a natural number.                                                 *)
LEMMA TotalCounts == ASSUME NEW list, AreItems(list) PROVE TotalLongs(list) \in Nat
<1>1. PICK m \in Nat : m = Len(list)
  BY DEF AreItems
<1>2. PICK n : n = TotalLongs(list)
  OBVIOUS
<1>3. PICK t : Sum(list, t, n)
  BY <1>2, TotalIs
<1>4. m \in 0..m
  OBVIOUS
<1> QED
  BY <1>1, <1>2, <1>3, <1>4 DEF Sum

(* No part of a sum is above the whole.                                    *)
LEMMA SumGrows ==
  ASSUME NEW list, AreItems(list), NEW t, NEW n, Sum(list, t, n), NEW k \in 0..Len(list)
  PROVE  t[k] <= n
<1>1. PICK m \in Nat : m = Len(list) /\ DOMAIN list = 1..m
  BY DEF AreItems
<1> DEFINE G == {d \in 0..m : t[m - d] <= n}
<1>2. t[m] = n /\ \A i \in 0..m : t[i] \in Nat
  BY <1>1 DEF Sum
<1>3. 0 \in G
  <2>1. m - 0 = m /\ 0 \in 0..m /\ m \in 0..m
    OBVIOUS
  <2>2. t[m - 0] <= n
    BY <1>2, <2>1
  <2> QED
    BY <2>1, <2>2
<1>4. ASSUME NEW d \in 1..m, d - 1 \in G PROVE d \in G
  <2>1. PICK i \in 0..m : i = m - d
    OBVIOUS
  <2>2. PICK j \in 1..m : j = m - (d - 1) /\ j - 1 = i
    BY <2>1
  <2>3. t[j] = t[j - 1] + ValueLongs(list[j])
    BY <1>1, <2>2 DEF Sum
  <2>4. ValueLongs(list[j]) \in Nat
    BY <1>1, <2>2, Sizes
  <2>5. t[j] <= n
    BY <1>4, <2>2
  <2>6. j \in 0..m /\ t[j] \in Nat /\ t[i] \in Nat /\ n \in Nat
    <3>1. m \in 0..m /\ j \in 0..m
      OBVIOUS
    <3> QED
      BY <1>2, <3>1
  <2>7. t[i] <= n
    BY <2>2, <2>3, <2>4, <2>5, <2>6
  <2> QED
    BY <2>1, <2>7
<1>5. \A d \in 0..m : d \in G
  <2> HIDE DEF G
  <2> QED
    BY <1>3, <1>4, UpTo
<1>6. PICK d \in 0..m : d = m - k /\ m - d = k
  BY <1>1
<1> QED
  BY <1>5, <1>6

(* What is in error stays as it is.                                        *)
LEMMA ErrKept ==
  ASSUME NEW as \in {"parameter", "result", "local", "value_place", "local_place"}, NEW s, s.err # Fine,
         NEW list, AreItems(list)
  PROVE  ReadAll(as, s, list) = s
<1>1. PICK n \in Nat : n = Len(list)
  BY DEF AreItems
<1>2. PICK r : Reads(as, s, list, r) /\ ReadAll(as, s, list) = r[n]
  BY <1>1, ReadAllReads
<1>3. ASSUME NEW x PROVE Read(as, s, x) = s
  <2>1. Counted(s, x, MethodParams) = s /\ Counted(s, x, MethodResults) = s
    BY DEF Counted
  <2>2. Scanned(s, x) = s
    BY DEF Scanned
  <2>3. Placed(s, x) = s
    BY DEF Placed
  <2>4. PlacedLocal(s, x) = s
    BY DEF PlacedLocal
  <2>5. CASE as \in {"parameter", "result"}
    BY <2>1, <2>5 DEF Read
  <2>6. CASE as = "local"
    BY <2>2, <2>6 DEF Read
  <2>7. CASE as = "value_place"
    BY <2>3, <2>7 DEF Read
  <2>8. CASE as = "local_place"
    BY <2>4, <2>8 DEF Read
  <2> QED
    BY <2>5, <2>6, <2>7, <2>8
<1> DEFINE G == {k \in 0..n : r[k] = s}
<1>4. 0 \in G
  BY <1>2 DEF Reads
<1>5. ASSUME NEW k \in 1..n, k - 1 \in G PROVE k \in G
  <2>1. r[k] = Read(as, r[k - 1], list[k])
    BY <1>1, <1>2 DEF Reads
  <2>2. r[k - 1] = s /\ k \in 0..n
    BY <1>5
  <2> QED
    BY <1>3, <2>1, <2>2
<1>6. \A k \in 0..n : k \in G
  <2> HIDE DEF G
  <2> QED
    BY <1>4, <1>5, UpTo
<1> QED
  BY <1>2, <1>6

LimitOf(as) == IF as = "parameter" THEN MethodParams ELSE MethodResults
Tally(s, list, limit, t, k) ==
  /\ s = [n |-> s.n, err |-> s.err] /\ s.err \in {Fine, "name", "limit"}
  /\ s.err = Fine => s.n = t[k] /\ t[k] <= limit /\ \A h \in 1..k : list[h].name \notin DOMAIN mainSymbols
  /\ s.err = "name" => NameKnown(list)
  /\ s.err = "limit" => \E h \in 0..Len(list) : t[h] > limit

(* One more value is refused for its name or for the limit.                *)
LEMMA TallyOn ==
  ASSUME NEW list, AreItems(list), NEW limit \in Nat, NEW t, NEW n, Sum(list, t, n), NEW k \in 1..Len(list),
         NEW s, Tally(s, list, limit, t, k - 1), NEW g, g = Counted(s, list[k], limit)
  PROVE  Tally(g, list, limit, t, k)
<1>1. PICK i : i = list[k]
  OBVIOUS
<1>2. PICK m \in Nat : m = Len(list) /\ DOMAIN list = 1..m
  BY DEF AreItems
<1>3. s = [n |-> s.n, err |-> s.err] /\ s.err \in {Fine, "name", "limit"}
  BY DEF Tally
<1>4. "name" # Fine /\ "limit" # Fine
  <2>1. "name" \in Errors /\ "limit" \in Errors
    BY DEF Errors
  <2> QED
    BY <2>1, NotFine
<1>5. CASE s.err # Fine
  <2>1. g = s
    BY <1>1, <1>5 DEF Counted
  <2> QED
    BY <1>3, <1>5, <2>1 DEF Tally
<1>6. CASE s.err = Fine
  <2>1. s.n = t[k - 1] /\ t[k - 1] <= limit /\ \A h \in 1..(k - 1) : list[h].name \notin DOMAIN mainSymbols
    BY <1>6 DEF Tally
  <2>2. t[k] = t[k - 1] + ValueLongs(i) /\ t[k - 1] \in Nat /\ t[k] \in Nat
    <3>1. k - 1 \in 0..m /\ k \in 0..m
      BY <1>2
    <3> QED
      BY <1>1, <1>2, <3>1 DEF Sum
  <2>3. ASSUME NEW why PROVE Refuse(s, why) = [n |-> s.n, err |-> why]
    BY <1>3, <1>6 DEF Refuse
  <2>4. CASE ~Isnt(i.name, mainSymbols)
    <3>1. g = [n |-> s.n, err |-> "name"]
      BY <1>1, <1>6, <2>3, <2>4 DEF Counted
    <3>2. g = [n |-> g.n, err |-> g.err] /\ g.err = "name"
      BY <3>1
    <3>3. NameKnown(list)
      BY <1>1, <1>2, <2>4 DEF NameKnown, Isnt
    <3> QED
      BY <1>4, <3>2, <3>3 DEF Tally
  <2>5. CASE Isnt(i.name, mainSymbols) /\ t[k] > limit
    <3>1. s.n + ValueLongs(i) > limit
      BY <2>1, <2>2, <2>5
    <3>2. g = [n |-> s.n, err |-> "limit"]
      BY <1>1, <1>6, <2>3, <2>5, <3>1 DEF Counted
    <3>3. g = [n |-> g.n, err |-> g.err] /\ g.err = "limit"
      BY <3>2
    <3>4. k \in 0..Len(list)
      BY <1>2
    <3> QED
      BY <1>4, <2>5, <3>3, <3>4 DEF Tally
  <2>6. CASE Isnt(i.name, mainSymbols) /\ ~(t[k] > limit)
    <3>1. ~(s.n + ValueLongs(i) > limit)
      BY <2>1, <2>2, <2>6
    <3>2. g = [s EXCEPT !.n = @ + ValueLongs(i)]
      BY <1>1, <1>6, <2>6, <3>1 DEF Counted
    <3>3. PICK x : x = s.n + ValueLongs(i)
      OBVIOUS
    <3>4. g = [n |-> x, err |-> Fine]
      BY <1>3, <1>6, <3>2, <3>3
    <3>5. g = [n |-> g.n, err |-> g.err] /\ g.n = x /\ g.err = Fine
      BY <3>4
    <3>6. x = t[k] /\ t[k] <= limit
      BY <2>1, <2>2, <2>6, <3>3
    <3>7. ASSUME NEW h \in 1..k PROVE list[h].name \notin DOMAIN mainSymbols
      <4>1. h \in 1..(k - 1) \/ h = k
        BY <1>2
      <4> QED
        BY <1>1, <2>1, <2>6, <4>1 DEF Isnt
    <3> QED
      BY <1>4, <3>5, <3>6, <3>7 DEF Tally
  <2> QED
    BY <2>4, <2>5, <2>6
<1> QED
  BY <1>5, <1>6

(* The values of a header are refused for a name the object has, or for    *)
(* more longs than there is room for.                                      *)
LEMMA Tallied ==
  ASSUME NEW list, AreItems(list), NEW as \in {"parameter", "result"}, NEW q, q = ReadAll(as, [n |-> 0, err |-> Fine], list)
  PROVE  /\ q.err \in {Fine, "name", "limit"}
         /\ q.err = "name" => NameKnown(list)
         /\ q.err = "limit" => TotalLongs(list) > LimitOf(as)
         /\ q.err = Fine => TotalLongs(list) <= LimitOf(as) /\ ~NameKnown(list)
<1>1. PICK m \in Nat : m = Len(list) /\ DOMAIN list = 1..m
  BY DEF AreItems
<1>2. PICK limit \in Nat : limit = LimitOf(as)
  BY DeclarationsAssumption DEF LimitOf
<1>3. PICK n : n = TotalLongs(list)
  OBVIOUS
<1>4. PICK t : Sum(list, t, n)
  BY <1>3, TotalIs
<1>5. PICK s : s = [n |-> 0, err |-> Fine]
  OBVIOUS
<1>6. PICK r : Reads(as, s, list, r) /\ q = r[m]
  BY <1>1, <1>5, ReadAllReads
<1>7. \A x, i : Read(as, x, i) = Counted(x, i, limit)
  <2>1. CASE as = "parameter"
    BY <1>2, <2>1 DEF Read, LimitOf
  <2>2. CASE as = "result"
    BY <1>2, <2>2 DEF Read, LimitOf
  <2> QED
    BY <2>1, <2>2
<1> DEFINE G == {k \in 0..m : Tally(r[k], list, limit, t, k)}
<1>8. 0 \in G
  <2>1. r[0] = s /\ s.n = 0 /\ s.err = Fine
    BY <1>5, <1>6 DEF Reads
  <2>2. t[0] = 0 /\ 0 <= limit /\ \A h \in 1..0 : FALSE
    BY <1>4 DEF Sum
  <2>3. "name" # Fine /\ "limit" # Fine
    <3>1. "name" \in Errors /\ "limit" \in Errors
      BY DEF Errors
    <3> QED
      BY <3>1, NotFine
  <2>4. s = [n |-> s.n, err |-> s.err]
    BY <1>5, <2>1
  <2>5. Tally(s, list, limit, t, 0)
    BY <2>1, <2>2, <2>3, <2>4 DEF Tally
  <2> QED
    BY <2>1, <2>5
<1>9. ASSUME NEW k \in 1..m, k - 1 \in G PROVE k \in G
  <2>1. r[k] = Counted(r[k - 1], list[k], limit)
    BY <1>1, <1>6, <1>7 DEF Reads
  <2>2. Tally(r[k - 1], list, limit, t, k - 1) /\ k \in 0..m
    BY <1>9
  <2>3. Tally(r[k], list, limit, t, k)
    BY <1>1, <1>4, <2>1, <2>2, TallyOn
  <2> QED
    BY <2>2, <2>3
<1>10. \A k \in 0..m : k \in G
  <2> HIDE DEF G
  <2> QED
    BY <1>8, <1>9, UpTo
<1>11. Tally(q, list, limit, t, m)
  <2>1. m \in 0..m
    OBVIOUS
  <2> QED
    BY <1>6, <1>10, <2>1
<1>12. t[m] = n
  BY <1>1, <1>4 DEF Sum
<1>13. ASSUME q.err = "limit" PROVE n > limit
  <2>1. PICK h \in 0..Len(list) : t[h] > limit
    BY <1>11, <1>13 DEF Tally
  <2>2. t[h] <= n
    BY <1>4, SumGrows
  <2>3. t[h] \in Nat /\ n \in Nat
    <3>1. m \in 0..m
      OBVIOUS
    <3> QED
      BY <1>1, <1>4, <1>12, <3>1 DEF Sum
  <2> QED
    BY <2>1, <2>2, <2>3
<1>14. ASSUME q.err = Fine PROVE n <= limit /\ ~NameKnown(list)
  BY <1>1, <1>11, <1>12, <1>14 DEF Tally, NameKnown
<1>15. q.err \in {Fine, "name", "limit"} /\ (q.err = "name" => NameKnown(list))
  BY <1>11 DEF Tally
<1> QED
  BY <1>2, <1>3, <1>13, <1>14, <1>15

ScannedTo(s, list, k) ==
  /\ s = [err |-> s.err] /\ s.err \in {Fine, "name", "array"}
  /\ s.err = Fine => \A h \in 1..k : list[h].name \notin DOMAIN mainSymbols /\ (list[h].ptr => list[h].count = -1)
  /\ s.err = "name" => NameKnown(list)
  /\ s.err = "array" => ~PointersAlone(list)

(* One more local is refused for its name or as an array.                  *)
LEMMA ScannedOn ==
  ASSUME NEW list, AreItems(list), NEW k \in 1..Len(list), NEW s, ScannedTo(s, list, k - 1), NEW g, g = Scanned(s, list[k])
  PROVE  ScannedTo(g, list, k)
<1>1. PICK i : i = list[k]
  OBVIOUS
<1>2. PICK m \in Nat : m = Len(list) /\ DOMAIN list = 1..m
  BY DEF AreItems
<1>3. s = [err |-> s.err] /\ s.err \in {Fine, "name", "array"}
  BY DEF ScannedTo
<1>4. "name" # Fine /\ "array" # Fine
  <2>1. "name" \in Errors /\ "array" \in Errors
    BY DEF Errors
  <2> QED
    BY <2>1, NotFine
<1>5. CASE s.err # Fine
  <2>1. g = s
    BY <1>1, <1>5 DEF Scanned
  <2> QED
    BY <1>3, <1>5, <2>1 DEF ScannedTo
<1>6. CASE s.err = Fine
  <2>1. \A h \in 1..(k - 1) : list[h].name \notin DOMAIN mainSymbols /\ (list[h].ptr => list[h].count = -1)
    BY <1>6 DEF ScannedTo
  <2>2. ASSUME NEW why PROVE Refuse(s, why) = [err |-> why]
    BY <1>3, <1>6 DEF Refuse
  <2>3. k \in DOMAIN list
    BY <1>2
  <2>4. CASE ~Isnt(i.name, mainSymbols)
    <3>1. g = [err |-> "name"]
      BY <1>1, <1>6, <2>2, <2>4 DEF Scanned
    <3>2. g = [err |-> g.err] /\ g.err = "name"
      BY <3>1
    <3>3. NameKnown(list)
      BY <1>1, <2>3, <2>4 DEF NameKnown, Isnt
    <3> QED
      BY <1>4, <3>2, <3>3 DEF ScannedTo
  <2>5. CASE Isnt(i.name, mainSymbols) /\ i.ptr /\ i.count # -1
    <3>1. g = [err |-> "array"]
      BY <1>1, <1>6, <2>2, <2>5 DEF Scanned
    <3>2. g = [err |-> g.err] /\ g.err = "array"
      BY <3>1
    <3>3. ~PointersAlone(list)
      BY <1>1, <2>3, <2>5 DEF PointersAlone
    <3> QED
      BY <1>4, <3>2, <3>3 DEF ScannedTo
  <2>6. CASE Isnt(i.name, mainSymbols) /\ ~(i.ptr /\ i.count # -1)
    <3>1. g = s
      BY <1>1, <1>6, <2>6 DEF Scanned
    <3>2. ASSUME NEW h \in 1..k PROVE list[h].name \notin DOMAIN mainSymbols /\ (list[h].ptr => list[h].count = -1)
      <4>1. h \in 1..(k - 1) \/ h = k
        BY <1>2
      <4> QED
        BY <1>1, <2>1, <2>6, <4>1 DEF Isnt
    <3> QED
      BY <1>3, <1>4, <1>6, <3>1, <3>2 DEF ScannedTo
  <2> QED
    BY <2>4, <2>5, <2>6
<1> QED
  BY <1>5, <1>6

(* The locals are refused for a name the object has, or for a pointer      *)
(* array.                                                                  *)
LEMMA ScannedThrough ==
  ASSUME NEW list, AreItems(list), NEW q, q = ReadAll("local", [err |-> Fine], list)
  PROVE  /\ q.err \in {Fine, "name", "array"}
         /\ q.err = "name" => NameKnown(list)
         /\ q.err = "array" => ~PointersAlone(list)
         /\ q.err = Fine => PointersAlone(list) /\ ~NameKnown(list)
<1>1. PICK m \in Nat : m = Len(list) /\ DOMAIN list = 1..m
  BY DEF AreItems
<1>2. PICK s : s = [err |-> Fine]
  OBVIOUS
<1>3. PICK r : Reads("local", s, list, r) /\ q = r[m]
  BY <1>1, <1>2, ReadAllReads
<1> DEFINE G == {k \in 0..m : ScannedTo(r[k], list, k)}
<1>4. 0 \in G
  <2>1. r[0] = s /\ s.err = Fine
    BY <1>2, <1>3 DEF Reads
  <2>2. \A h \in 1..0 : FALSE
    OBVIOUS
  <2>3. "name" # Fine /\ "array" # Fine
    <3>1. "name" \in Errors /\ "array" \in Errors
      BY DEF Errors
    <3> QED
      BY <3>1, NotFine
  <2>4. s = [err |-> s.err]
    BY <1>2, <2>1
  <2>5. ScannedTo(s, list, 0)
    BY <2>1, <2>2, <2>3, <2>4 DEF ScannedTo
  <2> QED
    BY <2>1, <2>5
<1>5. ASSUME NEW k \in 1..m, k - 1 \in G PROVE k \in G
  <2>1. r[k] = Scanned(r[k - 1], list[k])
    BY <1>1, <1>3 DEF Reads, Read
  <2>2. ScannedTo(r[k - 1], list, k - 1) /\ k \in 0..m
    BY <1>5
  <2>3. ScannedTo(r[k], list, k)
    BY <1>1, <2>1, <2>2, ScannedOn
  <2> QED
    BY <2>2, <2>3
<1>6. \A k \in 0..m : k \in G
  <2> HIDE DEF G
  <2> QED
    BY <1>4, <1>5, UpTo
<1>7. ScannedTo(q, list, m)
  <2>1. m \in 0..m
    OBVIOUS
  <2> QED
    BY <1>3, <1>6, <2>1
<1> QED
  BY <1>1, <1>7 DEF ScannedTo, PointersAlone, NameKnown

-----------------------------------------------------------------------------
(* What it makes of a header as a whole.                                   *)

HeaderKnown(b) ==
  \/ blocks[b].name \in DOMAIN mainSymbols
  \/ NameKnown(blocks[b].params) \/ NameKnown(blocks[b].results) \/ NameKnown(blocks[b].locals)
HeaderFits(b) ==
  /\ TotalLongs(blocks[b].params) <= MethodParams /\ TotalLongs(blocks[b].results) <= MethodResults
  /\ PointersAlone(blocks[b].locals)

(* A header is refused for a name, for a limit it or the table exceeds, or *)
(* for a pointer array.                                                    *)
LEMMA HeaderRefused ==
  ASSUME AreBlocks, NEW b \in Subs, NEW h, h = SubId(blocks[b])
  PROVE  /\ h.err \in {Fine, "name", "limit", "array", "methods"}
         /\ h.err = "name" => HeaderKnown(b)
         /\ h.err = "limit" => ~(TotalLongs(blocks[b].params) <= MethodParams /\ TotalLongs(blocks[b].results) <= MethodResults)
         /\ h.err = "array" => ~PointersAlone(blocks[b].locals)
         /\ h.err = "methods" => Len(methods) > SubsLimit
         /\ h.err = Fine => ~HeaderKnown(b) /\ HeaderFits(b) /\ ~(Len(methods) > SubsLimit)
<1>1. b \in DOMAIN blocks /\ blocks[b].kind \in {"pub", "pri"}
  BY DEF Subs, BlocksOf
<1>2. AreItems(blocks[b].params) /\ AreItems(blocks[b].results) /\ AreItems(blocks[b].locals)
  BY <1>1 DEF AreBlocks
<1>3. PICK e : e = IF Isnt(blocks[b].name, mainSymbols) THEN Fine ELSE "name"
  OBVIOUS
<1>4. PICK p : p = ReadAll("parameter", [n |-> 0, err |-> e], blocks[b].params)
  OBVIOUS
<1>5. PICK r : r = ReadAll("result", [n |-> 0, err |-> p.err], blocks[b].results)
  OBVIOUS
<1>6. PICK l : l = ReadAll("local", [err |-> r.err], blocks[b].locals)
  OBVIOUS
<1>7. PICK full : full \in BOOLEAN /\ (full <=> Len(methods) > SubsLimit)
  OBVIOUS
<1>8. h = [params |-> p.n, results |-> r.n, err |-> IF l.err = Fine /\ full THEN "methods" ELSE l.err]
  BY <1>3, <1>4, <1>5, <1>6, <1>7 DEF SubId
<1>9. h.err = IF l.err = Fine /\ full THEN "methods" ELSE l.err
  BY <1>8
<1>10. "name" # Fine /\ "limit" # Fine /\ "array" # Fine /\ "methods" # Fine
  <2>1. "name" \in Errors /\ "limit" \in Errors /\ "array" \in Errors /\ "methods" \in Errors
    BY DEF Errors
  <2> QED
    BY <2>1, NotFine
<1>11. (e = Fine /\ blocks[b].name \notin DOMAIN mainSymbols) \/ (e = "name" /\ blocks[b].name \in DOMAIN mainSymbols)
  BY <1>3 DEF Isnt
<1>12. e # Fine => p.err = e
  <2>1. ASSUME e # Fine PROVE p.err = e
    <3>1. PICK s : s = [n |-> 0, err |-> e]
      OBVIOUS
    <3>2. s.err = e
      BY <3>1
    <3>3. p = s
      BY <1>2, <1>4, <2>1, <3>1, <3>2, ErrKept
    <3> QED
      BY <3>2, <3>3
  <2> QED
    BY <2>1
<1>13. p.err # Fine => r.err = p.err
  <2>1. ASSUME p.err # Fine PROVE r.err = p.err
    <3>1. PICK s : s = [n |-> 0, err |-> p.err]
      OBVIOUS
    <3>2. s.err = p.err
      BY <3>1
    <3>3. r = s
      BY <1>2, <1>5, <2>1, <3>1, <3>2, ErrKept
    <3> QED
      BY <3>2, <3>3
  <2> QED
    BY <2>1
<1>14. r.err # Fine => l.err = r.err
  <2>1. ASSUME r.err # Fine PROVE l.err = r.err
    <3>1. PICK s : s = [err |-> r.err]
      OBVIOUS
    <3>2. s.err = r.err
      BY <3>1
    <3>3. l = s
      BY <1>2, <1>6, <2>1, <3>1, <3>2, ErrKept
    <3> QED
      BY <3>2, <3>3
  <2> QED
    BY <2>1
<1>15. CASE e # Fine
  <2>1. h.err = "name" /\ HeaderKnown(b)
    BY <1>9, <1>10, <1>11, <1>12, <1>13, <1>14, <1>15 DEF HeaderKnown
  <2> QED
    BY <1>10, <2>1
<1>16. CASE e = Fine /\ p.err # Fine
  <2>1. /\ p.err \in {Fine, "name", "limit"} /\ (p.err = "name" => NameKnown(blocks[b].params))
        /\ (p.err = "limit" => TotalLongs(blocks[b].params) > LimitOf("parameter"))
    BY <1>2, <1>4, <1>16, Tallied
  <2>2. h.err = p.err
    BY <1>9, <1>13, <1>14, <1>16
  <2>3. LimitOf("parameter") = MethodParams
    BY DEF LimitOf
  <2>4. p.err = "limit" => ~(TotalLongs(blocks[b].params) <= MethodParams)
    <3>1. PICK n : n = TotalLongs(blocks[b].params)
      OBVIOUS
    <3>2. n \in Nat
      BY <1>2, <3>1, TotalCounts
    <3> QED
      BY <2>1, <2>3, <3>1, <3>2, DeclarationsAssumption
  <2> QED
    BY <1>10, <1>16, <2>1, <2>2, <2>4 DEF HeaderKnown
<1>17. CASE e = Fine /\ p.err = Fine /\ r.err # Fine
  <2>1. /\ r.err \in {Fine, "name", "limit"} /\ (r.err = "name" => NameKnown(blocks[b].results))
        /\ (r.err = "limit" => TotalLongs(blocks[b].results) > LimitOf("result"))
    BY <1>2, <1>5, <1>17, Tallied
  <2>2. h.err = r.err
    BY <1>9, <1>14, <1>17
  <2>3. LimitOf("result") = MethodResults
    BY DEF LimitOf
  <2>4. r.err = "limit" => ~(TotalLongs(blocks[b].results) <= MethodResults)
    <3>1. PICK n : n = TotalLongs(blocks[b].results)
      OBVIOUS
    <3>2. n \in Nat
      BY <1>2, <3>1, TotalCounts
    <3> QED
      BY <2>1, <2>3, <3>1, <3>2, DeclarationsAssumption
  <2> QED
    BY <1>10, <1>17, <2>1, <2>2, <2>4 DEF HeaderKnown
<1>18. CASE e = Fine /\ p.err = Fine /\ r.err = Fine
  <2>1. TotalLongs(blocks[b].params) <= LimitOf("parameter") /\ ~NameKnown(blocks[b].params)
    BY <1>2, <1>4, <1>18, Tallied
  <2>2. TotalLongs(blocks[b].results) <= LimitOf("result") /\ ~NameKnown(blocks[b].results)
    BY <1>2, <1>5, <1>18, Tallied
  <2>3. /\ l.err \in {Fine, "name", "array"} /\ (l.err = "name" => NameKnown(blocks[b].locals))
        /\ (l.err = "array" => ~PointersAlone(blocks[b].locals))
        /\ (l.err = Fine => PointersAlone(blocks[b].locals) /\ ~NameKnown(blocks[b].locals))
    BY <1>2, <1>6, <1>18, ScannedThrough
  <2>4. LimitOf("parameter") = MethodParams /\ LimitOf("result") = MethodResults
    BY DEF LimitOf
  <2>5. blocks[b].name \notin DOMAIN mainSymbols
    BY <1>10, <1>11, <1>18
  <2>6. CASE l.err = Fine /\ full
    BY <1>7, <1>9, <1>10, <2>6
  <2>7. CASE l.err = Fine /\ ~full
    <3>1. h.err = Fine
      BY <1>9, <2>7
    <3>2. ~HeaderKnown(b)
      BY <2>1, <2>2, <2>3, <2>5, <2>7 DEF HeaderKnown
    <3>3. HeaderFits(b)
      BY <2>1, <2>2, <2>3, <2>4, <2>7 DEF HeaderFits
    <3> QED
      BY <1>7, <1>10, <2>7, <3>1, <3>2, <3>3
  <2>8. CASE l.err # Fine
    BY <1>9, <1>10, <2>3, <2>8 DEF HeaderKnown
  <2> QED
    BY <2>6, <2>7, <2>8
<1> QED
  BY <1>15, <1>16, <1>17, <1>18

-----------------------------------------------------------------------------
(* The names of a header: those of the lists before list x, and of the     *)
(* first a items of that one.                                              *)

HeadName(k, x, j) == HeaderLists(k)[x][j].name
HeadIn(k, x, a, y, j) == y \in 1..3 /\ j \in DOMAIN HeaderLists(k)[y] /\ (y < x \/ (y = x /\ j <= a))
HeadsSeen(syms, k, x, a) ==
  /\ \A n \in DOMAIN syms : \E y, j : HeadIn(k, x, a, y, j) /\ HeadName(k, y, j) = n
  /\ \A y, j : HeadIn(k, x, a, y, j) => HeadName(k, y, j) \in DOMAIN syms /\ HeadName(k, y, j) \notin DOMAIN mainSymbols
  /\ \A y, j, z, h : HeadIn(k, x, a, y, j) /\ HeadIn(k, x, a, z, h) /\ HeadName(k, y, j) = HeadName(k, z, h) => y = z /\ j = h
HeadTwice(k) == ~HeaderNamesApart(k) \/ \E y \in 1..3 : \E j \in DOMAIN HeaderLists(k)[y] : HeadName(k, y, j) \in DOMAIN mainSymbols
HeadState(f, k, x, a) ==
  /\ f = [at |-> f.at, syms |-> f.syms, err |-> f.err] /\ f.err \in {Fine, "name", "locals"}
  /\ f.err = Fine => HeadsSeen(f.syms, k, x, a)
  /\ f.err = "name" => HeadTwice(k)

(* The three lists of a header.                                            *)
LEMMA ThreeLists ==
  ASSUME AreBlocks, NEW k \in Subs
  PROVE  /\ HeaderLists(k)[1] = blocks[k].params /\ HeaderLists(k)[2] = blocks[k].results /\ HeaderLists(k)[3] = blocks[k].locals
         /\ \A x \in 1..3 : AreItems(HeaderLists(k)[x])
<1>1. k \in DOMAIN blocks /\ blocks[k].kind \in {"pub", "pri"}
  BY DEF Subs, BlocksOf
<1>2. AreItems(blocks[k].params) /\ AreItems(blocks[k].results) /\ AreItems(blocks[k].locals)
  BY <1>1 DEF AreBlocks
<1>3. HeaderLists(k)[1] = blocks[k].params /\ HeaderLists(k)[2] = blocks[k].results /\ HeaderLists(k)[3] = blocks[k].locals
  BY DEF HeaderLists
<1>4. \A x \in 1..3 : x = 1 \/ x = 2 \/ x = 3
  OBVIOUS
<1> QED
  BY <1>2, <1>3, <1>4

(* An item that is refused leaves the reason, one that is placed its name. *)
LEMMA HeadOn ==
  ASSUME NEW k, NEW x \in 1..3, NEW a \in Nat, AreItems(HeaderLists(k)[x]), a + 1 \in DOMAIN HeaderLists(k)[x],
         \A y \in 1..3 : DOMAIN HeaderLists(k)[y] \in SUBSET Nat,
         NEW f, HeadState(f, k, x, a), NEW name, name = HeadName(k, x, a + 1), NEW g,
         \/ f.err # Fine /\ g = f
         \/ f.err = Fine /\ ~(Isnt(name, mainSymbols) /\ Isnt(name, f.syms)) /\ g = Refuse(f, "name")
         \/ f.err = Fine /\ g = Refuse(f, "locals")
         \/ \E at, sym : /\ f.err = Fine /\ Isnt(name, mainSymbols) /\ Isnt(name, f.syms)
                         /\ g = [at |-> at, syms |-> With(f.syms, name, sym), err |-> Fine]
  PROVE  HeadState(g, k, x, a + 1)
<1>1. f = [at |-> f.at, syms |-> f.syms, err |-> f.err] /\ f.err \in {Fine, "name", "locals"}
  BY DEF HeadState
<1>2. "name" # Fine /\ "locals" # Fine
  <2>1. "name" \in Errors /\ "locals" \in Errors
    BY DEF Errors
  <2> QED
    BY <2>1, NotFine
<1>3. ASSUME NEW why, f.err = Fine PROVE Refuse(f, why) = [at |-> f.at, syms |-> f.syms, err |-> why]
  BY <1>1, <1>3 DEF Refuse
<1>4. ASSUME NEW y, NEW j PROVE HeadIn(k, x, a + 1, y, j) <=> HeadIn(k, x, a, y, j) \/ (y = x /\ j = a + 1)
  <2>1. ASSUME y = x, j \in DOMAIN HeaderLists(k)[x] PROVE j <= a + 1 <=> j <= a \/ j = a + 1
    <3>1. j \in Nat
      BY <2>1
    <3> QED
      BY <3>1
  <2>2. ~(x < x) /\ a + 1 <= a + 1
    OBVIOUS
  <2> QED
    BY <2>1, <2>2 DEF HeadIn
<1>5. CASE f.err # Fine /\ g = f
  BY <1>1, <1>5 DEF HeadState
<1>6. CASE f.err = Fine /\ ~(Isnt(name, mainSymbols) /\ Isnt(name, f.syms)) /\ g = Refuse(f, "name")
  <2>1. g = [at |-> f.at, syms |-> f.syms, err |-> "name"]
    BY <1>3, <1>6
  <2>2. g = [at |-> g.at, syms |-> g.syms, err |-> g.err] /\ g.err = "name"
    BY <2>1
  <2>3. CASE name \in DOMAIN mainSymbols
    <3>1. HeadTwice(k)
      BY <2>3 DEF HeadTwice
    <3> QED
      BY <1>2, <2>2, <3>1 DEF HeadState
  <2>4. CASE name \in DOMAIN f.syms
    <3>1. HeadsSeen(f.syms, k, x, a)
      BY <1>6 DEF HeadState
    <3>2. PICK y, j : HeadIn(k, x, a, y, j) /\ HeadName(k, y, j) = name
      BY <2>4, <3>1 DEF HeadsSeen
    <3>3. y \in 1..3 /\ j \in DOMAIN HeaderLists(k)[y]
      BY <3>2 DEF HeadIn
    <3>4. ~(y = x /\ j = a + 1)
      <4>1. ASSUME y = x, j = a + 1 PROVE FALSE
        <5>1. ~(x < x) /\ ~(a + 1 <= a)
          OBVIOUS
        <5> QED
          BY <3>2, <4>1, <5>1 DEF HeadIn
      <4> QED
        BY <4>1
    <3>5. ~HeaderNamesApart(k)
      BY <3>2, <3>3, <3>4 DEF HeaderNamesApart, HeadName
    <3>6. HeadTwice(k)
      BY <3>5 DEF HeadTwice
    <3> QED
      BY <1>2, <2>2, <3>6 DEF HeadState
  <2> QED
    BY <1>6, <2>3, <2>4 DEF Isnt
<1>7. CASE f.err = Fine /\ g = Refuse(f, "locals")
  <2>1. g = [at |-> f.at, syms |-> f.syms, err |-> "locals"]
    BY <1>3, <1>7
  <2>2. g = [at |-> g.at, syms |-> g.syms, err |-> g.err] /\ g.err = "locals" /\ "locals" # "name"
    BY <2>1
  <2> QED
    BY <1>2, <2>2 DEF HeadState
<1>8. CASE \E at, sym : /\ f.err = Fine /\ Isnt(name, mainSymbols) /\ Isnt(name, f.syms)
                        /\ g = [at |-> at, syms |-> With(f.syms, name, sym), err |-> Fine]
  <2>1. PICK at, sym : /\ f.err = Fine /\ Isnt(name, mainSymbols) /\ Isnt(name, f.syms)
                       /\ g = [at |-> at, syms |-> With(f.syms, name, sym), err |-> Fine]
    BY <1>8
  <2>2. PICK more : more = With(f.syms, name, sym)
    OBVIOUS
  <2>3. g = [at |-> g.at, syms |-> g.syms, err |-> g.err] /\ g.syms = more /\ g.err = Fine
    BY <2>1, <2>2
  <2>4. DOMAIN more = DOMAIN f.syms \cup {name}
    BY <2>2 DEF With
  <2>5. name \notin DOMAIN f.syms /\ name \notin DOMAIN mainSymbols
    BY <2>1 DEF Isnt
  <2>6. HeadsSeen(f.syms, k, x, a)
    BY <2>1 DEF HeadState
  <2>7. ASSUME NEW n \in DOMAIN more PROVE \E y, j : HeadIn(k, x, a + 1, y, j) /\ HeadName(k, y, j) = n
    <3>1. CASE n \in DOMAIN f.syms
      <4>1. PICK y, j : HeadIn(k, x, a, y, j) /\ HeadName(k, y, j) = n
        BY <2>6, <3>1 DEF HeadsSeen
      <4>2. HeadIn(k, x, a + 1, y, j)
        BY <1>4, <4>1
      <4> QED
        BY <4>1, <4>2
    <3>2. CASE n = name
      <4>1. HeadIn(k, x, a + 1, x, a + 1)
        BY <1>4
      <4> QED
        BY <3>2, <4>1
    <3> QED
      BY <2>4, <3>1, <3>2
  <2>8. ASSUME NEW y, NEW j, HeadIn(k, x, a + 1, y, j)
        PROVE  HeadName(k, y, j) \in DOMAIN more /\ HeadName(k, y, j) \notin DOMAIN mainSymbols
    <3>1. CASE HeadIn(k, x, a, y, j)
      BY <2>4, <2>6, <3>1 DEF HeadsSeen
    <3>2. CASE y = x /\ j = a + 1
      BY <2>4, <2>5, <3>2
    <3> QED
      BY <1>4, <2>8, <3>1, <3>2
  <2>9. ASSUME NEW y, NEW j, NEW z, NEW h, HeadIn(k, x, a + 1, y, j), HeadIn(k, x, a + 1, z, h), HeadName(k, y, j) = HeadName(k, z, h)
        PROVE  y = z /\ j = h
    <3>1. HeadIn(k, x, a, y, j) => HeadName(k, y, j) # name
      BY <2>5, <2>6 DEF HeadsSeen
    <3>2. HeadIn(k, x, a, z, h) => HeadName(k, z, h) # name
      BY <2>5, <2>6 DEF HeadsSeen
    <3>3. HeadIn(k, x, a, y, j) \/ (y = x /\ j = a + 1)
      BY <1>4, <2>9
    <3>4. HeadIn(k, x, a, z, h) \/ (z = x /\ h = a + 1)
      BY <1>4, <2>9
    <3>5. CASE HeadIn(k, x, a, y, j) /\ HeadIn(k, x, a, z, h)
      BY <2>6, <2>9, <3>5 DEF HeadsSeen
    <3>6. CASE y = x /\ j = a + 1 /\ HeadIn(k, x, a, z, h)
      BY <2>9, <3>2, <3>6
    <3>7. CASE HeadIn(k, x, a, y, j) /\ z = x /\ h = a + 1
      BY <2>9, <3>1, <3>7
    <3>8. CASE y = x /\ j = a + 1 /\ z = x /\ h = a + 1
      BY <3>8
    <3> QED
      BY <3>3, <3>4, <3>5, <3>6, <3>7, <3>8
  <2>10. HeadsSeen(more, k, x, a + 1)
    BY <2>7, <2>8, <2>9 DEF HeadsSeen
  <2> QED
    BY <1>2, <2>3, <2>10 DEF HeadState
<1> QED
  BY <1>5, <1>6, <1>7, <1>8

(* So does a list as a whole.                                              *)
LEMMA ListRead ==
  ASSUME AreBlocks, NEW k \in Subs, NEW x \in 1..3, NEW as \in {"value_place", "local_place"},
         NEW base, HeadState(base, k, x, 0), NEW q, q = ReadAll(as, base, HeaderLists(k)[x])
  PROVE  HeadState(q, k, x + 1, 0)
<1>1. PICK list : list = HeaderLists(k)[x]
  OBVIOUS
<1>2. AreItems(list) /\ \A y \in 1..3 : AreItems(HeaderLists(k)[y])
  BY <1>1, ThreeLists
<1>3. PICK m \in Nat : m = Len(list) /\ DOMAIN list = 1..m
  BY <1>2 DEF AreItems
<1>4. \A y \in 1..3 : DOMAIN HeaderLists(k)[y] \in SUBSET (Nat \ {0})
  <2> TAKE y \in 1..3
  <2>1. PICK n \in Nat : DOMAIN HeaderLists(k)[y] = 1..n
    BY <1>2 DEF AreItems
  <2>2. 1..n \in SUBSET (Nat \ {0})
    OBVIOUS
  <2> QED
    BY <2>1, <2>2
<1>5. PICK r : Reads(as, base, list, r) /\ q = r[m]
  BY <1>1, <1>3, ReadAllReads
<1> DEFINE G == {a \in 0..m : HeadState(r[a], k, x, a)}
<1>6. 0 \in G
  BY <1>3, <1>5 DEF Reads
<1>7. ASSUME NEW a \in 1..m, a - 1 \in G PROVE a \in G
  <2>1. PICK f : f = r[a - 1]
    OBVIOUS
  <2>2. PICK g : g = r[a]
    OBVIOUS
  <2>3. PICK i : i = list[a]
    OBVIOUS
  <2>4. PICK c \in Nat : c = a - 1 /\ c + 1 = a
    OBVIOUS
  <2>5. g = Read(as, f, i)
    BY <1>3, <1>5, <2>1, <2>2, <2>3 DEF Reads
  <2>6. HeadState(f, k, x, c)
    BY <1>7, <2>1, <2>4
  <2>7. f = [at |-> f.at, syms |-> f.syms, err |-> f.err]
    BY <2>6 DEF HeadState
  <2>8. PICK name : name = HeadName(k, x, c + 1)
    OBVIOUS
  <2>9. name = i.name
    BY <1>1, <2>3, <2>4, <2>8 DEF HeadName
  <2>10. \/ f.err # Fine /\ g = f
         \/ f.err = Fine /\ ~(Isnt(name, mainSymbols) /\ Isnt(name, f.syms)) /\ g = Refuse(f, "name")
         \/ f.err = Fine /\ g = Refuse(f, "locals")
         \/ \E at, sym : /\ f.err = Fine /\ Isnt(name, mainSymbols) /\ Isnt(name, f.syms)
                         /\ g = [at |-> at, syms |-> With(f.syms, name, sym), err |-> Fine]
    <3>1. CASE as = "value_place"
      <4>1. g = Placed(f, i)
        BY <2>5, <3>1 DEF Read
      <4>2. PICK at : at = f.at + (4 * ValueLongs(i))
        OBVIOUS
      <4>3. PICK sym : sym = [type |-> Type(i), id |-> Id(i), at |-> f.at]
        OBVIOUS
      <4>4. PICK h : h = [f EXCEPT !.at = @ + (4 * ValueLongs(i)), !.syms = With(@, i.name, sym)]
        OBVIOUS
      <4>5. \/ f.err # Fine /\ g = f
            \/ f.err = Fine /\ ~(Isnt(name, mainSymbols) /\ Isnt(name, f.syms)) /\ g = Refuse(f, "name")
            \/ f.err = Fine /\ Isnt(name, mainSymbols) /\ Isnt(name, f.syms) /\ g = h
        BY <2>9, <4>1, <4>3, <4>4 DEF Placed
      <4>6. h = [at |-> at, syms |-> With(f.syms, i.name, sym), err |-> f.err]
        BY <2>7, <4>2, <4>4
      <4> QED
        BY <2>9, <4>5, <4>6, Zenon
    <3>2. CASE as = "local_place"
      <4>1. g = PlacedLocal(f, i)
        BY <2>5, <3>2 DEF Read
      <4>2. PICK at : at = Aligned(f.at, i.align)
        OBVIOUS
      <4>3. PICK end : end = at + (Times(i) * UnitSize(i))
        OBVIOUS
      <4>4. PICK sym : sym = [type |-> Type(i), id |-> Id(i), at |-> at]
        OBVIOUS
      <4>5. PICK h : h = [f EXCEPT !.at = end, !.syms = With(@, i.name, sym)]
        OBVIOUS
      <4>6. \/ f.err # Fine /\ g = f
            \/ f.err = Fine /\ ~(Isnt(name, mainSymbols) /\ Isnt(name, f.syms)) /\ g = Refuse(f, "name")
            \/ f.err = Fine /\ g = Refuse(f, "locals")
            \/ f.err = Fine /\ Isnt(name, mainSymbols) /\ Isnt(name, f.syms) /\ g = h
        BY <2>9, <4>1, <4>2, <4>3, <4>4, <4>5 DEF PlacedLocal
      <4>7. h = [at |-> end, syms |-> With(f.syms, i.name, sym), err |-> f.err]
        BY <2>7, <4>5
      <4> QED
        BY <2>9, <4>6, <4>7, Zenon
    <3> QED
      BY <3>1, <3>2
  <2>11. HeadState(g, k, x, c + 1)
    <3>1. c + 1 \in DOMAIN HeaderLists(k)[x]
      BY <1>1, <1>3, <2>4
    <3>2. AreItems(HeaderLists(k)[x]) /\ \A y \in 1..3 : DOMAIN HeaderLists(k)[y] \in SUBSET Nat
      BY <1>2, <1>4
    <3> QED
      BY <2>6, <2>8, <2>10, <3>1, <3>2, HeadOn
  <2> QED
    BY <2>2, <2>4, <2>11
<1>8. \A a \in 0..m : a \in G
  <2> HIDE DEF G
  <2> QED
    BY <1>3, <1>6, <1>7, UpTo
<1>9. HeadState(q, k, x, m)
  <2>1. m \in 0..m
    OBVIOUS
  <2> QED
    BY <1>5, <1>8, <2>1
<1>10. ASSUME NEW y, NEW j PROVE HeadIn(k, x + 1, 0, y, j) <=> HeadIn(k, x, m, y, j)
  <2>1. ASSUME y \in 1..3, j \in DOMAIN HeaderLists(k)[y] PROVE (y < x + 1 \/ (y = x + 1 /\ j <= 0)) <=> (y < x \/ (y = x /\ j <= m))
    <3>1. j \in Nat /\ j # 0
      BY <1>4, <2>1
    <3>2. y = x => j <= m
      BY <1>1, <1>3, <2>1
    <3> QED
      BY <2>1, <3>1, <3>2
  <2> QED
    BY <2>1 DEF HeadIn
<1>11. ASSUME NEW syms, HeadsSeen(syms, k, x, m) PROVE HeadsSeen(syms, k, x + 1, 0)
  <2>1. PICK z : z = x + 1
    OBVIOUS
  <2>2. \A y, j : HeadIn(k, z, 0, y, j) <=> HeadIn(k, x, m, y, j)
    BY <1>10, <2>1
  <2>3. \A n \in DOMAIN syms : \E y, j : HeadIn(k, x, m, y, j) /\ HeadName(k, y, j) = n
    BY <1>11 DEF HeadsSeen
  <2>4. \A y, j : HeadIn(k, x, m, y, j) => HeadName(k, y, j) \in DOMAIN syms /\ HeadName(k, y, j) \notin DOMAIN mainSymbols
    BY <1>11 DEF HeadsSeen
  <2>5. \A y, j, w, h : HeadIn(k, x, m, y, j) /\ HeadIn(k, x, m, w, h) /\ HeadName(k, y, j) = HeadName(k, w, h) => y = w /\ j = h
    BY <1>11 DEF HeadsSeen
  <2>6. HeadsSeen(syms, k, z, 0)
    BY <2>2, <2>3, <2>4, <2>5 DEF HeadsSeen
  <2> QED
    BY <2>1, <2>6
<1> QED
  BY <1>9, <1>11 DEF HeadState

(* A frame is refused for a name that the header or the object has twice,  *)
(* or for the room for its locals.                                         *)
LEMMA FrameNames ==
  ASSUME AreBlocks, NEW k \in Subs, NEW f, f = SubFrame(blocks[k])
  PROVE  /\ f.err \in {Fine, "name", "locals"}
         /\ f.err = "name" => HeadTwice(k)
         /\ f.err = Fine => ~HeadTwice(k)
<1>1. PICK base : base = [at |-> 0, syms |-> NoSymbols, err |-> Fine]
  OBVIOUS
<1>2. HeaderLists(k)[1] = blocks[k].params /\ HeaderLists(k)[2] = blocks[k].results /\ HeaderLists(k)[3] = blocks[k].locals
  BY ThreeLists
<1>3. \A x \in 1..3 : \A j \in DOMAIN HeaderLists(k)[x] : j \in Nat /\ j # 0
  <2> TAKE x \in 1..3
  <2>1. AreItems(HeaderLists(k)[x])
    BY ThreeLists
  <2>2. PICK n \in Nat : DOMAIN HeaderLists(k)[x] = 1..n
    BY <2>1 DEF AreItems
  <2> QED
    BY <2>2
<1>4. HeadState(base, k, 1, 0)
  <2>1. base.at = 0 /\ base.syms = NoSymbols /\ base.err = Fine
    BY <1>1
  <2>2. ASSUME NEW y, NEW j PROVE ~HeadIn(k, 1, 0, y, j)
    <3>1. ASSUME y \in 1..3, j \in DOMAIN HeaderLists(k)[y] PROVE ~(y < 1) /\ ~(j <= 0)
      <4>1. j \in Nat /\ j # 0
        BY <1>3, <3>1
      <4> QED
        BY <3>1, <4>1
    <3> QED
      BY <3>1 DEF HeadIn
  <2>3. DOMAIN NoSymbols = {}
    BY DEF NoSymbols
  <2>4. HeadsSeen(NoSymbols, k, 1, 0)
    BY <2>2, <2>3 DEF HeadsSeen
  <2>5. "name" # Fine
    <3>1. "name" \in Errors
      BY DEF Errors
    <3> QED
      BY <3>1, NotFine
  <2> QED
    BY <1>1, <2>1, <2>4, <2>5 DEF HeadState
<1>5. PICK p : p = ReadAll("value_place", base, blocks[k].params)
  OBVIOUS
<1>6. PICK r : r = ReadAll("value_place", p, blocks[k].results)
  OBVIOUS
<1>7. PICK l : l = ReadAll("local_place", r, blocks[k].locals)
  OBVIOUS
<1>8. HeadState(p, k, 2, 0)
  <2>1. 1 \in 1..3 /\ 1 + 1 = 2
    OBVIOUS
  <2>2. HeadState(p, k, 1 + 1, 0)
    BY <1>2, <1>4, <1>5, <2>1, ListRead
  <2> QED
    BY <2>1, <2>2
<1>9. HeadState(r, k, 3, 0)
  <2>1. 2 \in 1..3 /\ 2 + 1 = 3
    OBVIOUS
  <2>2. HeadState(r, k, 2 + 1, 0)
    BY <1>2, <1>6, <1>8, <2>1, ListRead
  <2> QED
    BY <2>1, <2>2
<1>10. HeadState(l, k, 4, 0)
  <2>1. 3 \in 1..3 /\ 3 + 1 = 4
    OBVIOUS
  <2>2. HeadState(l, k, 3 + 1, 0)
    BY <1>2, <1>7, <1>9, <2>1, ListRead
  <2> QED
    BY <2>1, <2>2
<1>11. f.err = l.err
  <2>1. f = [err |-> l.err, syms |-> l.syms, longs |-> Longs(l.at - r.at)]
    BY <1>1, <1>5, <1>6, <1>7 DEF SubFrame
  <2> QED
    BY <2>1
<1>12. ASSUME l.err = Fine PROVE ~HeadTwice(k)
  <2>1. HeadsSeen(l.syms, k, 4, 0)
    BY <1>10, <1>12 DEF HeadState
  <2>2. ASSUME NEW y \in 1..3, NEW j \in DOMAIN HeaderLists(k)[y] PROVE HeadIn(k, 4, 0, y, j)
    <3>1. y < 4
      OBVIOUS
    <3> QED
      BY <3>1 DEF HeadIn
  <2>3. HeaderNamesApart(k)
    <3>1. ASSUME NEW y \in 1..3, NEW z \in 1..3, NEW j \in DOMAIN HeaderLists(k)[y], NEW h \in DOMAIN HeaderLists(k)[z],
                 HeaderLists(k)[y][j].name = HeaderLists(k)[z][h].name
          PROVE  y = z /\ j = h
      <4>1. HeadName(k, y, j) = HeadName(k, z, h)
        BY <3>1 DEF HeadName
      <4> QED
        BY <2>1, <2>2, <4>1 DEF HeadsSeen
    <3> QED
      BY <3>1 DEF HeaderNamesApart
  <2>4. ASSUME NEW y \in 1..3, NEW j \in DOMAIN HeaderLists(k)[y] PROVE HeadName(k, y, j) \notin DOMAIN mainSymbols
    BY <2>1, <2>2 DEF HeadsSeen
  <2> QED
    BY <2>3, <2>4 DEF HeadTwice
<1> QED
  BY <1>10, <1>11, <1>12 DEF HeadState

-----------------------------------------------------------------------------
(* What is known of an object in each phase: the blocks whose names are    *)
(* among the symbols, the headers that were counted, and the frames.       *)

NamedIn(at, todo) ==
  IF at = "idle" THEN {} ELSE IF at = "var" THEN BlocksOf("var") \ todo
  ELSE IF at \in {"pubs", "pris"} THEN BlocksOf("var") \cup EnteredBy(at, todo)
  ELSE IF at = "dat" THEN (BlocksOf("var") \cup Subs) \cup (BlocksOf("dat") \ todo)
  ELSE (BlocksOf("var") \cup Subs) \cup BlocksOf("dat")
CountedIn(at, todo) == IF at \in {"idle", "var"} THEN {} ELSE IF at \in {"pubs", "pris"} THEN EnteredBy(at, todo) ELSE Subs
FramedIn(at, todo) == IF at \in {"pub_code", "pri_code"} THEN EnteredBy(at, todo) ELSE IF at = "done" THEN Subs ELSE {}

NamesMet(syms, S) == NamesSeen(syms, S, 0, 0) /\ PointersSeen(S, 0, 0)
HeadersMet(S) == IsFiniteSet(S) /\ Cardinality(S) <= SubsLimit + 1 /\ \A k \in S : HeaderFits(k)
FramesMet(S) == \A k \in S : HeaderNamesApart(k) /\ HeaderNamesNew(k)

LegalSoFar(at, todo, syms, ptr, tbl) ==
  /\ at \in Phases => NamesMet(syms, NamedIn(at, todo)) /\ HeadersMet(CountedIn(at, todo)) /\ FramesMet(FramedIn(at, todo))
  /\ at \in {"idle", "var", "pubs", "pris"} => Len(tbl) = Cardinality(CountedIn(at, todo))
  /\ at \in Phases \ {"idle", "var"} => ptr <= HubOrgLimit
  /\ at \in Errors \ {"space", "locals"} => ~Legal
LegalInv ==
  MemoryInv /\ \E at, todo, syms, ptr, tbl, off, fr : Now(at, todo, syms, ptr, tbl, off, fr) /\ LegalSoFar(at, todo, syms, ptr, tbl)

(* What is said of the source alone stays true.                            *)
LEMMA PlacesStay ==
  ASSUME blocks' = blocks, NEW CONSTANT k, NEW CONSTANT j
  PROVE  /\ DeclaredIn(k)' = DeclaredIn(k) /\ NameAt(k, j)' = NameAt(k, j)
         /\ BlocksOf("var")' = BlocksOf("var") /\ BlocksOf("dat")' = BlocksOf("dat") /\ Subs' = Subs
         /\ BlocksOf("pub")' = BlocksOf("pub") /\ BlocksOf("pri")' = BlocksOf("pri")
         /\ Meant(k, j)' = Meant(k, j) /\ Variables(k)' = Variables(k)
<1>1. Variables(k)' = Variables(k)
  BY DEF Variables
<1>2. DeclaredIn(k)' = DeclaredIn(k)
  BY <1>1 DEF DeclaredIn
<1>3. NameAt(k, j)' = NameAt(k, j)
  BY DEF NameAt
<1>4. ASSUME NEW CONSTANT kind PROVE BlocksOf(kind)' = BlocksOf(kind)
  BY DEF BlocksOf
<1>5. BlocksOf("var")' = BlocksOf("var") /\ BlocksOf("dat")' = BlocksOf("dat")
  BY <1>4
<1>6. BlocksOf("pub")' = BlocksOf("pub") /\ BlocksOf("pri")' = BlocksOf("pri")
  BY <1>4
<1>7. Subs' = Subs
  BY <1>6 DEF Subs
<1>8. Meant(k, j)' = Meant(k, j)
  BY DEF Meant, Typing
<1> QED
  BY <1>1, <1>2, <1>3, <1>5, <1>6, <1>7, <1>8

(* So do the names and pointers met,                                       *)
LEMMA NamesStay ==
  ASSUME blocks' = blocks, NEW CONSTANT syms, NEW CONSTANT S, NamesMet(syms, S)
  PROVE  NamesMet(syms, S)'
<1>1. ASSUME NEW CONSTANT k, NEW CONSTANT j PROVE PlaceIn(S, 0, 0, k, j)' <=> PlaceIn(S, 0, 0, k, j)
  <2>1. DeclaredIn(k)' = DeclaredIn(k)
    BY PlacesStay
  <2>2. Variables(0)' = Variables(0)
    BY PlacesStay
  <2> QED
    BY <2>1, <2>2 DEF PlaceIn
<1>2. ASSUME NEW CONSTANT k, NEW CONSTANT j PROVE NameAt(k, j)' = NameAt(k, j)
  BY PlacesStay
<1>3. NamesSeen(syms, S, 0, 0)'
  <2>1. ASSUME NEW CONSTANT n \in DOMAIN syms PROVE \E k, j : PlaceIn(S, 0, 0, k, j)' /\ NameAt(k, j)' = n
    <3>1. PICK k, j : PlaceIn(S, 0, 0, k, j) /\ NameAt(k, j) = n
      BY <2>1 DEF NamesMet, NamesSeen
    <3>2. PlaceIn(S, 0, 0, k, j)' /\ NameAt(k, j)' = n
      BY <1>1, <1>2, <3>1
    <3> QED
      BY <3>2
  <2>2. ASSUME NEW CONSTANT k, NEW CONSTANT j, PlaceIn(S, 0, 0, k, j)' PROVE NameAt(k, j)' \in DOMAIN syms
    BY <1>1, <1>2, <2>2 DEF NamesMet, NamesSeen
  <2>3. ASSUME NEW CONSTANT k, NEW CONSTANT j, NEW CONSTANT l, NEW CONSTANT h,
               PlaceIn(S, 0, 0, k, j)', PlaceIn(S, 0, 0, l, h)', NameAt(k, j)' = NameAt(l, h)'
        PROVE  k = l /\ j = h
    BY <1>1, <1>2, <2>3 DEF NamesMet, NamesSeen
  <2> QED
    BY <2>1, <2>2, <2>3 DEF NamesSeen
<1>4. PointersSeen(S, 0, 0)'
  <2>1. ASSUME NEW CONSTANT k, NEW CONSTANT j, PlaceIn(S, 0, 0, k, j)', k \in BlocksOf("var")', Meant(k, j)'.ptr
        PROVE  blocks'[k].items[j].count = -1
    <3>1. PlaceIn(S, 0, 0, k, j) /\ k \in BlocksOf("var") /\ Meant(k, j).ptr
      BY <1>1, <2>1, PlacesStay
    <3> QED
      BY <3>1 DEF NamesMet, PointersSeen
  <2> QED
    BY <2>1 DEF PointersSeen
<1> QED
  BY <1>3, <1>4 DEF NamesMet

(* the headers,                                                            *)
LEMMA HeadersStay ==
  ASSUME blocks' = blocks, NEW CONSTANT S
  PROVE  /\ HeadersMet(S) => HeadersMet(S)'
         /\ \A k : (HeaderNamesApart(k)' <=> HeaderNamesApart(k)) /\ (HeaderNamesNew(k)' <=> HeaderNamesNew(k))
         /\ FramesMet(S) => FramesMet(S)'
<1>1. ASSUME NEW CONSTANT k PROVE HeaderFits(k)' <=> HeaderFits(k)
  BY DEF HeaderFits, PointersAlone
<1>2. HeadersMet(S) => HeadersMet(S)'
  BY <1>1 DEF HeadersMet
<1>3. ASSUME NEW CONSTANT k PROVE HeaderNamesApart(k)' <=> HeaderNamesApart(k)
  BY DEF HeaderNamesApart, HeaderLists
<1>4. ASSUME NEW CONSTANT k PROVE HeaderNamesNew(k)' <=> HeaderNamesNew(k)
  <2>1. HeaderLists(k)' = HeaderLists(k)
    BY DEF HeaderLists
  <2>2. ASSUME NEW CONSTANT l PROVE DeclaredIn(l)' = DeclaredIn(l) /\ \A h : NameAt(l, h)' = NameAt(l, h)
    BY PlacesStay
  <2> QED
    BY <2>1, <2>2 DEF HeaderNamesNew
<1> QED
  BY <1>2, <1>3, <1>4 DEF FramesMet

(* and what an object has to be.                                           *)
LEMMA LegalStays == ASSUME blocks' = blocks PROVE Legal' <=> Legal
<1>1. PasmMode(blocks)' <=> PasmMode(blocks)
  BY DEF PasmMode
<1>2. GlobalNamesApart' <=> GlobalNamesApart
  <2>1. ASSUME NEW CONSTANT l PROVE DeclaredIn(l)' = DeclaredIn(l) /\ \A h : NameAt(l, h)' = NameAt(l, h)
    BY PlacesStay
  <2> QED
    BY <2>1 DEF GlobalNamesApart
<1>3. \A k : (HeaderNamesApart(k)' <=> HeaderNamesApart(k)) /\ (HeaderNamesNew(k)' <=> HeaderNamesNew(k))
  BY HeadersStay
<1>4. BlocksOf("var")' = BlocksOf("var") /\ BlocksOf("pub")' = BlocksOf("pub") /\ BlocksOf("pri")' = BlocksOf("pri")
  BY PlacesStay
<1>5. NoPointerArray' <=> NoPointerArray
  <2>1. ASSUME NEW CONSTANT k PROVE Variables(k)' = Variables(k) /\ \A j : Meant(k, j)' = Meant(k, j)
    BY PlacesStay
  <2> QED
    BY <1>4, <2>1 DEF NoPointerArray
<1>6. MethodsFit' <=> MethodsFit
  BY <1>4 DEF MethodsFit
<1> QED
  BY <1>1, <1>2, <1>3, <1>4, <1>5, <1>6 DEF Legal

(* So the invariant is reached when its parts hold of what comes next.     *)
LEMMA LegalReached ==
  ASSUME MemoryInv, MemoryInv', blocks' = blocks, NEW CONSTANT at, NEW CONSTANT todo, NEW CONSTANT syms, NEW CONSTANT ptr,
         NEW CONSTANT tbl, NEW CONSTANT off, NEW CONSTANT fr,
         Now(at, todo, syms, ptr, tbl, off, fr)', LegalSoFar(at, todo, syms, ptr, tbl)
  PROVE  LegalInv'
<1>1. BlocksOf("var")' = BlocksOf("var") /\ BlocksOf("dat")' = BlocksOf("dat") /\ Subs' = Subs
      /\ BlocksOf("pub")' = BlocksOf("pub") /\ BlocksOf("pri")' = BlocksOf("pri")
  BY PlacesStay
<1>a. EnteredBy(at, todo)' = EnteredBy(at, todo)
  BY <1>1 DEF EnteredBy
<1>2. PICK N, H, F : N = NamedIn(at, todo) /\ H = CountedIn(at, todo) /\ F = FramedIn(at, todo)
  OBVIOUS
<1>3. NamedIn(at, todo)' = N
  BY <1>1, <1>a, <1>2 DEF NamedIn
<1>4. CountedIn(at, todo)' = H
  BY <1>1, <1>a, <1>2 DEF CountedIn
<1>5. FramedIn(at, todo)' = F
  BY <1>1, <1>a, <1>2 DEF FramedIn
<1>6. at \in Phases => NamesMet(syms, N) /\ HeadersMet(H) /\ FramesMet(F)
  BY <1>2 DEF LegalSoFar
<1>7. at \in Phases => NamesMet(syms, N)' /\ HeadersMet(H)' /\ FramesMet(F)'
  BY <1>6, NamesStay, HeadersStay
<1>8. at \in Errors \ {"space", "locals"} => ~Legal'
  BY LegalStays DEF LegalSoFar
<1>9. /\ at \in {"idle", "var", "pubs", "pris"} => Len(tbl) = Cardinality(H)
      /\ at \in Phases \ {"idle", "var"} => ptr <= HubOrgLimit
  BY <1>2 DEF LegalSoFar
<1>10. LegalSoFar(at, todo, syms, ptr, tbl)'
  BY <1>3, <1>4, <1>5, <1>7, <1>8, <1>9 DEF LegalSoFar
<1> QED
  BY <1>10 DEF LegalInv

(* What is known of the memory and of the names is known together.         *)
LEMMA KnownTogether ==
  ASSUME LegalInv
  PROVE  \E at, todo, syms, ptr, tbl, off, fr :
           Now(at, todo, syms, ptr, tbl, off, fr) /\ Right(at, todo, syms, ptr, tbl, off, fr) /\ LegalSoFar(at, todo, syms, ptr, tbl)
<1>1. PICK at, todo, syms, ptr, tbl, off, fr : Now(at, todo, syms, ptr, tbl, off, fr) /\ LegalSoFar(at, todo, syms, ptr, tbl)
  BY DEF LegalInv
<1>2. PICK at2, todo2, syms2, ptr2, tbl2, off2, fr2 : Now(at2, todo2, syms2, ptr2, tbl2, off2, fr2) /\ Right(at2, todo2, syms2, ptr2, tbl2, off2, fr2)
  BY DEF LegalInv, MemoryInv
<1>3. syms2 = syms /\ ptr2 = ptr /\ tbl2 = tbl /\ off2 = off /\ fr2 = fr
  BY <1>1, <1>2 DEF Now
<1>4. at2 = at /\ todo2 = todo
  <2>1. pass = [at |-> at, todo |-> todo] /\ pass = [at |-> at2, todo |-> todo2]
    BY <1>1, <1>2 DEF Now
  <2>2. pass.at = at /\ pass.todo = todo
    BY <2>1
  <2>3. pass.at = at2 /\ pass.todo = todo2
    BY <2>1
  <2> QED
    BY <2>2, <2>3
<1>5. Right(at, todo, syms, ptr, tbl, off, fr)
  BY <1>2, <1>3, <1>4
<1> QED
  BY <1>1, <1>5

-----------------------------------------------------------------------------
(* What a name or a header more means for the object.                      *)

(* Places that were met are places of the object.                          *)
LEMMA MetPlaces == ASSUME AreBlocks, NEW S, NEW k, NEW j PROVE PlaceIn(S, 0, 0, k, j) <=> k \in DOMAIN blocks /\ k \in S /\ j \in DeclaredIn(k)
<1>1. 0 \notin DOMAIN blocks
  BY DEF AreBlocks
<1> QED
  BY <1>1 DEF PlaceIn

(* The name of a method or DAT block comes in with it,                     *)
LEMMA OwnNameComesIn ==
  ASSUME AreBlocks, NEW syms, NEW S, NamesMet(syms, S), NEW b \in DOMAIN blocks, b \notin S, DeclaredIn(b) = {0}, b \notin BlocksOf("var"),
         blocks[b].name \notin DOMAIN syms, NEW sym, NEW more, more = With(syms, blocks[b].name, sym), NEW Z, Z = S \cup {b}
  PROVE  NamesMet(more, Z)
<1>1. NameAt(b, 0) = blocks[b].name
  BY DEF NameAt
<1>2. ASSUME NEW k, NEW j PROVE PlaceIn(Z, 0, 0, k, j) <=> PlaceIn(S, 0, 0, k, j) \/ (k = b /\ j = 0)
  BY MetPlaces
<1>3. DOMAIN more = DOMAIN syms \cup {NameAt(b, 0)}
  BY <1>1 DEF With
<1>4. NamesSeen(syms, S, 0, 0) /\ PointersSeen(S, 0, 0)
  BY DEF NamesMet
<1>a. NameAt(b, 0) \notin DOMAIN syms
  BY <1>1
<1>5. NamesSeen(more, Z, 0, 0)
  <2>1. PICK o : o = 0
    OBVIOUS
  <2>2. \A k, j : PlaceIn(Z, o, o, k, j) <=> PlaceIn(S, o, o, k, j) \/ (k = b /\ j = o)
    BY <1>2, <2>1
  <2>3. NamesSeen(syms, S, o, o) /\ NameAt(b, o) \notin DOMAIN syms /\ DOMAIN more = DOMAIN syms \cup {NameAt(b, o)}
    BY <1>3, <1>4, <1>a, <2>1
  <2>4. NamesSeen(more, Z, o, o)
    BY <2>2, <2>3, NameComesIn
  <2> QED
    BY <2>1, <2>4
<1>6. PointersSeen(Z, 0, 0)
  BY <1>2, <1>4 DEF PointersSeen
<1> QED
  BY <1>5, <1>6 DEF NamesMet

(* and if it is there before, the object has it twice.                     *)
LEMMA OwnNameTwice ==
  ASSUME AreBlocks, NEW syms, NEW S, NamesMet(syms, S), NEW b \in DOMAIN blocks, b \notin S, DeclaredIn(b) = {0}, blocks[b].name \in DOMAIN syms
  PROVE  ~Legal
<1>1. NameAt(b, 0) = blocks[b].name /\ 0 \in DeclaredIn(b)
  BY DEF NameAt
<1>2. ~PlaceIn(S, 0, 0, b, 0)
  BY MetPlaces
<1>3. NamesSeen(syms, S, 0, 0)
  BY DEF NamesMet
<1> QED
  BY <1>1, <1>2, <1>3, Clash

(* A name of a header that the object has is not new.                      *)
LEMMA HeadNotNew ==
  ASSUME AreBlocks, NEW S, NamesMet(mainSymbols, S), NEW k \in Subs, NEW x \in 1..3, NEW j \in DOMAIN HeaderLists(k)[x],
         HeadName(k, x, j) \in DOMAIN mainSymbols
  PROVE  ~HeaderNamesNew(k) /\ ~Legal
<1>1. PICK l, h : PlaceIn(S, 0, 0, l, h) /\ NameAt(l, h) = HeadName(k, x, j)
  BY DEF NamesMet, NamesSeen
<1>2. l \in DOMAIN blocks /\ h \in DeclaredIn(l)
  BY <1>1, MetPlaces
<1>3. ~HeaderNamesNew(k)
  BY <1>1, <1>2 DEF HeaderNamesNew, HeadName
<1> QED
  BY <1>3 DEF Legal, Subs

(* A header of which a name is known when it is first read is not legal.   *)
LEMMA KnownNotLegal ==
  ASSUME AreBlocks, NEW S, NamesMet(mainSymbols, S), NEW b \in Subs, b \notin S, HeaderKnown(b)
  PROVE  ~Legal
<1>1. b \in DOMAIN blocks /\ DeclaredIn(b) = {0}
  BY DEF Subs, BlocksOf, DeclaredIn
<1>2. HeaderLists(b)[1] = blocks[b].params /\ HeaderLists(b)[2] = blocks[b].results /\ HeaderLists(b)[3] = blocks[b].locals
  BY ThreeLists
<1>3. ASSUME NEW x \in 1..3, NameKnown(HeaderLists(b)[x]) PROVE ~Legal
  <2>1. PICK j \in DOMAIN HeaderLists(b)[x] : HeaderLists(b)[x][j].name \in DOMAIN mainSymbols
    BY <1>3 DEF NameKnown
  <2>2. HeadName(b, x, j) \in DOMAIN mainSymbols
    BY <2>1 DEF HeadName
  <2> QED
    BY <2>2, HeadNotNew
<1>4. CASE blocks[b].name \in DOMAIN mainSymbols
  BY <1>1, <1>4, OwnNameTwice
<1>5. CASE NameKnown(blocks[b].params)
  <2>1. 1 \in 1..3 /\ NameKnown(HeaderLists(b)[1])
    BY <1>2, <1>5
  <2> QED
    BY <1>3, <2>1
<1>6. CASE NameKnown(blocks[b].results)
  <2>1. 2 \in 1..3 /\ NameKnown(HeaderLists(b)[2])
    BY <1>2, <1>6
  <2> QED
    BY <1>3, <2>1
<1>7. CASE NameKnown(blocks[b].locals)
  <2>1. 3 \in 1..3 /\ NameKnown(HeaderLists(b)[3])
    BY <1>2, <1>7
  <2> QED
    BY <1>3, <2>1
<1> QED
  BY <1>4, <1>5, <1>6, <1>7 DEF HeaderKnown

(* Nor is one that has a name twice when its names are placed;             *)
LEMMA TwiceNotLegal ==
  ASSUME AreBlocks, NEW S, NamesMet(mainSymbols, S), NEW k \in Subs, HeadTwice(k)
  PROVE  ~Legal
<1>1. CASE ~HeaderNamesApart(k)
  BY <1>1 DEF Legal, Subs
<1>2. CASE \E y \in 1..3 : \E j \in DOMAIN HeaderLists(k)[y] : HeadName(k, y, j) \in DOMAIN mainSymbols
  BY <1>2, HeadNotNew
<1> QED
  BY <1>1, <1>2 DEF HeadTwice

AllNamed == (BlocksOf("var") \cup Subs) \cup BlocksOf("dat")

(* all names are known then.                                               *)
LEMMA AllPlaces ==
  ASSUME AreBlocks, NEW l \in DOMAIN blocks, NEW h \in DeclaredIn(l)
  PROVE  PlaceIn(AllNamed, 0, 0, l, h)
<1>1. blocks[l].kind = "var" \/ blocks[l].kind \in {"dat", "pub", "pri"}
  <2>1. ASSUME ~(blocks[l].kind = "var" \/ blocks[l].kind \in {"dat", "pub", "pri"}) PROVE DeclaredIn(l) = {}
    BY <2>1 DEF DeclaredIn
  <2> QED
    BY <2>1
<1>2. l \in AllNamed
  BY <1>1 DEF AllNamed, Subs, BlocksOf
<1> QED
  BY <1>2, MetPlaces

(* So one whose names are all placed has new ones.                         *)
LEMMA PlacedLegal ==
  ASSUME AreBlocks, NamesMet(mainSymbols, AllNamed), NEW k \in Subs, ~HeadTwice(k)
  PROVE  HeaderNamesApart(k) /\ HeaderNamesNew(k)
<1>1. HeaderNamesApart(k)
  BY DEF HeadTwice
<1>2. ASSUME NEW x \in 1..3, NEW j \in DOMAIN HeaderLists(k)[x], NEW l \in DOMAIN blocks, NEW h \in DeclaredIn(l)
      PROVE  HeaderLists(k)[x][j].name # NameAt(l, h)
  <2>1. NameAt(l, h) \in DOMAIN mainSymbols
    BY AllPlaces DEF NamesMet, NamesSeen
  <2>2. HeadName(k, x, j) \notin DOMAIN mainSymbols
    BY DEF HeadTwice
  <2> QED
    BY <2>1, <2>2 DEF HeadName
<1> QED
  BY <1>1, <1>2 DEF HeaderNamesNew

(* One method more fits into the table as long as there is a place for it, *)
LEMMA OneHeaderMore ==
  ASSUME NEW S, HeadersMet(S), NEW b, b \notin S, HeaderFits(b), ~(Cardinality(S) > SubsLimit), NEW Z, Z = S \cup {b}
  PROVE  HeadersMet(Z) /\ Cardinality(Z) = Cardinality(S) + 1
<1>1. PICK n : n = Cardinality(S)
  OBVIOUS
<1>2. IsFiniteSet(S) /\ n \in Nat
  BY <1>1, FS_CardinalityType DEF HeadersMet
<1>3. IsFiniteSet(Z) /\ Cardinality(Z) = n + 1
  BY <1>1, <1>2, FS_AddElement
<1>4. n + 1 <= SubsLimit + 1
  BY <1>1, <1>2, DeclarationsAssumption
<1>5. \A k \in Z : HeaderFits(k)
  BY DEF HeadersMet
<1> QED
  BY <1>1, <1>3, <1>4, <1>5 DEF HeadersMet

(* and if there is none, the object has too many.                          *)
LEMMA TooManyMethods ==
  ASSUME AreBlocks, NEW S \in SUBSET Subs, NEW b \in Subs, b \notin S, IsFiniteSet(S), Cardinality(S) > SubsLimit
  PROVE  ~Legal
<1>1. PICK n \in Nat : DOMAIN blocks = 1..n
  BY DEF AreBlocks
<1>2. Subs \in SUBSET (1..n)
  BY <1>1 DEF Subs, BlocksOf
<1>3. IsFiniteSet(Subs)
  <2>1. IsFiniteSet(1..n)
    <3>1. 1 \in Int /\ n \in Int
      OBVIOUS
    <3> QED
      BY <3>1, FS_Interval
  <2> QED
    BY <1>2, <2>1, FS_Subset
<1>4. PICK c : c = Cardinality(S)
  OBVIOUS
<1>5. c \in Nat
  BY <1>4, FS_CardinalityType
<1>6. PICK Z : Z = S \cup {b}
  OBVIOUS
<1>7. Z \in SUBSET Subs /\ Cardinality(Z) = c + 1
  BY <1>4, <1>6, FS_AddElement
<1>8. PICK m : m = Cardinality(Subs)
  OBVIOUS
<1>9. m \in Nat /\ c + 1 <= m
  BY <1>3, <1>7, <1>8, FS_Subset, FS_CardinalityType
<1>10. ~(m <= SubsLimit + 1)
  BY <1>4, <1>5, <1>9, DeclarationsAssumption
<1>11. ~MethodsFit
  BY <1>8, <1>10 DEF MethodsFit, Subs
<1> QED
  BY <1>11 DEF Legal

(* An object of which everything is known is legal.                        *)
LEMMA AllMet ==
  ASSUME AreBlocks, PasmMode(blocks) \/ BlocksOf("pub") # {}, NEW syms, NamesMet(syms, AllNamed), HeadersMet(Subs), FramesMet(Subs)
  PROVE  Legal
<1>1. GlobalNamesApart
  <2>1. ASSUME NEW k \in DOMAIN blocks, NEW l \in DOMAIN blocks, NEW j \in DeclaredIn(k), NEW h \in DeclaredIn(l), NameAt(k, j) = NameAt(l, h)
        PROVE  k = l /\ j = h
    <3>1. PlaceIn(AllNamed, 0, 0, k, j) /\ PlaceIn(AllNamed, 0, 0, l, h)
      BY AllPlaces
    <3> QED
      BY <2>1, <3>1 DEF NamesMet, NamesSeen
  <2> QED
    BY <2>1 DEF GlobalNamesApart
<1>2. \A k \in Subs : HeaderFits(k) /\ HeaderNamesApart(k) /\ HeaderNamesNew(k)
  BY DEF HeadersMet, FramesMet
<1>3. NoPointerArray
  <2>1. ASSUME NEW k \in BlocksOf("var"), NEW j \in Variables(k), Meant(k, j).ptr PROVE blocks[k].items[j].count = -1
    <3>1. k \in DOMAIN blocks /\ j \in DeclaredIn(k)
      BY VarDeclares
    <3>2. PlaceIn(AllNamed, 0, 0, k, j)
      BY <3>1, AllPlaces
    <3> QED
      BY <2>1, <3>2 DEF NamesMet, PointersSeen
  <2>2. ASSUME NEW k \in Subs, NEW j \in DOMAIN blocks[k].locals, blocks[k].locals[j].ptr PROVE blocks[k].locals[j].count = -1
    BY <1>2, <2>2 DEF HeaderFits, PointersAlone
  <2> QED
    BY <2>1, <2>2 DEF NoPointerArray, Subs
<1>4. MethodsFit
  BY <1>2 DEF HeadersMet, HeaderFits, MethodsFit, Subs
<1> QED
  BY <1>1, <1>2, <1>3, <1>4 DEF Legal, Subs

(* Nothing is known of an object at first.                                 *)
LEMMA NothingMet ==
  ASSUME AreBlocks
  PROVE  NamesMet(NoSymbols, {}) /\ HeadersMet({}) /\ FramesMet({}) /\ Cardinality({}) = 0
<1>1. DOMAIN NoSymbols = {}
  BY DEF NoSymbols
<1>2. \A k, j : ~PlaceIn({}, 0, 0, k, j)
  BY MetPlaces
<1>3. NamesMet(NoSymbols, {})
  BY <1>1, <1>2 DEF NamesMet, NamesSeen, PointersSeen
<1>4. IsFiniteSet({}) /\ Cardinality({}) = 0
  BY FS_EmptySet
<1>5. 0 <= SubsLimit + 1
  BY DeclarationsAssumption
<1>6. HeadersMet({})
  BY <1>4, <1>5 DEF HeadersMet
<1> QED
  BY <1>3, <1>4, <1>6 DEF FramesMet

-----------------------------------------------------------------------------
(* Every step keeps what is known of the names.                            *)

(* A stop is right when it is for space or the object is not legal,        *)
LEMMA StoppedRightly ==
  ASSUME NEW why \in Errors, why \in Errors \ {"space", "locals"} => ~Legal, NEW todo, NEW syms, NEW ptr, NEW tbl
  PROVE  LegalSoFar(why, todo, syms, ptr, tbl)
<1>1. why \notin Phases
  BY ErrorsApart
<1>2. why \notin {"idle", "var", "pubs", "pris"}
  BY <1>1 DEF Phases, Visiting
<1> QED
  BY <1>1, <1>2 DEF LegalSoFar

(* and a phase when the names, headers and frames that it has behind it    *)
(* were met.                                                               *)
LEMMA PhaseReached ==
  ASSUME NEW at \in Phases, NEW todo, NEW syms, NEW ptr, NEW tbl,
         NamesMet(syms, NamedIn(at, todo)), HeadersMet(CountedIn(at, todo)), FramesMet(FramedIn(at, todo)),
         at \in {"idle", "var", "pubs", "pris"} => Len(tbl) = Cardinality(CountedIn(at, todo)),
         at \in Phases \ {"idle", "var"} => ptr <= HubOrgLimit
  PROVE  LegalSoFar(at, todo, syms, ptr, tbl)
BY PhaseIsNoError DEF LegalSoFar

(* What is known in front of a step.                                       *)
LEMMA PhaseKnown ==
  ASSUME NEW at \in Phases, NEW todo, NEW syms, NEW ptr, NEW tbl, LegalSoFar(at, todo, syms, ptr, tbl)
  PROVE  /\ NamesMet(syms, NamedIn(at, todo)) /\ HeadersMet(CountedIn(at, todo)) /\ FramesMet(FramedIn(at, todo))
         /\ at \in {"idle", "var", "pubs", "pris"} => Len(tbl) = Cardinality(CountedIn(at, todo))
         /\ at \in Phases \ {"idle", "var"} => ptr <= HubOrgLimit
BY DEF LegalSoFar

(* Begin keeps it.                                                         *)
LEMMA BeginLegal == LegalInv /\ Begin => LegalInv'
<1> SUFFICES ASSUME LegalInv, Begin PROVE LegalInv'
  OBVIOUS
<1>1. PICK at, todo, syms, ptr, tbl, off, fr :
        Now(at, todo, syms, ptr, tbl, off, fr) /\ Right(at, todo, syms, ptr, tbl, off, fr) /\ LegalSoFar(at, todo, syms, ptr, tbl)
  BY KnownTogether
<1>2. MemoryInv /\ MemoryInv' /\ AreBlocks /\ blocks' = blocks
  BY BeginHolds DEF LegalInv, MemoryInv, Begin
<1>3. at = "idle"
  BY <1>1 DEF Now, Begin
<1>4. ptr = 4 /\ tbl = <<>>
  BY <1>1, <1>3 DEF Right, VarsRight, TableRight
<1>5. at \in Phases /\ "dat" \in Phases /\ "var" \in Phases
  BY <1>3 DEF Phases, Visiting
<1>6. NamesMet(syms, {}) /\ HeadersMet({}) /\ FramesMet({})
  <2>1. NamedIn(at, todo) = {} /\ CountedIn(at, todo) = {} /\ FramedIn(at, todo) = {}
    BY <1>3 DEF NamedIn, CountedIn, FramedIn
  <2> QED
    BY <1>1, <1>5, <2>1, PhaseKnown
<1>7. Len(tbl) = Cardinality({})
  BY <1>2, <1>4, NothingMet
<1>8. PICK start : start = 4 * SubStart
  OBVIOUS
<1>9. CASE PasmMode(blocks)
  <2>1. PICK rest : rest = BlocksOf("dat")
    OBVIOUS
  <2>2. Now("dat", rest, syms, ptr, tbl, start, fr)'
    BY <1>1, <1>8, <1>9, <2>1 DEF Begin, To, Now
  <2>3. BlocksOf("var") = {} /\ Subs = {}
    BY <1>9 DEF PasmMode, BlocksOf, Subs
  <2>4. NamedIn("dat", rest) = {} /\ CountedIn("dat", rest) = {} /\ FramedIn("dat", rest) = {}
    BY <2>1, <2>3 DEF NamedIn, CountedIn, FramedIn
  <2>5. ptr <= HubOrgLimit
    BY <1>4, DeclarationsAssumption
  <2>6. LegalSoFar("dat", rest, syms, ptr, tbl)
    BY <1>5, <1>6, <2>4, <2>5, PhaseReached
  <2> QED
    BY <1>2, <2>2, <2>6, LegalReached
<1>10. CASE ~PasmMode(blocks)
  <2>1. PICK rest : rest = BlocksOf("var")
    OBVIOUS
  <2>2. Now("var", rest, syms, ptr, tbl, start, fr)'
    BY <1>1, <1>4, <1>8, <1>10, <2>1 DEF Begin, To, Now
  <2>3. NamedIn("var", rest) = {} /\ CountedIn("var", rest) = {} /\ FramedIn("var", rest) = {}
    BY <2>1 DEF NamedIn, CountedIn, FramedIn
  <2>4. LegalSoFar("var", rest, syms, ptr, tbl)
    BY <1>5, <1>6, <1>7, <2>3, PhaseReached
  <2> QED
    BY <1>2, <2>2, <2>4, LegalReached
<1> QED
  BY <1>9, <1>10

(* So does a VAR block: its names and pointers are met with it.            *)
LEMMA VarBlockLegal == LegalInv /\ VarBlock => LegalInv'
<1> SUFFICES ASSUME LegalInv, VarBlock PROVE LegalInv'
  OBVIOUS
<1>1. PICK at, todo, syms, ptr, tbl, off, fr :
        Now(at, todo, syms, ptr, tbl, off, fr) /\ Right(at, todo, syms, ptr, tbl, off, fr) /\ LegalSoFar(at, todo, syms, ptr, tbl)
  BY KnownTogether
<1>2. MemoryInv /\ MemoryInv' /\ AreBlocks /\ blocks' = blocks
  BY VarBlockHolds DEF LegalInv, MemoryInv, VarBlock
<1>3. at = "var" /\ todo # {} /\ "var" \in Phases
  BY <1>1 DEF Now, VarBlock, Visits, Phases, Visiting
<1>4. InPhase("var", todo) /\ VarsRight("var", todo, syms, ptr)
  BY <1>1, <1>3 DEF Right
<1>5. PICK b : b = Min(todo)
  OBVIOUS
<1>6. PICK rest : rest = todo \ {b}
  OBVIOUS
<1>7. PICK K : K = BlocksOf("var") \ todo
  OBVIOUS
<1>8. /\ b \in BlocksOf("var") /\ \A k \in K : k < b
      /\ BlocksOf("var") \ rest = K \cup {b} /\ b \notin K
  <2>1. KindIn("var") = "var" /\ "var" \in Visiting
    BY DEF KindIn, Visiting
  <2> QED
    BY <1>2, <1>3, <1>4, <1>5, <1>6, <1>7, <2>1, PhaseGoesOn
<1>9. ptr \in Nat /\ 4 <= ptr /\ VarsIn(syms, ptr, K, 0, 0)
  <2>1. "var" \notin Errors /\ VarSeen("var", todo) = K
    BY <1>7, PhaseIsNoError DEF Phases, Visiting, VarSeen
  <2> QED
    BY <1>4, <2>1 DEF VarsRight
<1>10. VarsIn(syms, ptr, K, b, 0)
  <2>1. ASSUME NEW k, NEW j, In(K, b, 0, k, j) PROVE In(K, 0, 0, k, j)
    <3>1. j \in 1..Len(blocks[k].items)
      BY <1>2, <2>1, VarPlaces DEF In
    <3>2. ~(j <= 0)
      BY <3>1
    <3> QED
      BY <2>1, <3>2 DEF In
  <2> QED
    BY <1>9, <2>1 DEF VarsIn
<1>11. NamesMet(syms, K) /\ HeadersMet({}) /\ FramesMet({}) /\ Len(tbl) = Cardinality({})
  <2>1. NamedIn("var", todo) = K /\ CountedIn("var", todo) = {} /\ FramedIn("var", todo) = {}
    BY <1>7 DEF NamedIn, CountedIn, FramedIn
  <2> QED
    BY <1>1, <1>3, <2>1, PhaseKnown
<1>12. PICK s : s = CompileVarBlock(blocks[b])
  OBVIOUS
<1>13. VarNames(s, K \cup {b}, 0, 0)
  <2>1. mainSymbols = syms /\ varPtr = ptr
    BY <1>1 DEF Now
  <2>2. NamesSeen(mainSymbols, K, 0, 0) /\ PointersSeen(K, 0, 0)
    BY <1>11, <2>1 DEF NamesMet
  <2>3. varPtr \in Nat /\ 4 <= varPtr /\ VarsIn(mainSymbols, varPtr, K, b, 0)
    BY <1>9, <1>10, <2>1
  <2> QED
    BY <1>2, <1>8, <1>12, <2>2, <2>3, VarBlockNames
<1>14. /\ varPtr' = s.ptr /\ mainSymbols' = s.syms /\ methods' = tbl /\ offset' = off /\ frames' = fr
       /\ IF s.err = Fine THEN pass' = [at |-> "var", todo |-> rest] ELSE pass' = [at |-> s.err, todo |-> {}]
  BY <1>1, <1>5, <1>6, <1>12 DEF VarBlock, Visited, Block, To, Stop, Now
<1>15. PICK more : more = s.syms
  OBVIOUS
<1>16. PICK end : end = s.ptr
  OBVIOUS
<1>17. CASE s.err # Fine
  <2>1. PICK why : why = s.err
    OBVIOUS
  <2>2. why \in {"name", "array", "space"} /\ (why \in {"name", "array"} => ~Legal)
    BY <1>13, <1>17, <2>1 DEF VarNames
  <2>3. why \in Errors /\ (why \in Errors \ {"space", "locals"} => ~Legal)
    BY <2>2 DEF Errors
  <2>4. Now(why, {}, more, end, tbl, off, fr)'
    BY <1>14, <1>15, <1>16, <1>17, <2>1 DEF Now
  <2>5. LegalSoFar(why, {}, more, end, tbl)
    BY <2>3, StoppedRightly
  <2> QED
    BY <1>2, <2>4, <2>5, LegalReached
<1>18. CASE s.err = Fine
  <2>1. Now("var", rest, more, end, tbl, off, fr)'
    BY <1>14, <1>15, <1>16, <1>18 DEF Now
  <2>2. NamesMet(more, K \cup {b})
    BY <1>13, <1>15, <1>18 DEF VarNames, NamesMet
  <2>3. NamedIn("var", rest) = K \cup {b} /\ CountedIn("var", rest) = {} /\ FramedIn("var", rest) = {}
    BY <1>8 DEF NamedIn, CountedIn, FramedIn
  <2>4. LegalSoFar("var", rest, more, end, tbl)
    BY <1>3, <1>11, <2>2, <2>3, PhaseReached
  <2> QED
    BY <1>2, <2>1, <2>4, LegalReached
<1> QED
  BY <1>17, <1>18

(* The end of the VAR blocks keeps it: there is memory for the variables.  *)
LEMMA EndVarLegal == LegalInv /\ EndVar => LegalInv'
<1> SUFFICES ASSUME LegalInv, EndVar PROVE LegalInv'
  OBVIOUS
<1>1. PICK at, todo, syms, ptr, tbl, off, fr :
        Now(at, todo, syms, ptr, tbl, off, fr) /\ Right(at, todo, syms, ptr, tbl, off, fr) /\ LegalSoFar(at, todo, syms, ptr, tbl)
  BY KnownTogether
<1>2. MemoryInv /\ MemoryInv' /\ AreBlocks /\ blocks' = blocks
  BY EndVarHolds DEF LegalInv, MemoryInv, EndVar
<1>3. at = "var" /\ todo = {} /\ "var" \in Phases /\ "pubs" \in Phases
  BY <1>1 DEF Now, EndVar, Ended, Phases, Visiting
<1>4. NamesMet(syms, BlocksOf("var")) /\ HeadersMet({}) /\ FramesMet({}) /\ Len(tbl) = Cardinality({})
  <2>1. NamedIn("var", todo) = BlocksOf("var") /\ CountedIn("var", todo) = {} /\ FramedIn("var", todo) = {}
    BY <1>3 DEF NamedIn, CountedIn, FramedIn
  <2>2. LegalSoFar("var", todo, syms, ptr, tbl)
    BY <1>1, <1>3
  <2>3. NamesMet(syms, BlocksOf("var")) /\ HeadersMet({}) /\ FramesMet({})
    BY <1>3, <2>1, <2>2, PhaseKnown
  <2>4. Len(tbl) = Cardinality({})
    BY <2>1, <2>2 DEF LegalSoFar
  <2> QED
    BY <2>3, <2>4
<1>5. PICK end : end = Aligned(ptr, 3)
  OBVIOUS
<1>6. end \in Nat
  <2>1. ptr \in Nat
    <3>1. "var" \notin Errors
      BY <1>3, PhaseIsNoError
    <3> QED
      BY <1>1, <1>3, <3>1 DEF Right, VarsRight
  <2>2. 3 \in {0, 1, 3} /\ 3 + 1 = 4
    OBVIOUS
  <2> QED
    BY <1>5, <2>1, <2>2, AlignedIs
<1>7. PICK rest : rest = BlocksOf("pub")
  OBVIOUS
<1>8. /\ varPtr' = end /\ mainSymbols' = syms /\ methods' = tbl /\ offset' = off /\ frames' = fr
      /\ IF end > HubOrgLimit THEN pass' = [at |-> "space", todo |-> {}] ELSE pass' = [at |-> "pubs", todo |-> rest]
  BY <1>1, <1>5, <1>7 DEF EndVar, To, Stop, Now
<1>9. CASE end > HubOrgLimit
  <2>1. "space" \in Errors
    BY DEF Errors
  <2>2. Now("space", {}, syms, end, tbl, off, fr)'
    BY <1>8, <1>9 DEF Now
  <2>3. LegalSoFar("space", {}, syms, end, tbl)
    BY <2>1, StoppedRightly
  <2> QED
    BY <1>2, <2>2, <2>3, LegalReached
<1>10. CASE ~(end > HubOrgLimit)
  <2>1. Now("pubs", rest, syms, end, tbl, off, fr)'
    BY <1>8, <1>10 DEF Now
  <2>2. NamedIn("pubs", rest) = BlocksOf("var") /\ CountedIn("pubs", rest) = {} /\ FramedIn("pubs", rest) = {}
    BY <1>7 DEF NamedIn, CountedIn, FramedIn, EnteredBy
  <2>3. end <= HubOrgLimit
    BY <1>6, <1>10, DeclarationsAssumption
  <2>4. LegalSoFar("pubs", rest, syms, end, tbl)
    BY <1>3, <1>4, <2>2, <2>3, PhaseReached
  <2> QED
    BY <1>2, <2>1, <2>4, LegalReached
<1> QED
  BY <1>9, <1>10

(* A header keeps it: the names of one more method are met, and it fits.   *)
LEMMA MethodIdLegal == ASSUME NEW name \in {"pubs", "pris"} PROVE LegalInv /\ MethodId(name) => LegalInv'
<1> SUFFICES ASSUME LegalInv, MethodId(name) PROVE LegalInv'
  OBVIOUS
<1>1. PICK at, todo, syms, ptr, tbl, off, fr :
        Now(at, todo, syms, ptr, tbl, off, fr) /\ Right(at, todo, syms, ptr, tbl, off, fr) /\ LegalSoFar(at, todo, syms, ptr, tbl)
  BY KnownTogether
<1>2. MemoryInv /\ MemoryInv' /\ AreBlocks /\ blocks' = blocks
  BY MethodIdHolds DEF LegalInv, MemoryInv, MethodId
<1>3. at = name /\ todo # {} /\ name \in Phases \ {"idle", "var"}
  BY <1>1 DEF Now, MethodId, Visits, Phases, Visiting
<1>4. InPhase(name, todo) /\ TableRight(name, todo, syms, tbl, off) /\ LegalSoFar(name, todo, syms, ptr, tbl)
  BY <1>1, <1>3 DEF Right
<1>5. PICK b : b = Min(todo)
  OBVIOUS
<1>6. PICK rest : rest = todo \ {b}
  OBVIOUS
<1>7. PICK S : S = EnteredBy(name, todo)
  OBVIOUS
<1>8. b \in Subs /\ b \notin S /\ S \in SUBSET Subs /\ EnteredBy(name, rest) = S \cup {b}
  <2>1. name \in {"pubs", "pris", "pub_code", "pri_code"}
    OBVIOUS
  <2>2. b \in Subs \ S /\ S \in SUBSET Subs /\ EnteredBy(name, rest) = S \cup {b}
    BY <1>2, <1>3, <1>4, <1>5, <1>6, <1>7, <2>1, NextMethod
  <2> QED
    BY <2>2
<1>9. b \in DOMAIN blocks /\ b \notin BlocksOf("var") /\ DeclaredIn(b) = {0}
  BY <1>8 DEF Subs, BlocksOf, DeclaredIn
<1>10. PICK N : N = BlocksOf("var") \cup S
  OBVIOUS
<1>11. b \notin N
  BY <1>8, <1>9, <1>10
<1>12. NamesMet(syms, N) /\ HeadersMet(S) /\ FramesMet({}) /\ Len(tbl) = Cardinality(S) /\ ptr <= HubOrgLimit
  <2>1. NamedIn(name, todo) = N /\ CountedIn(name, todo) = S /\ FramedIn(name, todo) = {}
    BY <1>7, <1>10 DEF NamedIn, CountedIn, FramedIn
  <2> QED
    BY <1>3, <1>4, <2>1, PhaseKnown
<1>13. mainSymbols = syms /\ methods = tbl /\ pass = [at |-> name, todo |-> todo] /\ offset = off /\ varPtr = ptr /\ frames = fr
  BY <1>1, <1>3 DEF Now
<1>14. Visited = b /\ Block = blocks[b]
  BY <1>5, <1>13 DEF Visited, Block
<1>15. PICK h : h = SubId(blocks[b])
  OBVIOUS
<1>16. /\ h.err \in {Fine, "name", "limit", "array", "methods"}
       /\ h.err = "name" => HeaderKnown(b)
       /\ h.err = "limit" => ~(TotalLongs(blocks[b].params) <= MethodParams /\ TotalLongs(blocks[b].results) <= MethodResults)
       /\ h.err = "array" => ~PointersAlone(blocks[b].locals)
       /\ h.err = "methods" => Len(methods) > SubsLimit
       /\ h.err = Fine => ~HeaderKnown(b) /\ HeaderFits(b) /\ ~(Len(methods) > SubsLimit)
  BY <1>2, <1>8, <1>15, HeaderRefused
<1>17. CASE h.err # Fine
  <2>1. PICK why : why = h.err
    OBVIOUS
  <2>2. why \in {"name", "limit", "array", "methods"} /\ why \in Errors
    BY <1>16, <1>17, <2>1 DEF Errors
  <2>3. ASSUME why = "name" PROVE ~Legal
    <3>1. HeaderKnown(b)
      BY <1>16, <2>1, <2>3
    <3>2. NamesMet(mainSymbols, N)
      BY <1>12, <1>13
    <3> QED
      BY <1>2, <1>8, <1>11, <3>1, <3>2, KnownNotLegal
  <2>4. ASSUME why = "limit" PROVE ~Legal
    <3>a. ~(TotalLongs(blocks[b].params) <= MethodParams /\ TotalLongs(blocks[b].results) <= MethodResults)
      BY <1>16, <2>1, <2>4
    <3>1. ~MethodsFit
      BY <1>8, <3>a DEF MethodsFit, Subs
    <3> QED
      BY <3>1 DEF Legal
  <2>5. ASSUME why = "array" PROVE ~Legal
    <3>a. ~PointersAlone(blocks[b].locals)
      BY <1>16, <2>1, <2>5
    <3>1. ~NoPointerArray
      BY <1>8, <3>a DEF NoPointerArray, PointersAlone, Subs
    <3> QED
      BY <3>1 DEF Legal
  <2>6. ASSUME why = "methods" PROVE ~Legal
    <3>a. Len(methods) > SubsLimit
      BY <1>16, <2>1, <2>6
    <3>1. Cardinality(S) > SubsLimit /\ IsFiniteSet(S)
      BY <1>12, <1>13, <3>a DEF HeadersMet
    <3> QED
      BY <1>2, <1>8, <3>1, TooManyMethods
  <2>7. ~Legal
    BY <2>2, <2>3, <2>4, <2>5, <2>6
  <2>8. pass' = [at |-> why, todo |-> {}] /\ UNCHANGED <<mainSymbols, methods, offset, varPtr, frames>>
    BY <1>14, <1>15, <1>17, <2>1 DEF MethodId, Stop
  <2>9. Now(why, {}, syms, ptr, tbl, off, fr)'
    BY <1>13, <2>8 DEF Now
  <2>10. LegalSoFar(why, {}, syms, ptr, tbl)
    BY <2>2, <2>7, StoppedRightly
  <2> QED
    BY <1>2, <2>9, <2>10, LegalReached
<1>18. CASE h.err = Fine
  <2>1. PICK sym : sym = [params |-> h.params, results |-> h.results, at |-> off \div 4]
    OBVIOUS
  <2>2. PICK more : more = With(syms, blocks[b].name, sym)
    OBVIOUS
  <2>3. PICK row : row = [of |-> blocks[b].name, public |-> name = "pubs", params |-> h.params, results |-> h.results, code |-> 0]
    OBVIOUS
  <2>4. PICK t : t = Append(tbl, row)
    OBVIOUS
  <2>5. PICK end : end = off + 4
    OBVIOUS
  <2>6. Now(name, rest, more, ptr, t, end, fr)'
    <3>1. SubId(Block) = h
      BY <1>14, <1>15
    <3>2. /\ mainSymbols' = With(mainSymbols, Block.name, [params |-> h.params, results |-> h.results, at |-> offset \div 4])
          /\ methods' = Append(methods, [of |-> Block.name, public |-> name = "pubs",
                                         params |-> h.params, results |-> h.results, code |-> 0])
          /\ offset' = offset + 4
          /\ To(name, pass.todo \ {Visited})
          /\ UNCHANGED <<varPtr, frames>>
      BY <1>18, <3>1 DEF MethodId
    <3>3. mainSymbols' = more /\ methods' = t /\ offset' = end /\ varPtr' = ptr /\ frames' = fr
      BY <1>13, <1>14, <2>1, <2>2, <2>3, <2>4, <2>5, <3>2
    <3>4. pass' = [at |-> name, todo |-> rest]
      BY <1>6, <1>13, <1>14, <3>2 DEF To
    <3> QED
      BY <3>3, <3>4 DEF Now
  <2>7. Len(t) = Len(tbl) + 1
    <3>1. h.params \in Nat /\ h.results \in Nat
      BY <1>2, <1>8, <1>15, <1>18, HeaderRead
    <3>2. IsEntry(row)
      BY <2>3, <3>1, Zenon DEF IsEntry
    <3>3. IsMethods(tbl)
      BY <1>4 DEF TableRight
    <3> QED
      BY <2>4, <3>2, <3>3, RowAdded
  <2>8. PICK Z, M : Z = S \cup {b} /\ M = N \cup {b}
    OBVIOUS
  <2>9. blocks[b].name \notin DOMAIN syms /\ HeaderFits(b) /\ ~(Cardinality(S) > SubsLimit)
    BY <1>12, <1>13, <1>16, <1>18 DEF HeaderKnown
  <2>10. NamesMet(more, M)
    BY <1>2, <1>9, <1>11, <1>12, <2>2, <2>8, <2>9, OwnNameComesIn
  <2>11. HeadersMet(Z) /\ Cardinality(Z) = Cardinality(S) + 1
    BY <1>8, <1>12, <2>8, <2>9, OneHeaderMore
  <2>12. NamedIn(name, rest) = M /\ CountedIn(name, rest) = Z /\ FramedIn(name, rest) = {}
    BY <1>8, <1>10, <2>8 DEF NamedIn, CountedIn, FramedIn
  <2>13. LegalSoFar(name, rest, more, ptr, t)
    <3>1. Len(t) = Cardinality(Z)
      BY <1>12, <2>7, <2>11
    <3> QED
      BY <1>3, <1>12, <2>10, <2>11, <2>12, <3>1, PhaseReached
  <2> QED
    BY <1>2, <2>6, <2>13, LegalReached
<1> QED
  BY <1>17, <1>18

(* The end of the PUB methods keeps it: an object without any has no       *)
(* method to start with,                                                   *)
LEMMA EndPubsLegal == LegalInv /\ EndPubs => LegalInv'
<1> SUFFICES ASSUME LegalInv, EndPubs PROVE LegalInv'
  OBVIOUS
<1>1. PICK at, todo, syms, ptr, tbl, off, fr :
        Now(at, todo, syms, ptr, tbl, off, fr) /\ Right(at, todo, syms, ptr, tbl, off, fr) /\ LegalSoFar(at, todo, syms, ptr, tbl)
  BY KnownTogether
<1>2. MemoryInv /\ MemoryInv' /\ AreBlocks /\ blocks' = blocks
  BY EndPubsHolds DEF LegalInv, MemoryInv, EndPubs
<1>3. at = "pubs" /\ todo = {} /\ "pubs" \in Phases \ {"idle", "var"} /\ "pris" \in Phases
  BY <1>1 DEF Now, EndPubs, Ended, Phases, Visiting
<1>4. InPhase("pubs", todo) /\ LegalSoFar("pubs", todo, syms, ptr, tbl)
  BY <1>1, <1>3 DEF Right
<1>5. /\ NamesMet(syms, BlocksOf("var") \cup BlocksOf("pub")) /\ HeadersMet(BlocksOf("pub")) /\ FramesMet({})
      /\ Len(tbl) = Cardinality(BlocksOf("pub")) /\ ptr <= HubOrgLimit
  <2>1. /\ NamedIn("pubs", todo) = BlocksOf("var") \cup BlocksOf("pub") /\ CountedIn("pubs", todo) = BlocksOf("pub")
        /\ FramedIn("pubs", todo) = {}
    BY <1>3 DEF NamedIn, CountedIn, FramedIn, EnteredBy
  <2>2. NamesMet(syms, BlocksOf("var") \cup BlocksOf("pub")) /\ HeadersMet(BlocksOf("pub")) /\ FramesMet({})
    BY <1>3, <1>4, <2>1, PhaseKnown
  <2>3. Len(tbl) = Cardinality(BlocksOf("pub")) /\ ptr <= HubOrgLimit
    BY <1>3, <1>4, <2>1 DEF LegalSoFar
  <2> QED
    BY <2>2, <2>3
<1>6. CASE tbl = <<>>
  <2>1. "no_method" \in Errors
    BY DEF Errors
  <2>2. Now("no_method", {}, syms, ptr, tbl, off, fr)'
    BY <1>1, <1>6 DEF EndPubs, Stop, Now
  <2>3. ~PasmMode(blocks)
    <3>1. "pubs" \notin Errors
      BY <1>3, PhaseIsNoError
    <3> QED
      BY <1>4, <3>1 DEF InPhase
  <2>4. BlocksOf("pub") = {}
    <3>1. Cardinality(BlocksOf("pub")) = 0 /\ IsFiniteSet(BlocksOf("pub"))
      BY <1>5, <1>6 DEF HeadersMet
    <3> QED
      BY <3>1, FS_EmptySet
  <2>5. ~Legal
    BY <2>3, <2>4 DEF Legal
  <2>6. LegalSoFar("no_method", {}, syms, ptr, tbl)
    BY <2>1, <2>5, StoppedRightly
  <2> QED
    BY <1>2, <2>2, <2>6, LegalReached
<1>7. CASE tbl # <<>>
  <2>1. PICK rest : rest = BlocksOf("pri")
    OBVIOUS
  <2>2. Now("pris", rest, syms, ptr, tbl, off, fr)'
    BY <1>1, <1>7, <2>1 DEF EndPubs, To, Now
  <2>3. /\ NamedIn("pris", rest) = BlocksOf("var") \cup BlocksOf("pub") /\ CountedIn("pris", rest) = BlocksOf("pub")
        /\ FramedIn("pris", rest) = {}
    BY <2>1 DEF NamedIn, CountedIn, FramedIn, EnteredBy
  <2>4. LegalSoFar("pris", rest, syms, ptr, tbl)
    BY <1>3, <1>5, <2>3, PhaseReached
  <2> QED
    BY <1>2, <2>2, <2>4, LegalReached
<1> QED
  BY <1>6, <1>7

(* and that of the PRI methods: all headers are counted.                   *)
LEMMA EndPrisLegal == LegalInv /\ EndPris => LegalInv'
<1> SUFFICES ASSUME LegalInv, EndPris PROVE LegalInv'
  OBVIOUS
<1>1. PICK at, todo, syms, ptr, tbl, off, fr :
        Now(at, todo, syms, ptr, tbl, off, fr) /\ Right(at, todo, syms, ptr, tbl, off, fr) /\ LegalSoFar(at, todo, syms, ptr, tbl)
  BY KnownTogether
<1>2. MemoryInv /\ MemoryInv' /\ AreBlocks /\ blocks' = blocks
  BY EndPrisHolds DEF LegalInv, MemoryInv, EndPris
<1>3. at = "pris" /\ todo = {} /\ "pris" \in Phases \ {"idle", "var"} /\ "dat" \in Phases
  BY <1>1 DEF Now, EndPris, Ended, Phases, Visiting
<1>4. NamesMet(syms, BlocksOf("var") \cup Subs) /\ HeadersMet(Subs) /\ FramesMet({}) /\ ptr <= HubOrgLimit
  <2>1. LegalSoFar("pris", todo, syms, ptr, tbl)
    BY <1>1, <1>3
  <2>2. NamedIn("pris", todo) = BlocksOf("var") \cup Subs /\ CountedIn("pris", todo) = Subs /\ FramedIn("pris", todo) = {}
    BY <1>3 DEF NamedIn, CountedIn, FramedIn, EnteredBy, Subs
  <2> QED
    BY <1>3, <2>1, <2>2, PhaseKnown
<1>5. PICK rest : rest = BlocksOf("dat")
  OBVIOUS
<1>6. PICK t : t = Append(tbl, [of |-> Nameless, public |-> FALSE, params |-> 0, results |-> 0, code |-> 0])
  OBVIOUS
<1>7. PICK end : end = off + 4
  OBVIOUS
<1>8. Now("dat", rest, syms, ptr, t, end, fr)'
  BY <1>1, <1>5, <1>6, <1>7 DEF EndPris, To, Now
<1>9. NamedIn("dat", rest) = BlocksOf("var") \cup Subs /\ CountedIn("dat", rest) = Subs /\ FramedIn("dat", rest) = {}
  BY <1>5 DEF NamedIn, CountedIn, FramedIn
<1>10. LegalSoFar("dat", rest, syms, ptr, t)
  BY <1>3, <1>4, <1>9, PhaseReached
<1> QED
  BY <1>2, <1>8, <1>10, LegalReached

(* A DAT block keeps it: its name is new, or the object has it twice.      *)
LEMMA DatBlockLegal == LegalInv /\ DatBlock => LegalInv'
<1> SUFFICES ASSUME LegalInv, DatBlock PROVE LegalInv'
  OBVIOUS
<1>1. PICK at, todo, syms, ptr, tbl, off, fr :
        Now(at, todo, syms, ptr, tbl, off, fr) /\ Right(at, todo, syms, ptr, tbl, off, fr) /\ LegalSoFar(at, todo, syms, ptr, tbl)
  BY KnownTogether
<1>2. MemoryInv /\ MemoryInv' /\ AreBlocks /\ blocks' = blocks
  BY DatBlockHolds DEF LegalInv, MemoryInv, DatBlock
<1>3. at = "dat" /\ todo # {} /\ "dat" \in Phases \ {"idle", "var"}
  BY <1>1 DEF Now, DatBlock, Visits, Phases, Visiting
<1>4. InPhase("dat", todo) /\ LegalSoFar("dat", todo, syms, ptr, tbl)
  BY <1>1, <1>3 DEF Right
<1>5. PICK b : b = Min(todo)
  OBVIOUS
<1>6. PICK rest : rest = todo \ {b}
  OBVIOUS
<1>7. PICK end : end = off + blocks[b].size
  OBVIOUS
<1>8. PICK N : N = (BlocksOf("var") \cup Subs) \cup (BlocksOf("dat") \ todo)
  OBVIOUS
<1>9. b \in BlocksOf("dat") /\ b \in todo /\ BlocksOf("dat") \ rest = (BlocksOf("dat") \ todo) \cup {b}
  <2>1. "dat" \in Visiting /\ KindIn("dat") = "dat"
    BY DEF Visiting, KindIn
  <2> QED
    BY <1>2, <1>3, <1>4, <1>5, <1>6, <2>1, PhaseGoesOn
<1>10. b \in DOMAIN blocks /\ b \notin BlocksOf("var") /\ DeclaredIn(b) = {0} /\ b \notin N
  BY <1>8, <1>9 DEF Subs, BlocksOf, DeclaredIn
<1>11. NamesMet(syms, N) /\ HeadersMet(Subs) /\ FramesMet({}) /\ ptr <= HubOrgLimit
  <2>1. NamedIn("dat", todo) = N /\ CountedIn("dat", todo) = Subs /\ FramedIn("dat", todo) = {}
    BY <1>8 DEF NamedIn, CountedIn, FramedIn
  <2> QED
    BY <1>3, <1>4, <2>1, PhaseKnown
<1>12. CASE ~Isnt(blocks[b].name, syms)
  <2>1. "name" \in Errors
    BY DEF Errors
  <2>2. Now("name", {}, syms, ptr, tbl, end, fr)'
    BY <1>1, <1>5, <1>7, <1>12 DEF DatBlock, Stop, Now, Visited, Block
  <2>3. ~Legal
    BY <1>2, <1>10, <1>11, <1>12, OwnNameTwice DEF Isnt
  <2>4. LegalSoFar("name", {}, syms, ptr, tbl)
    BY <2>1, <2>3, StoppedRightly
  <2> QED
    BY <1>2, <2>2, <2>4, LegalReached
<1>13. CASE Isnt(blocks[b].name, syms)
  <2>1. PICK sym : sym = [at |-> off]
    OBVIOUS
  <2>2. PICK more : more = With(syms, blocks[b].name, sym)
    OBVIOUS
  <2>3. Now("dat", rest, more, ptr, tbl, end, fr)'
    BY <1>1, <1>5, <1>6, <1>7, <1>13, <2>1, <2>2 DEF DatBlock, To, Now, Visited, Block
  <2>4. PICK M : M = N \cup {b}
    OBVIOUS
  <2>5. NamesMet(more, M)
    BY <1>2, <1>10, <1>11, <1>13, <2>2, <2>4, OwnNameComesIn DEF Isnt
  <2>6. NamedIn("dat", rest) = M /\ CountedIn("dat", rest) = Subs /\ FramedIn("dat", rest) = {}
    BY <1>8, <1>9, <2>4 DEF NamedIn, CountedIn, FramedIn
  <2>7. LegalSoFar("dat", rest, more, ptr, tbl)
    BY <1>3, <1>11, <2>5, <2>6, PhaseReached
  <2> QED
    BY <1>2, <2>3, <2>7, LegalReached
<1> QED
  BY <1>12, <1>13

(* The end of the DAT blocks keeps it: all names are met.                  *)
LEMMA EndDatLegal == LegalInv /\ EndDat => LegalInv'
<1> SUFFICES ASSUME LegalInv, EndDat PROVE LegalInv'
  OBVIOUS
<1>1. PICK at, todo, syms, ptr, tbl, off, fr :
        Now(at, todo, syms, ptr, tbl, off, fr) /\ Right(at, todo, syms, ptr, tbl, off, fr) /\ LegalSoFar(at, todo, syms, ptr, tbl)
  BY KnownTogether
<1>2. MemoryInv /\ MemoryInv' /\ AreBlocks /\ blocks' = blocks
  BY EndDatHolds DEF LegalInv, MemoryInv, EndDat
<1>3. at = "dat" /\ todo = {} /\ "dat" \in Phases \ {"idle", "var"}
  BY <1>1 DEF Now, EndDat, Ended, Phases, Visiting
<1>4. "done" \in Phases /\ "pub_code" \in Phases /\ "done" \notin {"idle", "var", "pubs", "pris"} /\ "pub_code" \notin {"idle", "var", "pubs", "pris"}
  BY DEF Phases, Visiting
<1>5. NamesMet(syms, AllNamed) /\ HeadersMet(Subs) /\ FramesMet({}) /\ ptr <= HubOrgLimit
  <2>1. LegalSoFar("dat", todo, syms, ptr, tbl)
    BY <1>1, <1>3
  <2>2. NamedIn("dat", todo) = AllNamed /\ CountedIn("dat", todo) = Subs /\ FramedIn("dat", todo) = {}
    BY <1>3 DEF NamedIn, CountedIn, FramedIn, AllNamed
  <2> QED
    BY <1>3, <2>1, <2>2, PhaseKnown
<1>6. CASE PasmMode(blocks)
  <2>1. Now("done", {}, syms, ptr, tbl, off, fr)'
    BY <1>1, <1>6 DEF EndDat, Stop, Now
  <2>2. Subs = {}
    BY <1>6 DEF PasmMode, BlocksOf, Subs
  <2>3. NamedIn("done", {}) = AllNamed /\ CountedIn("done", {}) = Subs /\ FramedIn("done", {}) = {}
    BY <2>2 DEF NamedIn, CountedIn, FramedIn, AllNamed
  <2>4. LegalSoFar("done", {}, syms, ptr, tbl)
    BY <1>4, <1>5, <2>3, PhaseReached
  <2> QED
    BY <1>2, <2>1, <2>4, LegalReached
<1>7. CASE ~PasmMode(blocks)
  <2>1. PICK rest : rest = BlocksOf("pub")
    OBVIOUS
  <2>2. Now("pub_code", rest, syms, ptr, tbl, off, fr)'
    BY <1>1, <1>7, <2>1 DEF EndDat, To, Now
  <2>3. NamedIn("pub_code", rest) = AllNamed /\ CountedIn("pub_code", rest) = Subs /\ FramedIn("pub_code", rest) = {}
    BY <2>1 DEF NamedIn, CountedIn, FramedIn, AllNamed, EnteredBy
  <2>4. LegalSoFar("pub_code", rest, syms, ptr, tbl)
    BY <1>4, <1>5, <2>3, PhaseReached
  <2> QED
    BY <1>2, <2>2, <2>4, LegalReached
<1> QED
  BY <1>6, <1>7

(* The second pass over a header keeps it: no name is there twice.         *)
LEMMA MethodLegal == ASSUME NEW name \in {"pub_code", "pri_code"} PROVE LegalInv /\ Method(name) => LegalInv'
<1> SUFFICES ASSUME LegalInv, Method(name) PROVE LegalInv'
  OBVIOUS
<1>1. PICK at, todo, syms, ptr, tbl, off, fr :
        Now(at, todo, syms, ptr, tbl, off, fr) /\ Right(at, todo, syms, ptr, tbl, off, fr) /\ LegalSoFar(at, todo, syms, ptr, tbl)
  BY KnownTogether
<1>2. MemoryInv /\ MemoryInv' /\ AreBlocks /\ blocks' = blocks
  BY MethodHolds DEF LegalInv, MemoryInv, Method
<1>3. at = name /\ todo # {} /\ name \in Phases \ {"idle", "var", "pubs", "pris"}
  BY <1>1 DEF Now, Method, Visits, Phases, Visiting
<1>4. InPhase(name, todo) /\ LegalSoFar(name, todo, syms, ptr, tbl)
  BY <1>1, <1>3 DEF Right
<1>5. PICK b : b = Min(todo)
  OBVIOUS
<1>6. PICK rest : rest = todo \ {b}
  OBVIOUS
<1>7. PICK S : S = EnteredBy(name, todo)
  OBVIOUS
<1>8. b \in Subs /\ EnteredBy(name, rest) = S \cup {b}
  <2>1. name \in {"pubs", "pris", "pub_code", "pri_code"}
    OBVIOUS
  <2>2. b \in Subs \ S /\ EnteredBy(name, rest) = S \cup {b}
    BY <1>2, <1>3, <1>4, <1>5, <1>6, <1>7, <2>1, NextMethod
  <2> QED
    BY <2>2
<1>9. NamesMet(syms, AllNamed) /\ HeadersMet(Subs) /\ FramesMet(S) /\ ptr <= HubOrgLimit
  <2>1. NamedIn(name, todo) = AllNamed /\ CountedIn(name, todo) = Subs /\ FramedIn(name, todo) = S
    BY <1>7 DEF NamedIn, CountedIn, FramedIn, AllNamed
  <2> QED
    BY <1>3, <1>4, <2>1, PhaseKnown
<1>10. mainSymbols = syms /\ methods = tbl /\ pass = [at |-> name, todo |-> todo] /\ offset = off /\ varPtr = ptr /\ frames = fr
  BY <1>1, <1>3 DEF Now
<1>11. Visited = b /\ Block = blocks[b]
  BY <1>5, <1>10 DEF Visited, Block
<1>12. PICK f : f = SubFrame(blocks[b])
  OBVIOUS
<1>13. /\ f.err \in {Fine, "name", "locals"}
       /\ f.err = "name" => HeadTwice(b)
       /\ f.err = Fine => ~HeadTwice(b)
  BY <1>2, <1>8, <1>12, FrameNames
<1>14. NamesMet(mainSymbols, AllNamed)
  BY <1>9, <1>10
<1>15. CASE f.err # Fine
  <2>1. PICK why : why = f.err
    OBVIOUS
  <2>2. why \in {"name", "locals"} /\ why \in Errors
    BY <1>13, <1>15, <2>1 DEF Errors
  <2>3. ASSUME why = "name" PROVE ~Legal
    <3>1. HeadTwice(b)
      BY <1>13, <2>1, <2>3
    <3> QED
      BY <1>2, <1>8, <1>14, <3>1, TwiceNotLegal
  <2>4. pass' = [at |-> why, todo |-> {}] /\ UNCHANGED <<mainSymbols, methods, offset, varPtr, frames>>
    BY <1>11, <1>12, <1>15, <2>1 DEF Method, Stop
  <2>5. Now(why, {}, syms, ptr, tbl, off, fr)'
    BY <1>10, <2>4 DEF Now
  <2>6. LegalSoFar(why, {}, syms, ptr, tbl)
    BY <2>2, <2>3, StoppedRightly
  <2> QED
    BY <1>2, <2>5, <2>6, LegalReached
<1>16. CASE f.err = Fine
  <2>1. PICK t : t = methods'
    OBVIOUS
  <2>2. PICK end : end = offset'
    OBVIOUS
  <2>3. PICK more : more = frames'
    OBVIOUS
  <2>4. To(name, pass.todo \ {Visited}) /\ UNCHANGED <<mainSymbols, varPtr>>
    BY <1>11, <1>12, <1>16 DEF Method
  <2>5. Now(name, rest, syms, ptr, t, end, more)'
    BY <1>6, <1>10, <1>11, <2>1, <2>2, <2>3, <2>4 DEF Now, To
  <2>6. HeaderNamesApart(b) /\ HeaderNamesNew(b)
    BY <1>2, <1>8, <1>13, <1>14, <1>16, PlacedLegal
  <2>7. FramesMet(S \cup {b})
    BY <1>9, <2>6 DEF FramesMet
  <2>8. NamedIn(name, rest) = AllNamed /\ CountedIn(name, rest) = Subs /\ FramedIn(name, rest) = S \cup {b}
    BY <1>8 DEF NamedIn, CountedIn, FramedIn, AllNamed
  <2>9. LegalSoFar(name, rest, syms, ptr, t)
    BY <1>3, <1>9, <2>7, <2>8, PhaseReached
  <2> QED
    BY <1>2, <2>5, <2>9, LegalReached
<1> QED
  BY <1>15, <1>16

(* The end of the PUB code keeps it,                                       *)
LEMMA EndPubCodeLegal == LegalInv /\ EndPubCode => LegalInv'
<1> SUFFICES ASSUME LegalInv, EndPubCode PROVE LegalInv'
  OBVIOUS
<1>1. PICK at, todo, syms, ptr, tbl, off, fr :
        Now(at, todo, syms, ptr, tbl, off, fr) /\ Right(at, todo, syms, ptr, tbl, off, fr) /\ LegalSoFar(at, todo, syms, ptr, tbl)
  BY KnownTogether
<1>2. MemoryInv /\ MemoryInv' /\ AreBlocks /\ blocks' = blocks
  BY EndPubCodeHolds DEF LegalInv, MemoryInv, EndPubCode
<1>3. at = "pub_code" /\ todo = {} /\ "pub_code" \in Phases \ {"idle", "var"} /\ "pri_code" \in Phases
  BY <1>1 DEF Now, EndPubCode, Ended, Phases, Visiting
<1>4. NamesMet(syms, AllNamed) /\ HeadersMet(Subs) /\ FramesMet(BlocksOf("pub")) /\ ptr <= HubOrgLimit
  <2>1. LegalSoFar("pub_code", todo, syms, ptr, tbl)
    BY <1>1, <1>3
  <2>2. NamedIn("pub_code", todo) = AllNamed /\ CountedIn("pub_code", todo) = Subs /\ FramedIn("pub_code", todo) = BlocksOf("pub")
    BY <1>3 DEF NamedIn, CountedIn, FramedIn, AllNamed, EnteredBy
  <2> QED
    BY <1>3, <2>1, <2>2, PhaseKnown
<1>5. PICK rest : rest = BlocksOf("pri")
  OBVIOUS
<1>6. Now("pri_code", rest, syms, ptr, tbl, off, fr)'
  BY <1>1, <1>5 DEF EndPubCode, To, Now
<1>7. NamedIn("pri_code", rest) = AllNamed /\ CountedIn("pri_code", rest) = Subs /\ FramedIn("pri_code", rest) = BlocksOf("pub")
  BY <1>5 DEF NamedIn, CountedIn, FramedIn, AllNamed, EnteredBy
<1>8. LegalSoFar("pri_code", rest, syms, ptr, tbl)
  BY <1>3, <1>4, <1>7, PhaseReached
<1> QED
  BY <1>2, <1>6, <1>8, LegalReached

(* and that of the PRI code: all frames were placed.                       *)
LEMMA EndPriCodeLegal == LegalInv /\ EndPriCode => LegalInv'
<1> SUFFICES ASSUME LegalInv, EndPriCode PROVE LegalInv'
  OBVIOUS
<1>1. PICK at, todo, syms, ptr, tbl, off, fr :
        Now(at, todo, syms, ptr, tbl, off, fr) /\ Right(at, todo, syms, ptr, tbl, off, fr) /\ LegalSoFar(at, todo, syms, ptr, tbl)
  BY KnownTogether
<1>2. MemoryInv /\ MemoryInv' /\ AreBlocks /\ blocks' = blocks
  BY EndPriCodeHolds DEF LegalInv, MemoryInv, EndPriCode
<1>3. at = "pri_code" /\ todo = {} /\ "pri_code" \in Phases \ {"idle", "var"} /\ "done" \in Phases
  BY <1>1 DEF Now, EndPriCode, Ended, Phases, Visiting
<1>4. NamesMet(syms, AllNamed) /\ HeadersMet(Subs) /\ FramesMet(Subs) /\ ptr <= HubOrgLimit
  <2>1. LegalSoFar("pri_code", todo, syms, ptr, tbl)
    BY <1>1, <1>3
  <2>2. NamedIn("pri_code", todo) = AllNamed /\ CountedIn("pri_code", todo) = Subs /\ FramedIn("pri_code", todo) = Subs
    BY <1>3 DEF NamedIn, CountedIn, FramedIn, AllNamed, EnteredBy, Subs
  <2> QED
    BY <1>3, <2>1, <2>2, PhaseKnown
<1>5. PICK t : t = methods'
  OBVIOUS
<1>6. Now("done", {}, syms, ptr, t, off, fr)'
  BY <1>1, <1>5 DEF EndPriCode, Stop, Now
<1>7. NamedIn("done", {}) = AllNamed /\ CountedIn("done", {}) = Subs /\ FramedIn("done", {}) = Subs
  BY DEF NamedIn, CountedIn, FramedIn, AllNamed
<1>8. LegalSoFar("done", {}, syms, ptr, t)
  BY <1>3, <1>4, <1>7, PhaseReached
<1> QED
  BY <1>2, <1>6, <1>8, LegalReached

(* At first nothing is known, and the invariant holds.                     *)
LEMMA InitLegal == AreBlocks /\ DeclarationsInit => LegalInv
<1> SUFFICES ASSUME AreBlocks, DeclarationsInit PROVE LegalInv
  OBVIOUS
<1>1. Now("idle", {}, NoSymbols, 4, <<>>, 0, <<>>)
  BY DEF DeclarationsInit, Idle, Now
<1>2. NamedIn("idle", {}) = {} /\ CountedIn("idle", {}) = {} /\ FramedIn("idle", {}) = {}
  BY DEF NamedIn, CountedIn, FramedIn
<1>3. "idle" \in Phases /\ Len(<<>>) = 0
  BY DEF Phases
<1>4. LegalSoFar("idle", {}, NoSymbols, 4, <<>>)
  <2>1. \E syms, ptr, tbl : syms = NoSymbols /\ ptr = 4 /\ tbl = <<>>
    OBVIOUS
  <2>2. PICK syms, ptr, tbl : syms = NoSymbols /\ ptr = 4 /\ tbl = <<>>
    BY <2>1
  <2>3. NamesMet(syms, {}) /\ HeadersMet({}) /\ FramesMet({}) /\ Len(tbl) = Cardinality({})
    BY <1>3, <2>2, NothingMet
  <2>4. LegalSoFar("idle", {}, syms, ptr, tbl)
    BY <1>2, <1>3, <2>3, PhaseReached
  <2> QED
    BY <2>2, <2>4
<1> QED
  BY <1>1, <1>4, InitHolds DEF LegalInv

(* Every step keeps it.                                                    *)
LEMMA NextLegal == LegalInv /\ [DeclarationsNext]_declVars => LegalInv'
<1> SUFFICES ASSUME LegalInv, [DeclarationsNext]_declVars PROVE LegalInv'
  OBVIOUS
<1>1. CASE Begin \/ VarBlock \/ EndVar
  BY <1>1, BeginLegal, VarBlockLegal, EndVarLegal
<1>2. CASE MethodId("pubs")
  BY <1>2, MethodIdLegal
<1>3. CASE MethodId("pris")
  BY <1>3, MethodIdLegal
<1>4. CASE EndPubs \/ EndPris \/ DatBlock \/ EndDat
  BY <1>4, EndPubsLegal, EndPrisLegal, DatBlockLegal, EndDatLegal
<1>5. CASE Method("pub_code")
  BY <1>5, MethodLegal
<1>6. CASE Method("pri_code")
  BY <1>6, MethodLegal
<1>7. CASE EndPubCode \/ EndPriCode
  BY <1>7, EndPubCodeLegal, EndPriCodeLegal
<1>8. CASE UNCHANGED declVars
  <2>1. PICK at, todo, syms, ptr, tbl, off, fr : Now(at, todo, syms, ptr, tbl, off, fr) /\ LegalSoFar(at, todo, syms, ptr, tbl)
    BY DEF LegalInv
  <2>2. MemoryInv /\ MemoryInv' /\ blocks' = blocks
    BY <1>8, StaysPut DEF LegalInv, declVars
  <2>3. Now(at, todo, syms, ptr, tbl, off, fr)'
    BY <1>8, <2>1 DEF Now, declVars
  <2> QED
    BY <2>1, <2>2, <2>3, LegalReached
<1> QED
  BY <1>1, <1>2, <1>3, <1>4, <1>5, <1>6, <1>7, <1>8 DEF DeclarationsNext

(* What the invariant says at the end and of a refusal.                    *)
LEMMA RefusalsAreRight == LegalInv => RefusedRightly
<1> SUFFICES ASSUME LegalInv PROVE RefusedRightly
  OBVIOUS
<1>1. PICK at, todo, syms, ptr, tbl, off, fr :
        Now(at, todo, syms, ptr, tbl, off, fr) /\ Right(at, todo, syms, ptr, tbl, off, fr) /\ LegalSoFar(at, todo, syms, ptr, tbl)
  BY KnownTogether
<1>2. AreBlocks
  BY DEF LegalInv, MemoryInv
<1>3. pass.at = at /\ varPtr = ptr
  BY <1>1 DEF Now
<1>4. ASSUME at = "done" PROVE Legal /\ ptr <= HubOrgLimit
  <2>1. "done" \in Phases \ {"idle", "var"} /\ LegalSoFar("done", todo, syms, ptr, tbl)
    BY <1>1, <1>4 DEF Phases
  <2>2. NamedIn("done", todo) = AllNamed /\ CountedIn("done", todo) = Subs /\ FramedIn("done", todo) = Subs
    BY DEF NamedIn, CountedIn, FramedIn, AllNamed
  <2>3. NamesMet(syms, AllNamed) /\ HeadersMet(Subs) /\ FramesMet(Subs) /\ ptr <= HubOrgLimit
    BY <2>1, <2>2, PhaseKnown
  <2>4. PasmMode(blocks) \/ BlocksOf("pub") # {}
    BY <1>1, <1>4 DEF Right, TableRight
  <2> QED
    BY <1>2, <2>3, <2>4, AllMet
<1>5. ASSUME at \in Errors \ {"space", "locals"} PROVE ~Legal
  BY <1>1, <1>5 DEF LegalSoFar
<1> QED
  BY <1>2, <1>3, <1>4, <1>5 DEF RefusedRightly

(* An object is refused only when it is not legal, or has no room for its  *)
(* variables or a method's locals, and is accepted only when it is legal   *)
(* and its variables fit: whatever its blocks and the limits, and although *)
(* names are met in the order of the passes and not in that of the source  *)
(* (spinResolver.ts:3268, 3612).                                           *)
THEOREM ObjectsRefusedRightly == DeclarationsSpec => []RefusedRightly
<1>1. AreBlocks /\ DeclarationsInit => LegalInv
  BY InitLegal
<1>2. LegalInv /\ [DeclarationsNext]_declVars => LegalInv'
  BY NextLegal
<1>3. LegalInv => RefusedRightly
  BY RefusalsAreRight
<1> QED
  BY <1>1, <1>2, <1>3, PTL DEF DeclarationsSpec
=============================================================================
