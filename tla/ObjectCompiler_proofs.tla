----------------------- MODULE ObjectCompiler_proofs -----------------------
(***************************************************************************)
(* What ObjectCompiler does for any objects, sources, settings and bounds: *)
(* every index leads to what it is an index of (TypeCorrect), the          *)
(* accumulators are balanced (AccumulatorsBalanced), every site of an      *)
(* entry has its record (SitesRecorded).  All three follow from one        *)
(* inductive invariant, IInv.                                              *)
(*                                                                         *)
(* Images and record tables are built with folds.  What a fold is of any   *)
(* sequence is proved here by a least counterexample: FoldExists shows     *)
(* that the function the fold chooses is there, FoldKeeps that it keeps    *)
(* what one step keeps.                                                    *)
(***************************************************************************)
EXTENDS ObjectCompiler, FiniteSetTheorems, WellFoundedInduction, TLAPS

(* A sequence, of whatever values.                                         *)
IsSeq(s) == s \in Seq(Range(s))

(* Every set of numbers has a least one.                                   *)
LEMMA Least ==
  ASSUME NEW T \in SUBSET Nat, T # {}
  PROVE  \E n \in T : \A m \in T : n <= m
<1>1. \E n \in T : \A m \in T : <<m, n>> \notin OpToRel(<, Nat)
  BY NatLessThanWellFounded, WFMin
<1>2. PICK n \in T : \A m \in T : <<m, n>> \notin OpToRel(<, Nat)
  BY <1>1
<1>3. \A m \in T : m \in Nat /\ n \in Nat /\ ~(m < n)
  BY <1>2 DEF OpToRel
<1>4. \A m \in T : n <= m
  BY <1>3, SMT
<1> QED
  BY <1>4

(* ... and a finite one that is not empty a greatest: a finite set that is *)
(* bounded, here.                                                          *)
LEMMA Greatest ==
  ASSUME NEW n \in Nat, NEW T \in SUBSET (1..n), T # {}
  PROVE  Max(T) \in T /\ \A m \in T : m <= Max(T)
<1> DEFINE D == {n - m : m \in T}
<1>0. \A m \in T : m \in 1..n /\ n - m \in Nat
  BY SMT
<1>1. D \in SUBSET Nat /\ D # {}
  BY <1>0
<1>2. PICK d \in D : \A e \in D : d <= e
  BY <1>1, Least
<1>3. PICK x \in T : d = n - x
  BY <1>2
<1>4. \A m \in T : x >= m
  <2> TAKE m \in T
  <2>1. n - x <= n - m
    BY <1>2, <1>3
  <2> QED
    BY <2>1, SMT
<1>5. Max(T) \in T /\ \A m \in T : Max(T) >= m
  BY <1>4 DEF Max
<1> QED
  BY <1>5, SMT

(* Min of a set of numbers is its least member.                            *)
LEMMA MinIs ==
  ASSUME NEW T \in SUBSET Nat, T # {}
  PROVE  Min(T) \in T /\ \A m \in T : Min(T) <= m
<1>1. PICK n \in T : \A m \in T : n <= m
  BY Least
<1> QED
  BY <1>1 DEF Min

(* What makes a sequence.                                                  *)
LEMMA SeqFacts ==
  ASSUME NEW s, IsSeq(s)
  PROVE  Len(s) \in Nat /\ DOMAIN s = 1..Len(s) /\ \A i \in 1..Len(s) : s[i] \in Range(s)
  BY SMT DEF IsSeq

(* A function from the first n numbers is a sequence of that length.       *)
LEMMA SeqMade ==
  ASSUME NEW S, NEW n \in Nat, NEW s \in [1..n -> S]
  PROVE  IsSeq(s) /\ Len(s) = n /\ s \in Seq(S)
  BY SMT DEF IsSeq, Range

(* A sequence over a set has its values in the set.                        *)
LEMMA SeqOfSet ==
  ASSUME NEW S, NEW s \in Seq(S)
  PROVE  IsSeq(s) /\ Range(s) \subseteq S
  BY SMT DEF IsSeq, Range

(* ... and is one over every larger set.                                   *)
LEMMA SeqWiden ==
  ASSUME NEW s, IsSeq(s), NEW S, Range(s) \subseteq S
  PROVE  s \in Seq(S)
  BY SMT DEF IsSeq

(* One element more at the end.                                            *)
LEMMA SeqAppend ==
  ASSUME NEW s, IsSeq(s), NEW e
  PROVE  /\ IsSeq(Append(s, e)) /\ Len(Append(s, e)) = Len(s) + 1
         /\ \A i \in 1..Len(s) : Append(s, e)[i] = s[i]
         /\ Append(s, e)[Len(s) + 1] = e
<1> DEFINE S == Range(s) \cup {e}
<1>1. s \in Seq(S)
  BY SeqWiden
<1>2. Append(s, e) \in Seq(S)
  BY <1>1
<1>3. IsSeq(Append(s, e))
  BY <1>2, SeqOfSet
<1> QED
  BY <1>1, <1>3

(* One sequence behind another.                                            *)
LEMMA SeqConcat ==
  ASSUME NEW s, IsSeq(s), NEW t, IsSeq(t)
  PROVE  /\ IsSeq(s \o t) /\ Len(s \o t) = Len(s) + Len(t)
         /\ \A i \in 1..Len(s) : (s \o t)[i] = s[i]
         /\ \A i \in 1..Len(t) : (s \o t)[Len(s) + i] = t[i]
<1> DEFINE S == Range(s) \cup Range(t)
<1>1. s \in Seq(S) /\ t \in Seq(S)
  BY SeqWiden
<1>2. s \o t \in Seq(S)
  BY <1>1
<1>3. IsSeq(s \o t)
  BY <1>2, SeqOfSet
<1> QED
  BY <1>1, <1>3, SMT

(* The elements between two marks.                                         *)
LEMMA SeqPart ==
  ASSUME NEW s, IsSeq(s), NEW m \in Nat, NEW n \in Nat, m <= n, n <= Len(s)
  PROVE  /\ IsSeq(SubSeq(s, m + 1, n)) /\ Len(SubSeq(s, m + 1, n)) = n - m
         /\ \A i \in 1..(n - m) : SubSeq(s, m + 1, n)[i] = s[m + i]
<1> DEFINE S == Range(s)
<1>1. s \in Seq(S)
  BY SeqWiden
<1>2. SubSeq(s, m + 1, n) \in Seq(S)
  BY <1>1, SMT
<1>3. IsSeq(SubSeq(s, m + 1, n))
  BY <1>2, SeqOfSet
<1> QED
  BY <1>1, <1>3, SMT

(* The empty sequence.                                                     *)
LEMMA SeqEmpty == IsSeq(<< >>) /\ Len(<< >>) = 0 /\ DOMAIN << >> = {}
  BY SMT DEF IsSeq, Range

(* Ascending enumerates a finite set of numbers.                           *)
LEMMA AscendingIs ==
  ASSUME NEW S \in SUBSET Nat, IsFiniteSet(S)
  PROVE  IsSeq(Ascending(S)) /\ Range(Ascending(S)) = S
<1> DEFINE n == Cardinality(S)
           below == [x \in S |-> {y \in S : y < x}]
           rank == [x \in S |-> Cardinality(below[x])]
<1>1. n \in Nat
  BY FS_CardinalityType
<1>2. ASSUME NEW x \in S PROVE IsFiniteSet(below[x]) /\ rank[x] \in 0..(n - 1)
  <2>1. below[x] \subseteq S /\ x \notin below[x]
    OBVIOUS
  <2>2. /\ IsFiniteSet(below[x]) /\ Cardinality(below[x]) <= n
        /\ Cardinality(below[x]) = n => below[x] = S
    BY <2>1, FS_Subset, Zenon
  <2>3. Cardinality(below[x]) \in Nat /\ Cardinality(below[x]) # n
    BY <2>1, <2>2, FS_CardinalityType
  <2> QED
    BY <1>1, <2>2, <2>3, SMT
<1>3. ASSUME NEW x \in S, NEW y \in S, x < y PROVE rank[x] # rank[y]
  <2>1. below[x] \subseteq below[y] /\ x \in below[y] /\ x \notin below[x]
    <3>1. \A z \in S : z < x => z < y
      BY <1>3, SMT
    <3>2. ~(x < x)
      BY SMT
    <3> QED
      BY <1>3, <3>1, <3>2
  <2>2. IsFiniteSet(below[y])
    BY <1>2
  <2>3. Cardinality(below[x]) = Cardinality(below[y]) => below[x] = below[y]
    BY <2>1, <2>2, FS_Subset, Zenon
  <2> QED
    BY <2>1, <2>3
<1>4. \A x, y \in S : rank[x] = rank[y] => x = y
  <2> SUFFICES ASSUME NEW x \in S, NEW y \in S, rank[x] = rank[y], x # y PROVE FALSE
    OBVIOUS
  <2>1. x < y \/ y < x
    BY SMT
  <2> QED
    BY <1>3, <2>1
<1>5. ASSUME NEW k \in 0..(n - 1) PROVE \E x \in S : rank[x] = k
  <2> SUFFICES ASSUME \A x \in S : rank[x] # k PROVE FALSE
    OBVIOUS
  <2> DEFINE T == (0..(n - 1)) \ {k}
  <2>1. IsFiniteSet(0..(n - 1)) /\ Cardinality(0..(n - 1)) = n
    <3> DEFINE m == n - 1
    <3>0. 0 \in Int /\ m \in Int
      BY <1>1, SMT
    <3>1. IsFiniteSet(0..m) /\ Cardinality(0..m) = IF 0 > m THEN 0 ELSE m - 0 + 1
      <4> HIDE DEF m
      <4> QED
        BY <3>0, FS_Interval
    <3> QED
      BY <1>1, <3>1, SMT
  <2>2. IsFiniteSet(T) /\ Cardinality(T) = n - 1
    <3>1. \A D : IsFiniteSet(D) /\ k \in D =>
            IsFiniteSet(D \ {k}) /\ Cardinality(D \ {k}) = Cardinality(D) - 1
      BY FS_RemoveElement
    <3> QED
      BY <2>1, <3>1
  <2>3. Cardinality(T) < n
    BY <1>1, <2>2, SMT
  <2>4. rank \in [S -> T]
    BY <1>2
  <2>5. \E x, y \in S : x # y /\ rank[x] = rank[y]
    <3> HIDE DEF T, rank
    <3> QED
      BY <2>2, <2>3, <2>4, FS_PigeonHole
  <2> QED
    BY <1>4, <2>5
<1> DEFINE a == Ascending(S)
<1>6. a = [i \in 1..n |-> CHOOSE x \in S : Cardinality({y \in S : y < x}) = i - 1]
  BY DEF Ascending
<1>7. ASSUME NEW i \in 1..n PROVE a[i] \in S /\ rank[a[i]] = i - 1
  <2>1. i - 1 \in 0..(n - 1)
    BY <1>1, SMT
  <2>2. PICK x \in S : rank[x] = i - 1
    BY <1>5, <2>1
  <2>3. Cardinality({y \in S : y < x}) = i - 1
    BY <2>2
  <2>4. a[i] = CHOOSE z \in S : Cardinality({y \in S : y < z}) = i - 1
    BY <1>6
  <2>5. a[i] \in S /\ Cardinality({y \in S : y < a[i]}) = i - 1
    BY <2>3, <2>4, Zenon
  <2> QED
    BY <2>5
<1>8. ASSUME NEW x \in S PROVE \E i \in 1..n : a[i] = x
  <2>1. rank[x] + 1 \in 1..n /\ (rank[x] + 1) - 1 = rank[x]
    BY <1>1, <1>2, SMT
  <2>2. a[rank[x] + 1] \in S /\ rank[a[rank[x] + 1]] = rank[x]
    BY <1>7, <2>1
  <2> QED
    BY <1>4, <2>1, <2>2
<1>9. a \in [1..n -> S]
  BY <1>6, <1>7
<1>10. IsSeq(a)
  BY <1>1, <1>9, SeqMade
<1>11. Range(a) = S
  BY <1>8, <1>9 DEF Range
<1> QED
  BY <1>10, <1>11

-----------------------------------------------------------------------------
(* Folds.                                                                  *)

(* A function on the sets of numbers up to n that takes the greatest one   *)
(* of a set last.                                                          *)
IsFold(f, V, base, n, step) ==
  /\ f \in [SUBSET (1..n) -> V]
  /\ \A s \in SUBSET (1..n) :
       f[s] = IF s = {} THEN base ELSE step[<<f[s \ {Max(s)}], Max(s)>>]

(* There is one for every step.                                            *)
LEMMA FoldExists ==
  ASSUME NEW V, NEW base \in V, NEW n \in Nat, NEW step \in [V \X (1..n) -> V]
  PROVE  \E f : IsFold(f, V, base, n, step)
<1> DEFINE Good(k) == \E f \in [SUBSET (1..k) -> V] : \A s \in SUBSET (1..k) :
                        f[s] = IF s = {} THEN base ELSE step[<<f[s \ {Max(s)}], Max(s)>>]
           Bad == {k \in 0..n : ~Good(k)}
<1> SUFFICES ASSUME Bad # {} PROVE FALSE
  <2>1. n \in 0..n
    BY SMT
  <2>2. Good(n)
    BY <2>1
  <2> QED
    BY <2>2 DEF IsFold
<1>1. Bad \in SUBSET Nat
  BY SMT
<1>2. PICK k \in Bad : \A m \in Bad : k <= m
  BY <1>1, Least
<1>3. k # 0
  <2>1. SUBSET (1..0) = {{}}
    BY SMT
  <2>2. [s \in SUBSET (1..0) |-> base] \in [SUBSET (1..0) -> V]
    OBVIOUS
  <2>3. Good(0)
    BY <2>1, <2>2
  <2> QED
    BY <2>3
<1>4. k \in 1..n /\ k - 1 \in 0..n /\ ~(k <= k - 1)
  BY <1>2, <1>3, SMT
<1>5. Good(k - 1)
  BY <1>2, <1>4
<1>6. PICK f \in [SUBSET (1..(k - 1)) -> V] : \A s \in SUBSET (1..(k - 1)) :
        f[s] = IF s = {} THEN base ELSE step[<<f[s \ {Max(s)}], Max(s)>>]
  BY <1>5
<1> DEFINE g == [s \in SUBSET (1..k) |->
                  IF k \in s THEN step[<<f[s \ {k}], k>>] ELSE f[s]]
<1>7. ASSUME NEW s \in SUBSET (1..k), k \in s
      PROVE  s \ {k} \in SUBSET (1..(k - 1)) /\ Max(s) = k
  <2>1. \A x \in s : x # k => x \in 1..(k - 1)
    BY <1>4, SMT
  <2>2. k \in Nat
    BY <1>4, SMT
  <2>3. Max(s) \in s /\ k <= Max(s)
    BY <1>7, <2>2, Greatest
  <2>4. Max(s) = k
    <3>1. Max(s) # k => Max(s) \in 1..(k - 1)
      BY <2>1, <2>3
    <3>2. \A z \in 1..(k - 1) : ~(k <= z)
      BY <2>2, SMT
    <3> QED
      BY <2>3, <3>1, <3>2
  <2> QED
    BY <2>1, <2>4
<1>8. ASSUME NEW s \in SUBSET (1..k), k \notin s PROVE s \in SUBSET (1..(k - 1))
  <2>1. \A x \in s : x \in 1..(k - 1)
    BY <1>4, <1>8, SMT
  <2> QED
    BY <2>1
<1>9. \A s \in SUBSET (1..(k - 1)) : s \in SUBSET (1..k) /\ k \notin s
  <2>1. 1..(k - 1) \subseteq 1..k /\ k \notin 1..(k - 1)
    BY <1>4, SMT
  <2> QED
    BY <2>1
<1>10. g \in [SUBSET (1..k) -> V]
  <2>1. ASSUME NEW s \in SUBSET (1..k) PROVE g[s] \in V
    <3>1. CASE k \in s
      <4>1. <<f[s \ {k}], k>> \in V \X (1..n)
        BY <1>4, <1>6, <1>7, <3>1
      <4> QED
        BY <3>1, <4>1
    <3>2. CASE k \notin s
      BY <1>6, <1>8, <3>2
    <3> QED
      BY <3>1, <3>2
  <2> QED
    BY <2>1
<1>11. ASSUME NEW s \in SUBSET (1..k)
       PROVE  g[s] = IF s = {} THEN base ELSE step[<<g[s \ {Max(s)}], Max(s)>>]
  <2>1. CASE k \in s
    <3>1. Max(s) = k /\ s \ {k} \in SUBSET (1..(k - 1)) /\ s # {}
      BY <1>7, <2>1
    <3>2. g[s \ {k}] = f[s \ {k}]
      BY <1>9, <3>1
    <3> QED
      BY <2>1, <3>1, <3>2
  <2>2. CASE k \notin s
    <3>1. s \in SUBSET (1..(k - 1)) /\ g[s] = f[s]
      BY <1>8, <2>2
    <3>2. CASE s = {}
      BY <1>6, <3>1, <3>2
    <3>3. CASE s # {}
      <4>1. s \ {Max(s)} \in SUBSET (1..(k - 1))
        BY <3>1
      <4>2. g[s \ {Max(s)}] = f[s \ {Max(s)}]
        BY <1>9, <4>1
      <4> QED
        BY <1>6, <3>1, <3>3, <4>2
    <3> QED
      BY <3>2, <3>3
  <2> QED
    BY <2>1, <2>2
<1>12. Good(k)
  BY <1>10, <1>11
<1> QED
  BY <1>2, <1>12

(* What the base has and the step keeps, the fold has.                     *)
LEMMA FoldKeeps ==
  ASSUME NEW V, NEW n \in Nat, NEW g, g[{}] \in V,
         \A s \in SUBSET (1..n) : s # {} /\ g[s \ {Max(s)}] \in V => g[s] \in V
  PROVE  g[1..n] \in V
<1> DEFINE Bad == {k \in 0..n : g[1..k] \notin V}
<1> SUFFICES ASSUME Bad # {} PROVE FALSE
  <2>1. n \in 0..n
    BY SMT
  <2> QED
    BY <2>1
<1>1. Bad \in SUBSET Nat
  BY SMT
<1>2. PICK k \in Bad : \A m \in Bad : k <= m
  BY <1>1, Least
<1>3. k # 0
  <2>1. 1..0 = {}
    BY SMT
  <2> QED
    BY <2>1
<1>4. k \in 1..n /\ k \in Nat /\ k - 1 \in 0..n /\ ~(k <= k - 1)
  BY <1>2, <1>3, SMT
<1>5. g[1..(k - 1)] \in V
  BY <1>2, <1>4
<1>6. 1..k \in SUBSET (1..n) /\ 1..k # {} /\ k \in 1..k
  BY <1>4, SMT
<1>7. Max(1..k) = k
  <2>1. Max(1..k) \in 1..k /\ k <= Max(1..k)
    BY <1>4, <1>6, Greatest
  <2> QED
    BY <1>4, <2>1, SMT
<1>8. (1..k) \ {k} = 1..(k - 1)
  BY <1>4, SMT
<1> QED
  BY <1>2, <1>5, <1>6, <1>7, <1>8

-----------------------------------------------------------------------------
(* The record table and the images.                                        *)

(* The place of a record in the table is a number.                         *)
LEMMA SlotIs ==
  ASSUME NEW table, IsSeq(table), NEW r
  PROVE  Slot(table, r) \in Nat
<1> DEFINE I == {i \in 1..Len(table) : table[i] = r}
<1>1. Len(table) \in Nat
  BY SeqFacts
<1>2. I \in SUBSET Nat
  BY <1>1, SMT
<1>3. I # {} => Min(I) \in Nat
  BY <1>2, MinIs
<1>4. SelectInSeq(table, LAMBDA x : x = r) = IF I # {} THEN Min(I) ELSE 0
  BY DEF SelectInSeq
<1>5. SelectInSeq(table, LAMBDA x : x = r) \in Nat
  BY <1>3, <1>4
<1> QED
  BY <1>5 DEF Slot

(* Records that are injected only make the table longer, or leave it.      *)
LEMMA InjectAllIs ==
  ASSUME NEW table, IsSeq(table), NEW recs, IsSeq(recs)
  PROVE  IsSeq(InjectAll(table, recs))
<1> DEFINE R == Range(table) \cup Range(recs)
           V == Seq(R)
           n == Len(recs)
           step == [p \in V \X (1..n) |-> Inject(p[1], recs[p[2]])]
           Folds(f) == f = [s \in SUBSET DOMAIN recs |->
                              IF s = {} THEN table
                              ELSE Inject(f[s \ {Max(s)}], recs[Max(s)])]
<1>1. n \in Nat /\ DOMAIN recs = 1..n /\ \A i \in 1..n : recs[i] \in R
  BY SeqFacts
<1>2. table \in V
  BY SeqWiden
<1>3. \A t \in V, i \in 1..n : Inject(t, recs[i]) \in V
  BY <1>1 DEF Inject
<1>4. step \in [V \X (1..n) -> V]
  BY <1>3
<1>5. PICK f : IsFold(f, V, table, n, step)
  <2>1. n \in Nat /\ table \in V /\ step \in [V \X (1..n) -> V]
    BY <1>1, <1>2, <1>4
  <2> HIDE DEF V, n, step
  <2> QED
    BY <2>1, FoldExists
<1>6. ASSUME NEW s \in SUBSET (1..n), s # {} PROVE Max(s) \in 1..n /\ s \ {Max(s)} \in SUBSET (1..n)
  BY <1>1, <1>6, Greatest
<1>7. ASSUME NEW s \in SUBSET (1..n), s # {} PROVE f[s] = Inject(f[s \ {Max(s)}], recs[Max(s)])
  <2>1. <<f[s \ {Max(s)}], Max(s)>> \in V \X (1..n)
    BY <1>5, <1>6, <1>7 DEF IsFold
  <2> QED
    BY <1>5, <1>7, <2>1 DEF IsFold
<1>8. Folds(f)
  BY <1>1, <1>5, <1>7 DEF IsFold
<1> DEFINE iter == CHOOSE g : Folds(g)
<1>9. Folds(iter)
  BY <1>8
<1>10. InjectAll(table, recs) = iter[1..n]
  BY <1>1 DEF InjectAll, FoldLeft, MapThenFoldSet
<1>11. iter[1..n] \in V
  <2>1. iter[{}] \in V
    BY <1>1, <1>2, <1>9
  <2>2. \A s \in SUBSET (1..n) : s # {} /\ iter[s \ {Max(s)}] \in V => iter[s] \in V
    BY <1>1, <1>3, <1>6, <1>9
  <2> HIDE DEF iter, V, n
  <2> QED
    BY <1>1, <2>1, <2>2, FoldKeeps
<1> QED
  BY <1>10, <1>11, SeqOfSet

(* Images are joined site by site: where every image has cells and sites,  *)
(* so has the whole, and nothing is named in it that an image did not name.*)
LEMMA SpliceIs ==
  ASSUME NEW kids, IsSeq(kids), NEW O,
         \A i \in 1..Len(kids) : IsSeq(kids[i].cells) /\ kids[i].sites \in Seq([at : Nat, orig : O])
  PROVE  IsSeq(Splice(kids).cells) /\ Splice(kids).sites \in Seq([at : Nat, orig : O])
<1> DEFINE n == Len(kids)
           C == UNION {Range(kids[i].cells) : i \in 1..n}
           S == [at : Nat, orig : O]
           V == [cells : Seq(C), sites : Seq(S)]
           base == [cells |-> << >>, sites |-> << >>]
           step == [p \in V \X (1..n) |-> Joined(p[1], kids[p[2]])]
           Folds(f) == f = [s \in SUBSET DOMAIN kids |->
                              IF s = {} THEN base
                              ELSE Joined(f[s \ {Max(s)}], kids[Max(s)])]
<1>1. n \in Nat /\ DOMAIN kids = 1..n
  BY SeqFacts
<1>2. base \in V
  BY SMT
<1>3. ASSUME NEW t \in V, NEW i \in 1..n PROVE Joined(t, kids[i]) \in V
  <2> DEFINE k == kids[i]
             moved == [j \in DOMAIN k.sites |-> [at |-> k.sites[j].at + Len(t.cells), orig |-> k.sites[j].orig]]
  <2>1. t.cells \in Seq(C) /\ t.sites \in Seq(S)
    BY DEF V
  <2>2. k.cells \in Seq(C)
    <3>1. IsSeq(k.cells) /\ Range(k.cells) \subseteq C
      OBVIOUS
    <3> QED
      BY <3>1, SeqWiden
  <2>3. moved \in Seq(S)
    <3>1. k.sites \in Seq(S)
      OBVIOUS
    <3>2. Len(t.cells) \in Nat
      <4> HIDE DEF C
      <4> QED
        BY <2>1
    <3>3. Len(k.sites) \in Nat /\ DOMAIN k.sites = 1..Len(k.sites) /\ \A j \in 1..Len(k.sites) : k.sites[j] \in S
      <4> HIDE DEF k, S
      <4> QED
        BY <3>1
    <3>5. ASSUME NEW j \in 1..Len(k.sites) PROVE moved[j] \in S
      <4>1. \A x \in S, m \in Nat : [at |-> x.at + m, orig |-> x.orig] \in S
        BY SMT
      <4>2. moved[j] = [at |-> k.sites[j].at + Len(t.cells), orig |-> k.sites[j].orig]
        BY <3>3
      <4>3. k.sites[j] \in S
        BY <3>3
      <4> HIDE DEF S, moved, k
      <4> QED
        BY <3>2, <4>1, <4>2, <4>3
    <3>4. moved \in [1..Len(k.sites) -> S]
      BY <3>3, <3>5
    <3> HIDE DEF moved, S
    <3> QED
      BY <3>3, <3>4, SeqMade
  <2>4. t.sites \o moved \in Seq(S) /\ t.cells \o k.cells \in Seq(C)
    <3> HIDE DEF moved, S, C, k
    <3> QED
      BY <2>1, <2>2, <2>3
  <2> QED
    BY <2>4 DEF Joined
<1>4. step \in [V \X (1..n) -> V]
  <2> HIDE DEF V, n
  <2> QED
    BY <1>3
<1>5. PICK f : IsFold(f, V, base, n, step)
  <2> HIDE DEF V, n, step, base
  <2> QED
    BY <1>1, <1>2, <1>4, FoldExists
<1>6. ASSUME NEW s \in SUBSET (1..n), s # {} PROVE Max(s) \in 1..n /\ s \ {Max(s)} \in SUBSET (1..n)
  BY <1>1, <1>6, Greatest
<1>7. ASSUME NEW s \in SUBSET (1..n), s # {} PROVE f[s] = Joined(f[s \ {Max(s)}], kids[Max(s)])
  <2> HIDE DEF V, n, base
  <2>1. <<f[s \ {Max(s)}], Max(s)>> \in V \X (1..n)
    BY <1>5, <1>6, <1>7 DEF IsFold
  <2> QED
    BY <1>5, <1>7, <2>1 DEF IsFold
<1>8. Folds(f)
  <2> HIDE DEF V, n, base, step
  <2> QED
    BY <1>1, <1>5, <1>7 DEF IsFold
<1> DEFINE iter == CHOOSE g : Folds(g)
<1>9. Folds(iter)
  BY <1>8
<1>10. Splice(kids) = iter[1..n]
  BY <1>1 DEF Splice, FoldLeft, MapThenFoldSet
<1>11. iter[1..n] \in V
  <2> HIDE DEF V, n, base
  <2>1. iter[{}] \in V
    BY <1>1, <1>2, <1>9
  <2>2. \A s \in SUBSET (1..n) : s # {} /\ iter[s \ {Max(s)}] \in V => iter[s] \in V
    BY <1>1, <1>3, <1>6, <1>9
  <2> HIDE DEF iter
  <2> QED
    BY <1>1, <2>1, <2>2, FoldKeeps
<1>12. Splice(kids).cells \in Seq(C) /\ Splice(kids).sites \in Seq(S)
  BY <1>10, <1>11
<1> QED
  BY <1>12, SeqOfSet

-----------------------------------------------------------------------------
(* The inductive invariant.                                                *)

(* What the walk takes from a preprocessed text: objects that exist.       *)
TextOK(t) ==
  /\ IsSeq(t.kids) /\ \A i \in DOMAIN t.kids : t.kids[i].obj \in Obj
  /\ IsSeq(t.calls)

InstanceFields == {"parent", "position", "obj", "variant"}

(* A list of declarations in which every one is below an earlier one.      *)
TreeOK(list) ==
  /\ IsSeq(list)
  /\ \A i \in DOMAIN list :
       DOMAIN list[i] = InstanceFields /\ list[i].obj \in Obj /\ list[i].parent \in 0..(i - 1)

Site == [at : Nat, orig : Nat]

ImageOK(img) == IsSeq(img.cells) /\ img.sites \in Seq(Site)

RecordsOK(recs) == IsSeq(recs) /\ \A i \in DOMAIN recs : recs[i].orig \in Nat

(* An entry that can be replayed.                                          *)
EntryOK(e) ==
  /\ ImageOK(e) /\ RecordsOK(e.records) /\ TreeOK(e.instances)
  /\ \A i \in DOMAIN e.sites : \E j \in DOMAIN e.records : e.records[j].orig = e.sites[i].orig

FrameFields == {"obj", "ov", "text", "key", "inst", "logical", "defsMark", "countMark",
                "manifestMark", "recordMark", "instanceMark"}

(* An activation, given -d, the images placed, the record lists handed up  *)
(* and the declarations made.                                              *)
FrameOK(f, debug, images, lists, decls) ==
  /\ DOMAIN f = FrameFields
  /\ TextOK(f.text)
  /\ f.key.debug = debug
  /\ IsSeq(f.logical) /\ \A j \in DOMAIN f.logical : f.logical[j] \in 1..images
  /\ f.countMark \in Nat /\ f.manifestMark \in Nat /\ f.recordMark \in 0..lists
  /\ f.instanceMark \in 0..decls /\ f.inst \in 0..f.instanceMark

(* The files, the program and the counters.                                *)
Settings ==
  /\ disk \in [File -> Version]
  /\ program = None \/ program \in [top : Top, debug : Debug]
  /\ caching \in BOOLEAN
  /\ builds \in 0..MaxBuilds /\ edits \in 0..MaxEdits

Documents == DOMAIN docs \subseteq Obj /\ \A f \in DOMAIN docs : TextOK(docs[f])

(* What a build accumulates, whatever the shape of the project is.         *)
Lists ==
  /\ IsSeq(debugRecords) /\ IsSeq(subtreeManifests)
  /\ IsSeq(subtreeDebugRecords) /\ \A i \in DOMAIN subtreeDebugRecords : RecordsOK(subtreeDebugRecords[i])
  /\ IsSeq(childImages) /\ \A i \in DOMAIN childImages : ImageOK(childImages[i])
  /\ IsSeq(indexMap) /\ \A i \in DOMAIN indexMap : indexMap[i] \in DOMAIN childImages
  /\ TreeOK(instances)

Frames ==
  /\ IsSeq(stack) /\ Len(stack) <= OBJ_STACK_LIMIT + 1
  /\ \A i \in DOMAIN stack :
       FrameOK(stack[i], program.debug, Len(indexMap), Len(subtreeDebugRecords), Len(instances))

(* The object that is called for has been declared last, below the object  *)
(* that is being compiled; nothing is called for between builds.           *)
CallOK ==
  /\ call # None =>
       /\ program # None
       /\ call.obj \in DOMAIN docs
       /\ call.inst \in 0..Len(instances)
       /\ \A i \in DOMAIN stack : stack[i].instanceMark < call.inst
  /\ program = None => stack = << >>

(* What has been declared since an activation began is below it.           *)
Nested ==
  /\ \A i, j \in DOMAIN stack : i < j => stack[i].instanceMark < stack[j].inst
  /\ \A i \in DOMAIN stack, k \in DOMAIN instances :
       k > stack[i].instanceMark =>
         instances[k].parent = stack[i].inst \/ instances[k].parent > stack[i].instanceMark

(* The accumulators hold one contribution per child dealt with, level by   *)
(* level: where one activation's begin the next one's end.                 *)
MarksOK(st, manifests, lists, counted) ==
  /\ st # << >> =>
       /\ st[1].manifestMark = 0 /\ st[1].recordMark = 0
       /\ manifests = st[Len(st)].manifestMark + Len(st[Len(st)].logical)
       /\ counted => lists = st[Len(st)].recordMark + Len(st[Len(st)].logical)
  /\ \A i \in DOMAIN st : i + 1 \in DOMAIN st =>
       /\ st[i + 1].manifestMark = st[i].manifestMark + Len(st[i].logical)
       /\ st[i].recordMark <= st[i + 1].recordMark
       /\ counted => st[i + 1].recordMark = st[i].recordMark + Len(st[i].logical)

Marks ==
  /\ stack = << >> => subtreeManifests = << >> /\ subtreeDebugRecords = << >>
  /\ MarksOK(stack, Len(subtreeManifests), Len(subtreeDebugRecords), caching /\ program.debug)

(* Without -d there is nothing to patch and nothing to inject.             *)
Undebugged ==
  /\ program # None /\ ~program.debug =>
       /\ \A i \in DOMAIN childImages : childImages[i].sites = << >>
       /\ \A i \in DOMAIN subtreeDebugRecords : subtreeDebugRecords[i] = << >>
  /\ ~caching => subtreeDebugRecords = << >>

Stored ==
  \A k \in DOMAIN cache : EntryOK(cache[k]) /\ (~k.debug => cache[k].sites = << >>)

IInv == Settings /\ Documents /\ Lists /\ Frames /\ CallOK /\ Nested /\ Marks /\ Undebugged /\ Stored

(* The lines that are left in are lines of the source.                     *)
LEMMA KeptIs ==
  ASSUME NEW lines, IsSeq(lines), NEW defs
  PROVE  IsSeq(Kept(lines, defs)) /\ Range(Kept(lines, defs)) \subseteq Range(lines)
<1> DEFINE S == {i \in DOMAIN lines : lines[i].when \subseteq defs}
           left == Ascending(S)
<1>1. Len(lines) \in Nat /\ DOMAIN lines = 1..Len(lines)
  BY SeqFacts
<1>2. IsFiniteSet(1..Len(lines))
  BY <1>1, FS_Interval
<1>3. S \subseteq 1..Len(lines) /\ S \in SUBSET Nat
  BY <1>1, SMT
<1>4. IsFiniteSet(S)
  BY <1>2, <1>3, FS_Subset
<1>5. IsSeq(left) /\ Range(left) = S
  BY <1>3, <1>4, AscendingIs
<1>6. Len(left) \in Nat /\ DOMAIN left = 1..Len(left) /\ \A i \in 1..Len(left) : left[i] \in S
  BY <1>5, SeqFacts
<1>7. Kept(lines, defs) = [i \in 1..Len(left) |-> lines[left[i]]]
  BY <1>6 DEF Kept
<1>8. \A i \in 1..Len(left) : lines[left[i]] \in Range(lines)
  BY <1>6 DEF Range
<1>9. Kept(lines, defs) \in [1..Len(left) -> Range(lines)]
  BY <1>7, <1>8
<1>10. Kept(lines, defs) \in Seq(Range(lines))
  BY <1>6, <1>9, SeqMade
<1> QED
  BY <1>10, SeqOfSet

(* A preprocessed text names objects that exist.                           *)
LEMMA TextIs ==
  ASSUME NEW o \in Obj, disk \in [File -> Version], NEW defs
  PROVE  TextOK(Text(o, defs))
<1> DEFINE s == Source[o][disk[o]]
<1>1. disk[o] \in Version
  BY DEF File
<1>2. /\ IsSeq(s.kids) /\ IsSeq(s.calls) /\ \A i \in DOMAIN s.kids : s.kids[i].obj \in Obj
  BY <1>1, CompilerAssumptions DEF IsSeq
<1>3. IsSeq(Kept(s.kids, defs)) /\ IsSeq(Kept(s.calls, defs))
  BY <1>2, KeptIs
<1>4. \A i \in DOMAIN Kept(s.kids, defs) : Kept(s.kids, defs)[i].obj \in Obj
  <2>1. \A x \in Range(s.kids) : x.obj \in Obj
    BY <1>2 DEF Range
  <2>2. \A i \in DOMAIN Kept(s.kids, defs) : Kept(s.kids, defs)[i] \in Range(s.kids)
    BY <1>2, KeptIs DEF Range
  <2> QED
    BY <2>1, <2>2
<1>5. Text(o, defs).kids = Kept(s.kids, defs) /\ Text(o, defs).calls = Kept(s.calls, defs)
  BY DEF Text
<1> QED
  BY <1>3, <1>4, <1>5 DEF TextOK

(* A build of which nothing is there yet.                                  *)
Empty ==
  /\ stack = << >> /\ debugRecords = << >> /\ childImages = << >> /\ indexMap = << >>
  /\ instances = << >> /\ subtreeManifests = << >> /\ subtreeDebugRecords = << >>

(* An empty build satisfies what is said of its lists.                     *)
LEMMA EmptyFine == Empty => Lists /\ Frames /\ Nested /\ Marks /\ Undebugged
<1> SUFFICES ASSUME Empty PROVE Lists /\ Frames /\ Nested /\ Marks /\ Undebugged
  OBVIOUS
<1>1. IsSeq(<< >>) /\ DOMAIN << >> = {} /\ Len(<< >>) = 0
  BY SeqEmpty
<1>2. 0 <= OBJ_STACK_LIMIT + 1
  BY CompilerAssumptions, SMT
<1>3. Lists
  BY <1>1, Zenon DEF Empty, Lists, TreeOK
<1>4. Frames
  BY <1>1, <1>2, Zenon DEF Empty, Frames
<1>5. Nested
  BY <1>1, Zenon DEF Empty, Nested
<1>6. Marks
  BY <1>1, Zenon DEF Empty, Marks, MarksOK
<1>7. Undebugged
  BY <1>1, Zenon DEF Empty, Undebugged
<1> QED
  BY <1>3, <1>4, <1>5, <1>6, <1>7

(* The same of the state after a step.                                     *)
LEMMA EmptyFineNext == (Empty => Lists /\ Frames /\ Nested /\ Marks /\ Undebugged)'
  BY EmptyFine, PTL

(* The invariant holds at the start.                                       *)
LEMMA InitIInv == Init => IInv
<1> SUFFICES ASSUME Init PROVE IInv
  OBVIOUS
<1>1. Settings
  <2>1. disk \in [File -> Version]
    BY CompilerAssumptions, Zenon DEF Init
  <2>2. program = None /\ caching \in BOOLEAN
    BY DEF Init
  <2>3. builds = 0 /\ edits = 0 /\ MaxBuilds \in Nat /\ MaxEdits \in Nat
    BY CompilerAssumptions DEF Init
  <2>4. builds \in 0..MaxBuilds /\ edits \in 0..MaxEdits
    BY <2>3, SMT
  <2> QED
    BY <2>1, <2>2, <2>4 DEF Settings
<1>2. Documents /\ Stored
  BY DEF Init, Documents, Stored
<1>3. CallOK
  BY DEF Init, CallOK
<1>4. Empty
  BY DEF Init, Empty
<1> QED
  BY <1>1, <1>2, <1>3, <1>4, EmptyFine DEF IInv

-----------------------------------------------------------------------------
(* Builds that begin, end and stop, and files that are edited.             *)

(* A fresh build: the top file is loaded, the rest is empty.               *)
LEMMA FreshIs ==
  ASSUME NEW t \in Top, Fresh(t), Settings, program' # None, caching' \in BOOLEAN
  PROVE  Documents' /\ Lists' /\ Frames' /\ CallOK' /\ Nested' /\ Marks' /\ Undebugged'
<1>1. t \in Obj
  BY CompilerAssumptions
<1>2. docs' = [f \in {t} |-> Text(t, {})]
  BY DEF Fresh
<1>3. TextOK(Text(t, {}))
  BY <1>1, TextIs DEF Settings
<1>4. Documents'
  <2>1. DOMAIN docs' = {t} /\ docs'[t] = Text(t, {})
    BY <1>2
  <2>2. (\A f \in DOMAIN docs : TextOK(docs[f]))'
    BY <1>3, <2>1 DEF TextOK
  <2> QED
    BY <1>1, <2>1, <2>2 DEF Documents
<1>5. Empty'
  BY DEF Fresh, Reset, Empty
<1>6. call' = [obj |-> t, ov |-> None, inst |-> 0]
  BY DEF Fresh
<1>7. CallOK'
  <2>1. stack' = << >> /\ instances' = << >>
    BY <1>5 DEF Empty
  <2>2. call'.obj \in DOMAIN docs' /\ call'.inst \in 0..Len(instances')
    <3>1. call'.inst = 0 /\ call'.obj = t
      BY <1>6
    <3>2. 0 \in 0..0
      BY SMT
    <3> QED
      BY <1>2, <2>1, <3>1, <3>2, SeqEmpty
  <2>3. \A i \in DOMAIN stack' : stack'[i].instanceMark < call'.inst
    BY <2>1, SeqEmpty, Zenon
  <2> QED
    BY <2>1, <2>2, <2>3 DEF CallOK
<1> QED
  BY <1>4, <1>5, <1>7, EmptyFineNext

(* Begin keeps the invariant.                                              *)
LEMMA BeginIs ==
  ASSUME IInv, NEW t \in Top, NEW d \in Debug, Begin(t, d)
  PROVE  IInv'
<1>1. /\ program' = [top |-> t, debug |-> d] /\ caching' = FALSE /\ builds < MaxBuilds
      /\ builds' = builds + 1 /\ disk' = disk /\ cache' = cache /\ edits' = edits /\ Fresh(t)
  BY DEF Begin
<1>2. program' # None
  BY <1>1, CompilerAssumptions
<1>3. Settings'
  <2>1. disk' \in [File -> Version] /\ caching' \in BOOLEAN /\ edits' \in 0..MaxEdits
    BY <1>1 DEF IInv, Settings
  <2>2. program' \in [top : Top, debug : Debug]
    BY <1>1
  <2>3. builds \in 0..MaxBuilds /\ MaxBuilds \in Nat
    BY CompilerAssumptions DEF IInv, Settings
  <2>4. builds' \in 0..MaxBuilds
    BY <1>1, <2>3, SMT
  <2> QED
    BY <2>1, <2>2, <2>4 DEF Settings
<1>4. Stored'
  BY <1>1 DEF IInv, Stored
<1>5. caching' \in BOOLEAN /\ Settings
  BY <1>1 DEF IInv
<1>6. Documents' /\ Lists' /\ Frames' /\ CallOK' /\ Nested' /\ Marks' /\ Undebugged'
  BY <1>1, <1>2, <1>5, FreshIs
<1> QED
  BY <1>3, <1>4, <1>6 DEF IInv

(* BuildCached keeps the invariant.                                        *)
LEMMA BuildCachedIs ==
  ASSUME IInv, BuildCached
  PROVE  IInv'
<1>1. /\ program' = program /\ caching' = TRUE /\ builds' = builds /\ disk' = disk
      /\ cache' = cache /\ edits' = edits /\ Fresh(program.top) /\ program # None
  BY DEF BuildCached, Finished
<1>2. program.top \in Top
  BY <1>1 DEF IInv, Settings
<1>3. Settings'
  BY <1>1 DEF IInv, Settings
<1>4. Stored'
  BY <1>1 DEF IInv, Stored
<1>5. caching' \in BOOLEAN /\ Settings /\ program' # None
  BY <1>1 DEF IInv
<1>6. Documents' /\ Lists' /\ Frames' /\ CallOK' /\ Nested' /\ Marks' /\ Undebugged'
  BY <1>1, <1>2, <1>5, FreshIs
<1> QED
  BY <1>3, <1>4, <1>6 DEF IInv

(* EndBuild keeps the invariant.                                           *)
LEMMA EndBuildIs ==
  ASSUME IInv, EndBuild
  PROVE  IInv'
<1>1. /\ program' = None /\ caching' = FALSE /\ builds' = builds /\ disk' = disk
      /\ cache' = cache /\ edits' = edits /\ call' = None /\ docs' = [f \in {} |-> None]
  BY DEF EndBuild
<1>2. Empty'
  BY DEF EndBuild, Reset, Empty
<1>3. Settings' /\ Documents'
  BY <1>1 DEF IInv, Settings, Documents
<1>4. Stored'
  BY <1>1 DEF IInv, Stored
<1>5. CallOK'
  BY <1>1, <1>2 DEF CallOK, Empty
<1> QED
  BY <1>2, <1>3, <1>4, <1>5, EmptyFineNext DEF IInv

(* Edit keeps the invariant.                                               *)
LEMMA EditIs ==
  ASSUME IInv, NEW f \in File, Edit(f)
  PROVE  IInv'
<1>1. /\ edits < MaxEdits /\ edits' = edits + 1
      /\ cache' = cache /\ program' = program /\ caching' = caching /\ build' = build /\ builds' = builds
  BY DEF Edit
<1>2. PICK v \in Version : disk' = [disk EXCEPT ![f] = v]
  BY DEF Edit
<1>3. /\ stack' = stack /\ docs' = docs /\ debugRecords' = debugRecords /\ childImages' = childImages
      /\ indexMap' = indexMap /\ instances' = instances /\ subtreeManifests' = subtreeManifests
      /\ subtreeDebugRecords' = subtreeDebugRecords /\ call' = call
  BY <1>1 DEF build
<1>4. Settings'
  <2>1. disk' \in [File -> Version]
    BY <1>2 DEF IInv, Settings
  <2>2. edits \in 0..MaxEdits /\ MaxEdits \in Nat
    BY CompilerAssumptions DEF IInv, Settings
  <2>3. edits' \in 0..MaxEdits
    BY <1>1, <2>2, SMT
  <2>4. (program = None \/ program \in [top : Top, debug : Debug])' /\ caching' \in BOOLEAN /\ builds' \in 0..MaxBuilds
    BY <1>1 DEF IInv, Settings
  <2> QED
    BY <2>1, <2>3, <2>4 DEF Settings
<1>5. Documents' /\ Stored'
  BY <1>1, <1>3 DEF IInv, Documents, Stored
<1>6. Lists'
  BY <1>3 DEF IInv, Lists
<1>7. Frames'
  BY <1>1, <1>3 DEF IInv, Frames
<1>8. CallOK' /\ Nested'
  BY <1>1, <1>3 DEF IInv, CallOK, Nested
<1>9. Marks' /\ Undebugged'
  BY <1>1, <1>3 DEF IInv, Marks, Undebugged
<1> QED
  BY <1>4, <1>5, <1>6, <1>7, <1>8, <1>9 DEF IInv

(* A build that stops keeps what it has.                                   *)
LEMMA StopIs ==
  ASSUME IInv, NEW msg, Stop(msg)
  PROVE  IInv'
<1>1. /\ cache' = cache /\ program' = program /\ caching' = caching /\ builds' = builds
      /\ disk' = disk /\ edits' = edits /\ call' = None
  BY DEF Stop
<1>3. /\ stack' = stack /\ docs' = docs /\ debugRecords' = debugRecords /\ childImages' = childImages
      /\ indexMap' = indexMap /\ instances' = instances /\ subtreeManifests' = subtreeManifests
      /\ subtreeDebugRecords' = subtreeDebugRecords
  BY DEF Stop
<1>4. Settings'
  BY <1>1 DEF IInv, Settings
<1>5. Documents' /\ Stored'
  BY <1>1, <1>3 DEF IInv, Documents, Stored
<1>6. Lists'
  BY <1>3 DEF IInv, Lists
<1>7. Frames'
  BY <1>1, <1>3 DEF IInv, Frames
<1>8. CallOK' /\ Nested'
  BY <1>1, <1>3 DEF IInv, CallOK, Nested
<1>9. Marks' /\ Undebugged'
  BY <1>1, <1>3 DEF IInv, Marks, Undebugged
<1> QED
  BY <1>4, <1>5, <1>6, <1>7, <1>8, <1>9 DEF IInv

-----------------------------------------------------------------------------
(* Activations and declarations.                                           *)

(* An activation stays well formed when the lists it points into grow.     *)
LEMMA FrameGrows ==
  ASSUME NEW f, NEW d, NEW a \in Nat, NEW b \in Nat, NEW c \in Nat, FrameOK(f, d, a, b, c),
         NEW a2 \in Nat, NEW b2 \in Nat, NEW c2 \in Nat, a <= a2, b <= b2, c <= c2
  PROVE  FrameOK(f, d, a2, b2, c2)
<1>1. \A x \in 1..a : x \in 1..a2
  BY SMT
<1>2. \A x \in 0..b : x \in 0..b2
  BY SMT
<1>3. \A x \in 0..c : x \in 0..c2
  BY SMT
<1> QED
  BY <1>1, <1>2, <1>3, Zenon DEF FrameOK

(* The numbers an activation is about.                                     *)
LEMMA FrameNumbers ==
  ASSUME IInv, NEW i \in 1..Len(stack)
  PROVE  /\ stack[i].manifestMark \in Nat /\ stack[i].recordMark \in Nat
         /\ stack[i].recordMark <= Len(subtreeDebugRecords)
         /\ stack[i].instanceMark \in Nat /\ stack[i].instanceMark <= Len(instances)
         /\ stack[i].inst \in Nat /\ stack[i].inst <= stack[i].instanceMark
         /\ IsSeq(stack[i].logical) /\ Len(stack[i].logical) \in Nat
<1>1. DOMAIN stack = 1..Len(stack)
  BY SeqFacts DEF IInv, Frames
<1>2. FrameOK(stack[i], program.debug, Len(indexMap), Len(subtreeDebugRecords), Len(instances))
  BY <1>1 DEF IInv, Frames
<1>3. Len(subtreeDebugRecords) \in Nat /\ Len(instances) \in Nat
  BY SeqFacts DEF IInv, Lists, TreeOK
<1>4. IsSeq(stack[i].logical) /\ stack[i].manifestMark \in Nat
      /\ stack[i].recordMark \in 0..Len(subtreeDebugRecords)
      /\ stack[i].instanceMark \in 0..Len(instances) /\ stack[i].inst \in 0..stack[i].instanceMark
  BY <1>2, Zenon DEF FrameOK
<1>5. Len(stack[i].logical) \in Nat
  BY <1>4, SeqFacts
<1>6. \A m \in Nat : \A x \in 0..m : x \in Nat /\ x <= m
  BY SMT
<1>7. stack[i].instanceMark \in Nat
  BY <1>3, <1>4, <1>6
<1> QED
  BY <1>3, <1>4, <1>5, <1>6, <1>7

(* The lists of a build are sequences.                                     *)
LEMMA Lengths ==
  ASSUME IInv
  PROVE  /\ Len(stack) \in Nat /\ DOMAIN stack = 1..Len(stack)
         /\ Len(instances) \in Nat /\ DOMAIN instances = 1..Len(instances)
         /\ Len(indexMap) \in Nat /\ DOMAIN indexMap = 1..Len(indexMap)
         /\ Len(childImages) \in Nat /\ DOMAIN childImages = 1..Len(childImages)
         /\ Len(debugRecords) \in Nat
         /\ Len(subtreeManifests) \in Nat
         /\ Len(subtreeDebugRecords) \in Nat
         /\ DOMAIN subtreeDebugRecords = 1..Len(subtreeDebugRecords)
         /\ stack # << >> => Len(stack) \in 1..Len(stack)
<1>1. /\ IsSeq(stack) /\ IsSeq(instances) /\ IsSeq(indexMap) /\ IsSeq(childImages)
      /\ IsSeq(debugRecords) /\ IsSeq(subtreeManifests) /\ IsSeq(subtreeDebugRecords)
  BY DEF IInv, Frames, Lists, TreeOK
<1>2. stack # << >> => Len(stack) \in 1..Len(stack)
  BY <1>1, SMT DEF IsSeq
<1> QED
  BY <1>1, <1>2, SeqFacts

(* Enter keeps the invariant.                                              *)
LEMMA EnterIs ==
  ASSUME IInv, Enter
  PROVE  IInv'
<1> DEFINE n == Len(stack)
           f == [obj |-> call.obj, ov |-> call.ov, text |-> CalledText, key |-> CalledKey,
                 inst |-> call.inst, logical |-> << >>,
                 defsMark |-> Len(defSymbols), countMark |-> Len(debugRecords),
                 manifestMark |-> Len(subtreeManifests), recordMark |-> Len(subtreeDebugRecords),
                 instanceMark |-> Len(instances)]
<1>1. /\ cache' = cache /\ program' = program /\ caching' = caching /\ builds' = builds
      /\ disk' = disk /\ edits' = edits /\ call' = None
      /\ docs' = docs /\ debugRecords' = debugRecords /\ childImages' = childImages
      /\ indexMap' = indexMap /\ instances' = instances /\ subtreeManifests' = subtreeManifests
      /\ subtreeDebugRecords' = subtreeDebugRecords
  BY DEF Enter
<1>2. stack' = Append(stack, f) /\ call # None /\ n <= OBJ_STACK_LIMIT
  BY DEF Enter
<1>3. n \in Nat /\ IsSeq(stack) /\ DOMAIN stack = 1..n
  BY Lengths DEF IInv, Frames
<1>4. /\ IsSeq(stack') /\ Len(stack') = n + 1 /\ DOMAIN stack' = 1..(n + 1)
      /\ \A i \in 1..n : stack'[i] = stack[i]
      /\ stack'[n + 1] = f
  <2>1. IsSeq(Append(stack, f)) /\ Len(Append(stack, f)) = n + 1
        /\ (\A i \in 1..n : Append(stack, f)[i] = stack[i]) /\ Append(stack, f)[n + 1] = f
    <3> HIDE DEF f
    <3> QED
      BY <1>3, SeqAppend
  <2>2. DOMAIN Append(stack, f) = 1..(n + 1)
    <3> HIDE DEF f
    <3> QED
      BY <2>1, SeqFacts
  <2> QED
    BY <1>2, <2>1, <2>2
<1>5. \A i \in 1..(n + 1) : i \in 1..n \/ i = n + 1
  BY <1>3, SMT
<1>6. Settings'
  BY <1>1 DEF IInv, Settings
<1>7. Documents' /\ Stored'
  BY <1>1 DEF IInv, Documents, Stored
<1>8. Lists'
  BY <1>1 DEF IInv, Lists
<1>9. FrameOK(f, program.debug, Len(indexMap), Len(subtreeDebugRecords), Len(instances))
  <2>1. DOMAIN f = FrameFields
    BY SMT DEF FrameFields
  <2>2. TextOK(f.text)
    BY <1>2 DEF IInv, CallOK, Documents, CalledText
  <2>3. f.key.debug = program.debug
    BY DEF CalledKey, Key
  <2>4. IsSeq(f.logical) /\ \A j \in DOMAIN f.logical : f.logical[j] \in 1..Len(indexMap)
    BY SeqEmpty, Zenon
  <2>5. f.inst \in 0..f.instanceMark
    BY <1>2 DEF IInv, CallOK
  <2>6. f.countMark \in Nat /\ f.manifestMark \in Nat
        /\ f.recordMark \in 0..Len(subtreeDebugRecords) /\ f.instanceMark \in 0..Len(instances)
    <3>1. \A m \in Nat : m \in 0..m
      BY SMT
    <3> QED
      BY <3>1, Lengths
  <2> HIDE DEF f
  <2> QED
    BY <2>1, <2>2, <2>3, <2>4, <2>5, <2>6, Zenon DEF FrameOK
<1>10. Frames'
  <2>1. \A i \in 1..(n + 1) : FrameOK(stack'[i], program.debug, Len(indexMap), Len(subtreeDebugRecords), Len(instances))
    <3> TAKE i \in 1..(n + 1)
    <3>1. CASE i \in 1..n
      BY <1>3, <1>4, <3>1 DEF IInv, Frames
    <3>2. CASE i = n + 1
      <4> HIDE DEF f
      <4> QED
        BY <1>4, <1>9, <3>2
    <3> QED
      BY <1>5, <3>1, <3>2
  <2>2. n + 1 <= OBJ_STACK_LIMIT + 1
    BY <1>2, <1>3, CompilerAssumptions, SMT
  <2> HIDE DEF f
  <2> QED
    BY <1>1, <1>4, <2>1, <2>2, Zenon DEF Frames
<1>11. CallOK'
  BY <1>1, <1>2 DEF IInv, CallOK
<1>12. Nested'
  <2>1. ASSUME NEW i \in 1..(n + 1), NEW j \in 1..(n + 1), i < j
        PROVE  stack'[i].instanceMark < stack'[j].inst
    <3>1. i \in 1..n
      BY <1>3, <2>1, SMT
    <3>2. CASE j \in 1..n
      BY <1>3, <1>4, <2>1, <3>1, <3>2 DEF IInv, Nested
    <3>3. CASE j = n + 1
      <4>1. stack'[j].inst = call.inst
        BY <1>4, <3>3
      <4>2. stack[i].instanceMark < call.inst
        BY <1>2, <1>3, <3>1 DEF IInv, CallOK
      <4> QED
        BY <1>4, <3>1, <4>1, <4>2
    <3> QED
      BY <1>5, <3>2, <3>3
  <2>2. ASSUME NEW i \in 1..(n + 1), NEW k \in DOMAIN instances, k > stack'[i].instanceMark
        PROVE  instances[k].parent = stack'[i].inst \/ instances[k].parent > stack'[i].instanceMark
    <3>1. CASE i \in 1..n
      BY <1>3, <1>4, <2>2, <3>1 DEF IInv, Nested
    <3>2. CASE i = n + 1
      <4>1. stack'[i].instanceMark = Len(instances)
        BY <1>4, <3>2
      <4>2. ~(k > Len(instances))
        <5>1. k \in 1..Len(instances) /\ Len(instances) \in Nat
          BY Lengths
        <5> QED
          BY <5>1, SMT
      <4> QED
        BY <2>2, <4>1, <4>2
    <3> QED
      BY <1>5, <3>1, <3>2
  <2> HIDE DEF f
  <2> QED
    BY <1>1, <1>4, <2>1, <2>2 DEF Nested
<1>13. Marks'
  <2>1. stack'[Len(stack')] = f
    BY <1>4
  <2>2. f.manifestMark = Len(subtreeManifests) /\ f.recordMark = Len(subtreeDebugRecords) /\ Len(f.logical) = 0
    BY SeqEmpty
  <2>3. stack'[1].manifestMark = 0 /\ stack'[1].recordMark = 0
    <3>1. CASE stack = << >>
      <4>1. n = 0 /\ stack'[1] = f
        <5>1. n = 0
          BY <3>1, SeqEmpty
        <5> HIDE DEF f, n
        <5>2. 0 + 1 = 1
          BY SMT
        <5> QED
          BY <1>4, <5>1, <5>2
      <4>2. Len(subtreeManifests) = 0 /\ Len(subtreeDebugRecords) = 0
        BY <3>1, SeqEmpty DEF IInv, Marks, MarksOK
      <4> QED
        BY <2>2, <4>1, <4>2
    <3>2. CASE stack # << >>
      <4>1. 1 \in 1..n
        BY <3>2, Lengths, SMT
      <4> QED
        BY <1>4, <3>2, <4>1 DEF IInv, Marks, MarksOK
    <3> QED
      BY <3>1, <3>2
  <2>4. Len(subtreeManifests) = f.manifestMark + Len(f.logical)
        /\ Len(subtreeDebugRecords) = f.recordMark + Len(f.logical)
    <3>1. Len(subtreeManifests) \in Nat /\ Len(subtreeDebugRecords) \in Nat
      BY Lengths
    <3> HIDE DEF f
    <3> QED
      BY <2>2, <3>1, SMT
  <2>5. ASSUME NEW i \in 1..(n + 1), i + 1 \in 1..(n + 1)
        PROVE  /\ stack'[i + 1].manifestMark = stack'[i].manifestMark + Len(stack'[i].logical)
               /\ stack'[i].recordMark <= stack'[i + 1].recordMark
               /\ caching /\ program.debug =>
                    stack'[i + 1].recordMark = stack'[i].recordMark + Len(stack'[i].logical)
    <3>1. i \in 1..n /\ stack'[i] = stack[i]
      <4>1. i \in 1..n
        BY <1>3, <2>5, SMT
      <4> QED
        BY <1>4, <4>1
    <3>2. CASE i + 1 \in 1..n
      <4>1. stack'[i + 1] = stack[i + 1]
        BY <1>4, <3>2
      <4> QED
        BY <1>3, <3>1, <3>2, <4>1 DEF IInv, Marks, MarksOK
    <3>3. CASE i + 1 = n + 1
      <4>1. i = n /\ stack # << >>
        <5>1. i = n
          <6>1. n \in Int /\ i \in Int /\ i + 1 = n + 1
            BY <1>3, <3>1, <3>3, SMT
          <6> QED
            BY <6>1, SMT
        <5>2. stack # << >>
          BY <1>3, <3>1, SeqEmpty, SMT
        <5> QED
          BY <5>1, <5>2
      <4>2. stack[i] = frame
        BY <4>1 DEF frame, Last
      <4>3. stack'[i + 1] = f
        BY <1>4, <3>3
      <4>4. stack[i].recordMark <= Len(subtreeDebugRecords)
        BY <3>1, FrameNumbers
      <4> HIDE DEF f
      <4> QED
        BY <2>2, <3>1, <4>1, <4>2, <4>3, <4>4 DEF IInv, Marks, MarksOK
    <3> QED
      BY <1>5, <2>5, <3>2, <3>3
  <2>6. stack' # << >>
    BY <1>3, <1>4, SeqEmpty, SMT
  <2> HIDE DEF f, n
  <2> QED
    BY <1>1, <1>4, <2>1, <2>3, <2>4, <2>5, <2>6 DEF Marks, MarksOK
<1>14. Undebugged'
  BY <1>1 DEF IInv, Undebugged
<1> QED
  BY <1>6, <1>7, <1>8, <1>10, <1>11, <1>12, <1>13, <1>14 DEF IInv

(* The object that is being compiled is the innermost one.                 *)
LEMMA FrameIs ==
  ASSUME IInv, stack # << >>
  PROVE  /\ Len(stack) \in 1..Len(stack) /\ frame = stack[Len(stack)]
         /\ FrameOK(frame, program.debug, Len(indexMap), Len(subtreeDebugRecords), Len(instances))
<1>1. Len(stack) \in 1..Len(stack) /\ DOMAIN stack = 1..Len(stack)
  BY Lengths
<1>2. frame = stack[Len(stack)]
  BY DEF frame, Last
<1> QED
  BY <1>1, <1>2 DEF IInv, Frames

(* NextChild keeps the invariant.                                          *)
LEMMA NextChildIs ==
  ASSUME IInv, NextChild
  PROVE  IInv'
<1> DEFINE n == Len(instances)
           i == Len(frame.logical) + 1
           k == frame.text.kids[i]
           d == [parent |-> frame.inst, position |-> i, obj |-> k.obj, variant |-> None]
<1>1. /\ cache' = cache /\ program' = program /\ caching' = caching /\ builds' = builds
      /\ disk' = disk /\ edits' = edits /\ stack' = stack
      /\ debugRecords' = debugRecords /\ childImages' = childImages
      /\ indexMap' = indexMap /\ subtreeManifests' = subtreeManifests
      /\ subtreeDebugRecords' = subtreeDebugRecords
  BY DEF NextChild
<1>2. /\ program # None /\ stack # << >> /\ Len(frame.logical) < Len(frame.text.kids)
      /\ Load(k.obj) /\ instances' = Append(instances, d)
      /\ call' = [obj |-> k.obj, ov |-> k.ov, inst |-> n + 1]
  BY DEF NextChild
<1>3. n \in Nat /\ IsSeq(instances) /\ DOMAIN instances = 1..n
  BY Lengths DEF IInv, Lists, TreeOK
<1>4. /\ IsSeq(instances') /\ Len(instances') = n + 1 /\ DOMAIN instances' = 1..(n + 1)
      /\ \A j \in 1..n : instances'[j] = instances[j]
      /\ instances'[n + 1] = d
  <2>1. IsSeq(Append(instances, d)) /\ Len(Append(instances, d)) = n + 1
        /\ (\A j \in 1..n : Append(instances, d)[j] = instances[j]) /\ Append(instances, d)[n + 1] = d
    <3> HIDE DEF d
    <3> QED
      BY <1>3, SeqAppend
  <2>2. DOMAIN Append(instances, d) = 1..(n + 1)
    <3> HIDE DEF d
    <3> QED
      BY <2>1, SeqFacts
  <2> QED
    BY <1>2, <2>1, <2>2
<1>5. \A j \in 1..(n + 1) : j \in 1..n \/ j = n + 1
  BY <1>3, SMT
<1>6. k.obj \in Obj
  <2>1. IsSeq(frame.logical) /\ TextOK(frame.text)
    BY <1>2, FrameIs DEF FrameOK
  <2>2. Len(frame.logical) \in Nat /\ IsSeq(frame.text.kids)
    BY <2>1, SeqFacts DEF TextOK
  <2>3. Len(frame.text.kids) \in Nat /\ DOMAIN frame.text.kids = 1..Len(frame.text.kids)
    BY <2>2, SeqFacts
  <2>4. \A a, b \in Nat : a < b => a + 1 \in 1..b
    BY SMT
  <2>5. i \in DOMAIN frame.text.kids
    BY <1>2, <2>2, <2>3, <2>4
  <2> HIDE DEF i
  <2> QED
    BY <2>1, <2>5 DEF TextOK
<1>7. Settings'
  BY <1>1 DEF IInv, Settings
<1>8. Documents' /\ k.obj \in DOMAIN docs'
  <2> DEFINE o == k.obj
  <2> HIDE DEF k
  <2>1. CASE o \in DOMAIN docs
    <3>1. docs' = docs
      BY <1>2, <2>1 DEF Load
    <3> QED
      BY <2>1, <3>1 DEF IInv, Documents
  <2>2. CASE o \notin DOMAIN docs
    <3>1. docs' = [f \in DOMAIN docs \cup {o} |-> IF f = o THEN Text(o, Range(defSymbols)) ELSE docs[f]]
      BY <1>2, <2>2 DEF Load
    <3>2. TextOK(Text(o, Range(defSymbols)))
      BY <1>6, TextIs DEF IInv, Settings
    <3> QED
      BY <1>6, <3>1, <3>2 DEF IInv, Documents
  <2> QED
    BY <2>1, <2>2
<1>9. Stored'
  BY <1>1 DEF IInv, Stored
<1>10. /\ Len(stack) \in Nat /\ DOMAIN stack = 1..Len(stack)
       /\ Len(indexMap) \in Nat /\ Len(subtreeDebugRecords) \in Nat
       /\ Len(stack) \in 1..Len(stack) /\ frame = stack[Len(stack)]
  BY <1>2, Lengths, FrameIs
<1>11. frame.inst \in 0..n
  <2>1. frame.inst \in Nat /\ frame.inst <= frame.instanceMark /\ frame.instanceMark \in Nat /\ frame.instanceMark <= n
    BY <1>10, FrameNumbers
  <2> QED
    BY <1>3, <2>1, SMT
<1>12. Lists'
  <2>1. ASSUME NEW j \in 1..(n + 1)
        PROVE  DOMAIN instances'[j] = InstanceFields /\ instances'[j].obj \in Obj
               /\ instances'[j].parent \in 0..(j - 1)
    <3>1. CASE j \in 1..n
      BY <1>3, <1>4, <3>1 DEF IInv, Lists, TreeOK
    <3>2. CASE j = n + 1
      <4>1. DOMAIN d = InstanceFields
        BY SMT DEF InstanceFields
      <4>2. d.parent \in 0..((n + 1) - 1)
        BY <1>3, <1>11, SMT
      <4>3. d.obj \in Obj
        BY <1>6
      <4> HIDE DEF d, n
      <4> QED
        BY <1>4, <3>2, <4>1, <4>2, <4>3
    <3> QED
      BY <1>5, <3>1, <3>2
  <2>2. TreeOK(instances')
    <3> HIDE DEF d, n
    <3> QED
      BY <1>4, <2>1 DEF TreeOK
  <2> QED
    BY <1>1, <2>2 DEF IInv, Lists
<1>13. Frames'
  <2>1. n <= n + 1 /\ n + 1 \in Nat /\ \A m \in Nat : m <= m
    BY <1>3, SMT
  <2>2. \A j \in 1..Len(stack) : FrameOK(stack[j], program.debug, Len(indexMap), Len(subtreeDebugRecords), n + 1)
    <3> TAKE j \in 1..Len(stack)
    <3>1. FrameOK(stack[j], program.debug, Len(indexMap), Len(subtreeDebugRecords), n)
      BY <1>10 DEF IInv, Frames
    <3> HIDE DEF n
    <3> QED
      BY <1>3, <1>10, <2>1, <3>1, FrameGrows
  <2> HIDE DEF n, d
  <2> QED
    BY <1>1, <1>4, <1>10, <2>2 DEF IInv, Frames
<1>14. CallOK'
  <2>1. call'.obj = k.obj /\ call'.inst = n + 1
    BY <1>2
  <2>2. n + 1 \in 0..(n + 1)
    BY <1>3, SMT
  <2>3. ASSUME NEW j \in 1..Len(stack) PROVE stack[j].instanceMark < n + 1
    <3>1. stack[j].instanceMark \in Nat /\ stack[j].instanceMark <= n
      BY FrameNumbers
    <3> QED
      BY <1>3, <3>1, SMT
  <2> HIDE DEF n, d, k
  <2> QED
    BY <1>1, <1>2, <1>4, <1>8, <1>10, <2>1, <2>2, <2>3 DEF CallOK
<1>15. Nested'
  <2>1. ASSUME NEW j \in 1..Len(stack), NEW m \in 1..(n + 1), m > stack[j].instanceMark
        PROVE  instances'[m].parent = stack[j].inst \/ instances'[m].parent > stack[j].instanceMark
    <3>1. CASE m \in 1..n
      BY <1>3, <1>4, <1>10, <2>1, <3>1 DEF IInv, Nested
    <3>2. CASE m = n + 1
      <4>1. instances'[m].parent = frame.inst
        BY <1>4, <3>2
      <4>2. CASE j = Len(stack)
        BY <1>10, <4>1, <4>2
      <4>3. CASE j < Len(stack)
        <5>1. stack[j].instanceMark < frame.inst
          BY <1>10, <4>3 DEF IInv, Nested
        <5>2. stack[j].instanceMark \in Nat /\ frame.inst \in Nat
          BY <1>10, FrameNumbers
        <5>3. frame.inst > stack[j].instanceMark
          BY <5>1, <5>2, SMT
        <5> QED
          BY <4>1, <5>3
      <4> QED
        BY <1>10, <4>2, <4>3, SMT
    <3> QED
      BY <1>5, <3>1, <3>2
  <2> HIDE DEF n, d
  <2> QED
    BY <1>1, <1>4, <1>10, <2>1 DEF IInv, Nested
<1>16. Marks' /\ Undebugged'
  BY <1>1 DEF IInv, Marks, Undebugged
<1> QED
  BY <1>7, <1>8, <1>9, <1>12, <1>13, <1>14, <1>15, <1>16 DEF IInv

-----------------------------------------------------------------------------
(* A child that has been dealt with.                                       *)

(* A function on the first numbers is a sequence.                          *)
LEMMA SeqFun ==
  ASSUME NEW n \in Nat, NEW f, f = [i \in 1..n |-> f[i]]
  PROVE  IsSeq(f) /\ Len(f) = n /\ DOMAIN f = 1..n
<1>1. DOMAIN f = 1..n /\ \A i \in 1..n : f[i] \in Range(f)
  BY DEF Range
<1>2. f \in [1..n -> Range(f)]
  BY <1>1
<1> QED
  BY <1>1, <1>2, SeqMade

(* A sequence of length 0 is the empty one.                                *)
LEMMA SeqNone ==
  ASSUME NEW s, IsSeq(s), Len(s) = 0
  PROVE  s = << >>
  BY SMT DEF IsSeq

(* A sequence of one element.                                              *)
LEMMA SeqOne ==
  ASSUME NEW x
  PROVE  IsSeq(<<x>>) /\ Len(<<x>>) = 1 /\ <<x>>[1] = x
<1>1. <<x>> \in Seq({x}) /\ Len(<<x>>) = 1 /\ <<x>>[1] = x
  BY SMT
<1> QED
  BY <1>1, SeqOfSet

(* A finite set has finitely many images.                                  *)
LEMMA ImageFinite ==
  ASSUME NEW S, IsFiniteSet(S), NEW f
  PROVE  IsFiniteSet({f[x] : x \in S})
<1> DEFINE T == {f[x] : x \in S}
           g == [x \in S |-> f[x]]
<1>1. g \in Surjection(S, T)
  BY DEF Surjection
<1> HIDE DEF T, g
<1>2. IsFiniteSet(T)
  BY <1>1, FS_Surjection
<1> QED
  BY <1>2 DEF T

(* A sequence has finitely many values.                                    *)
LEMMA SeqRangeFinite ==
  ASSUME NEW s, IsSeq(s)
  PROVE  IsFiniteSet(Range(s))
<1>1. Len(s) \in Nat /\ DOMAIN s = 1..Len(s)
  BY SeqFacts
<1>2. IsFiniteSet(1..Len(s))
  BY <1>1, FS_Interval
<1>3. Range(s) = {s[i] : i \in 1..Len(s)}
  BY <1>1 DEF Range
<1>4. IsFiniteSet({s[i] : i \in 1..Len(s)})
  BY <1>2, ImageFinite
<1> QED
  BY <1>3, <1>4

(* A declaration that is told its variant is where it was.                 *)
Told(list, x, v) == [list EXCEPT ![x].variant = v]

(* Only the variant of one declaration changes.                            *)
LEMMA VariantIs ==
  ASSUME NEW list, TreeOK(list), NEW x, NEW v, NEW s, s = Told(list, x, v)
  PROVE  /\ TreeOK(s) /\ Len(s) = Len(list) /\ DOMAIN s = DOMAIN list
         /\ \A i \in DOMAIN list : s[i].parent = list[i].parent
<1>1. Len(list) \in Nat /\ DOMAIN list = 1..Len(list)
  BY SeqFacts DEF TreeOK
<1>2. s = [i \in 1..Len(list) |-> s[i]]
  BY <1>1 DEF Told
<1>3. IsSeq(s) /\ Len(s) = Len(list) /\ DOMAIN s = 1..Len(list)
  BY <1>1, <1>2, SeqFun
<1>4. ASSUME NEW i \in 1..Len(list)
      PROVE  DOMAIN s[i] = InstanceFields /\ s[i].obj = list[i].obj /\ s[i].parent = list[i].parent
  <2>1. DOMAIN list[i] = InstanceFields
    BY <1>1 DEF TreeOK
  <2>2. CASE i # x
    BY <1>1, <2>1, <2>2 DEF Told
  <2>3. CASE i = x
    <3>1. s[i] = [list[i] EXCEPT !.variant = v]
      BY <1>1, <2>3 DEF Told
    <3>2. "obj" \in DOMAIN list[i] /\ "parent" \in DOMAIN list[i]
      BY <2>1 DEF InstanceFields
    <3> QED
      BY <2>1, <3>1, <3>2
  <2> QED
    BY <2>2, <2>3
<1> QED
  BY <1>1, <1>3, <1>4 DEF TreeOK

(* The innermost activation of some notes one more child.                  *)
Noted(st, v) == [st EXCEPT ![Len(st)].logical = Append(@, v)]

(* Those activations, after it did.                                        *)
OneMore(s, below) ==
  /\ IsSeq(s) /\ Len(s) = Len(below) /\ DOMAIN s = 1..Len(below) /\ Len(below) \in Nat
  /\ \A i \in 1..Len(below) :
       /\ s[i].inst = below[i].inst /\ s[i].instanceMark = below[i].instanceMark
       /\ s[i].manifestMark = below[i].manifestMark /\ s[i].recordMark = below[i].recordMark
  /\ \A i \in 1..Len(below) : i # Len(below) => Len(s[i].logical) = Len(below[i].logical)
  /\ Len(s[Len(below)].logical) = Len(below[Len(below)].logical) + 1

FramesOK(st, d, a, b, c) == \A i \in 1..Len(st) : FrameOK(st[i], d, a, b, c)

(* compileRecursively returns: the declaring activation notes one more     *)
(* child, and is otherwise what it was.                                    *)
LEMMA ReturnedIs ==
  ASSUME NEW below, IsSeq(below), below # << >>,
         NEW d, NEW a \in Nat, NEW b \in Nat, NEW c \in Nat,
         FramesOK(below, d, a, b, c),
         NEW v \in 1..a,
         NEW s, s = Noted(below, v)
  PROVE  FramesOK(s, d, a, b, c) /\ OneMore(s, below)
<1> DEFINE n == Len(below)
           f == below[n]
           g == [f EXCEPT !.logical = Append(@, v)]
<1>1. n \in Nat /\ n \in 1..n /\ DOMAIN below = 1..n
  <2>1. n # 0
    BY SeqNone
  <2>2. n \in Nat /\ DOMAIN below = 1..n
    BY SeqFacts
  <2> HIDE DEF n
  <2> QED
    BY <2>1, <2>2, SMT
<1>2. s = [i \in 1..n |-> IF i = n THEN g ELSE below[i]]
  BY <1>1 DEF Noted
<1>3. IsSeq(s) /\ Len(s) = n /\ DOMAIN s = 1..n
  <2>1. s = [i \in 1..n |-> s[i]]
    BY <1>2
  <2> HIDE DEF n
  <2> QED
    BY <1>1, <2>1, SeqFun
<1>4. DOMAIN f = FrameFields /\ FrameOK(f, d, a, b, c)
  BY <1>1 DEF FrameOK, FramesOK
<1>5. /\ DOMAIN g = FrameFields /\ g.logical = Append(f.logical, v)
      /\ g.text = f.text /\ g.key = f.key /\ g.inst = f.inst /\ g.instanceMark = f.instanceMark
      /\ g.countMark = f.countMark /\ g.manifestMark = f.manifestMark /\ g.recordMark = f.recordMark
  <2> HIDE DEF f
  <2> QED
    BY <1>4 DEF FrameFields
<1>6. /\ IsSeq(g.logical) /\ Len(g.logical) = Len(f.logical) + 1
      /\ \A j \in DOMAIN g.logical : g.logical[j] \in 1..a
  <2> HIDE DEF f, g
  <2>1. IsSeq(f.logical) /\ \A j \in DOMAIN f.logical : f.logical[j] \in 1..a
    BY <1>4 DEF FrameOK
  <2>2. /\ IsSeq(Append(f.logical, v)) /\ Len(Append(f.logical, v)) = Len(f.logical) + 1
        /\ \A i \in 1..Len(f.logical) : Append(f.logical, v)[i] = f.logical[i]
        /\ Append(f.logical, v)[Len(f.logical) + 1] = v
    BY <2>1, SeqAppend
  <2>3. Len(f.logical) \in Nat /\ DOMAIN f.logical = 1..Len(f.logical)
        /\ DOMAIN Append(f.logical, v) = 1..(Len(f.logical) + 1)
    BY <2>1, <2>2, SeqFacts
  <2>4. \A j \in 1..(Len(f.logical) + 1) : j \in 1..Len(f.logical) \/ j = Len(f.logical) + 1
    BY <2>3, SMT
  <2> QED
    BY <1>5, <2>1, <2>2, <2>3, <2>4
<1>7. FrameOK(g, d, a, b, c)
  <2> HIDE DEF f, g
  <2> QED
    BY <1>4, <1>5, <1>6 DEF FrameOK
<1> HIDE DEF f, g, n
<1>8. s[n] = g /\ f = below[n] /\ \A i \in 1..n : i # n => s[i] = below[i]
  BY <1>1, <1>2 DEF f
<1>9. \A i \in 1..n : FrameOK(s[i], d, a, b, c)
  BY <1>7, <1>8 DEF n, FramesOK
<1>10. \A i \in 1..n :
         /\ s[i].inst = below[i].inst /\ s[i].instanceMark = below[i].instanceMark
         /\ s[i].manifestMark = below[i].manifestMark /\ s[i].recordMark = below[i].recordMark
  BY <1>5, <1>8
<1>11. \A i \in 1..n : i # n => Len(s[i].logical) = Len(below[i].logical)
  BY <1>8
<1>12. Len(s[n].logical) = Len(below[n].logical) + 1
  BY <1>6, <1>8
<1> QED
  BY <1>1, <1>3, <1>9, <1>10, <1>11, <1>12 DEF n, FramesOK, OneMore

(* ... and the accumulators hold the one contribution more.                *)
LEMMA ReturnedMarks ==
  ASSUME NEW below, IsSeq(below), below # << >>,
         NEW d, NEW a \in Nat, NEW b \in Nat, NEW c \in Nat,
         FramesOK(below, d, a, b, c),
         NEW v \in 1..a,
         NEW s, s = Noted(below, v),
         NEW m \in Nat, NEW l \in Nat, NEW k \in Nat, NEW counted,
         MarksOK(below, m, l, counted), counted => k = l + 1
  PROVE  MarksOK(s, m + 1, k, counted)
<1> DEFINE n == Len(below)
<1>1. /\ IsSeq(s) /\ Len(s) = n /\ DOMAIN s = 1..n /\ n \in Nat
      /\ \A i \in 1..n : s[i].manifestMark = below[i].manifestMark /\ s[i].recordMark = below[i].recordMark
      /\ \A i \in 1..n : i # n => Len(s[i].logical) = Len(below[i].logical)
      /\ Len(s[n].logical) = Len(below[n].logical) + 1
  <2>1. OneMore(s, below)
    BY ReturnedIs
  <2> QED
    BY <2>1 DEF OneMore
<1>2. n # 0 /\ DOMAIN below = 1..n
  BY SeqNone, SeqFacts
<1>3. 1 \in 1..n /\ n \in 1..n /\ \A i \in 1..n : i + 1 \in 1..n => i # n
  <2> HIDE DEF n
  <2> QED
    BY <1>1, <1>2, SMT
<1>4. ASSUME NEW i \in 1..n
      PROVE  /\ below[i].manifestMark \in Nat /\ below[i].recordMark \in Nat
             /\ Len(below[i].logical) \in Nat
  <2>1. FrameOK(below[i], d, a, b, c)
    BY DEF FramesOK
  <2>2. below[i].manifestMark \in Nat /\ below[i].recordMark \in 0..b /\ IsSeq(below[i].logical)
    BY <2>1 DEF FrameOK
  <2>3. \A x \in 0..b : x \in Nat
    BY SMT
  <2> QED
    BY <2>2, <2>3, SeqFacts
<1> HIDE DEF n
<1>5. s[1].manifestMark = 0 /\ s[1].recordMark = 0
  BY <1>1, <1>3 DEF MarksOK
<1>6. m + 1 = s[n].manifestMark + Len(s[n].logical)
  <2>1. m = below[n].manifestMark + Len(below[n].logical)
    BY DEF MarksOK, n
  <2>2. below[n].manifestMark \in Nat /\ Len(below[n].logical) \in Nat
    BY <1>3, <1>4
  <2>3. s[n].manifestMark = below[n].manifestMark /\ Len(s[n].logical) = Len(below[n].logical) + 1
    BY <1>1, <1>3
  <2> DEFINE x == below[n].manifestMark
             y == Len(below[n].logical)
  <2>4. x \in Nat /\ y \in Nat => (x + y) + 1 = x + (y + 1)
    <3> HIDE DEF x, y
    <3> QED
      BY SMT
  <2> QED
    BY <2>1, <2>2, <2>3, <2>4, Zenon
<1>7. counted => k = s[n].recordMark + Len(s[n].logical)
  <2>1. counted => l = below[n].recordMark + Len(below[n].logical)
    BY DEF MarksOK, n
  <2>2. below[n].recordMark \in Nat /\ Len(below[n].logical) \in Nat
    BY <1>3, <1>4
  <2>3. s[n].recordMark = below[n].recordMark /\ Len(s[n].logical) = Len(below[n].logical) + 1
    BY <1>1, <1>3
  <2> DEFINE x == below[n].recordMark
             y == Len(below[n].logical)
  <2>4. x \in Nat /\ y \in Nat => (x + y) + 1 = x + (y + 1)
    <3> HIDE DEF x, y
    <3> QED
      BY SMT
  <2> QED
    BY <2>1, <2>2, <2>3, <2>4, Zenon
<1>8. ASSUME NEW i \in 1..n, i + 1 \in 1..n
      PROVE  /\ s[i + 1].manifestMark = s[i].manifestMark + Len(s[i].logical)
             /\ s[i].recordMark <= s[i + 1].recordMark
             /\ counted => s[i + 1].recordMark = s[i].recordMark + Len(s[i].logical)
  <2>1. i # n
    BY <1>3, <1>8
  <2>2. /\ below[i + 1].manifestMark = below[i].manifestMark + Len(below[i].logical)
        /\ below[i].recordMark <= below[i + 1].recordMark
        /\ counted => below[i + 1].recordMark = below[i].recordMark + Len(below[i].logical)
    BY <1>2, <1>8 DEF MarksOK
  <2> QED
    BY <1>1, <1>8, <2>1, <2>2
<1> QED
  BY <1>1, <1>5, <1>6, <1>7, <1>8 DEF MarksOK

(* An image that is placed has an index that leads to an image.            *)
LEMMA PlaceIs ==
  ASSUME IInv, NEW img, ImageOK(img), Place(img)
  PROVE  /\ IsSeq(childImages') /\ \A i \in DOMAIN childImages' : ImageOK(childImages'[i])
         /\ IsSeq(indexMap') /\ Len(indexMap') = Len(indexMap) + 1
         /\ \A i \in DOMAIN indexMap' : indexMap'[i] \in DOMAIN childImages'
         /\ \A i \in DOMAIN childImages' :
              childImages'[i] = img \/ \E j \in DOMAIN childImages : childImages'[i] = childImages[j]
<1> DEFINE n == Len(childImages)
           m == Len(indexMap)
           dups == Duplicates(img)
           x == IF dups = {} THEN n + 1 ELSE Min(dups)
<1>1. /\ n \in Nat /\ DOMAIN childImages = 1..n /\ IsSeq(childImages)
      /\ m \in Nat /\ DOMAIN indexMap = 1..m /\ IsSeq(indexMap)
      /\ \A i \in 1..n : ImageOK(childImages[i])
      /\ \A i \in 1..m : indexMap[i] \in 1..n
  BY Lengths DEF IInv, Lists
<1>2. /\ childImages' = IF dups = {} THEN Append(childImages, img) ELSE childImages
      /\ indexMap' = Append(indexMap, x)
  BY DEF Place
<1>3. dups \in SUBSET Nat /\ dups \subseteq 1..n
  BY <1>1 DEF Duplicates
<1>4. dups # {} => x \in 1..n
  BY <1>3, MinIs
<1>5. /\ IsSeq(indexMap') /\ Len(indexMap') = m + 1 /\ DOMAIN indexMap' = 1..(m + 1)
      /\ \A i \in 1..m : indexMap'[i] = indexMap[i]
      /\ indexMap'[m + 1] = x
  <2> HIDE DEF x
  <2> QED
    BY <1>1, <1>2, SeqAppend, SeqFacts
<1>6. \A i \in 1..(m + 1) : i \in 1..m \/ i = m + 1
  BY <1>1, SMT
<1>7. CASE dups # {}
  <2>1. childImages' = childImages
    BY <1>2, <1>7
  <2> HIDE DEF m, n, x, dups
  <2> QED
    BY <1>1, <1>4, <1>5, <1>6, <1>7, <2>1 DEF m, n
<1>8. CASE dups = {}
  <2>1. childImages' = Append(childImages, img) /\ x = n + 1
    BY <1>2, <1>8
  <2>2. /\ IsSeq(childImages') /\ Len(childImages') = n + 1 /\ DOMAIN childImages' = 1..(n + 1)
        /\ \A i \in 1..n : childImages'[i] = childImages[i]
        /\ childImages'[n + 1] = img
    BY <1>1, <2>1, SeqAppend, SeqFacts
  <2>3. (\A i \in 1..(n + 1) : i \in 1..n \/ i = n + 1) /\ (\A i \in 1..n : i \in 1..(n + 1))
        /\ n + 1 \in 1..(n + 1)
    BY <1>1, SMT
  <2> HIDE DEF m, n, x, dups
  <2> QED
    BY <1>1, <1>5, <1>6, <2>1, <2>2, <2>3 DEF m
<1> QED
  BY <1>7, <1>8

-----------------------------------------------------------------------------
(* A hit.                                                                  *)

(* Instances that are put below a declaration are a tree with the rest.    *)
Grafted(list, sub, p) ==
  list \o [i \in DOMAIN sub |-> [sub[i] EXCEPT !.parent = IF @ = 0 THEN p ELSE Len(list) + @]]

(* What is put below a declaration hangs there or below itself.            *)
LEMMA GraftedIs ==
  ASSUME NEW list, TreeOK(list), NEW sub, TreeOK(sub), NEW p \in 0..Len(list)
  PROVE  /\ TreeOK(Grafted(list, sub, p)) /\ Len(Grafted(list, sub, p)) = Len(list) + Len(sub)
         /\ \A i \in 1..Len(list) : Grafted(list, sub, p)[i] = list[i]
         /\ \A i \in DOMAIN Grafted(list, sub, p) : i > Len(list) =>
              Grafted(list, sub, p)[i].parent = p \/ Grafted(list, sub, p)[i].parent > Len(list)
<1> DEFINE n == Len(list)
           m == Len(sub)
           r == [i \in DOMAIN sub |-> [sub[i] EXCEPT !.parent = IF @ = 0 THEN p ELSE n + @]]
           s == Grafted(list, sub, p)
<1>1. /\ n \in Nat /\ DOMAIN list = 1..n /\ IsSeq(list)
      /\ m \in Nat /\ DOMAIN sub = 1..m /\ IsSeq(sub)
  BY SeqFacts DEF TreeOK
<1>2. s = list \o r
  BY DEF Grafted
<1>3. IsSeq(r) /\ Len(r) = m /\ DOMAIN r = 1..m
  <2>1. r = [i \in 1..m |-> r[i]]
    BY <1>1
  <2> HIDE DEF r, m
  <2> QED
    BY <1>1, <2>1, SeqFun
<1>4. ASSUME NEW i \in 1..m
      PROVE  /\ DOMAIN r[i] = InstanceFields /\ r[i].obj \in Obj
             /\ r[i].parent \in 0..(n + i - 1) /\ (r[i].parent = p \/ r[i].parent > n)
  <2>1. DOMAIN sub[i] = InstanceFields /\ sub[i].obj \in Obj /\ sub[i].parent \in 0..(i - 1)
    BY <1>1 DEF TreeOK
  <2> DEFINE x == sub[i]
             q == IF x.parent = 0 THEN p ELSE n + x.parent
  <2>2. r[i] = [x EXCEPT !.parent = q]
    BY <1>1
  <2>3. DOMAIN r[i] = InstanceFields /\ r[i].obj = x.obj /\ r[i].parent = q
    <3> HIDE DEF x, q, r
    <3>1. DOMAIN x = InstanceFields
      BY <2>1 DEF x
    <3>2. "obj" \in DOMAIN x /\ "parent" \in DOMAIN x
      BY <3>1 DEF InstanceFields
    <3> QED
      BY <2>2, <3>1, <3>2
  <2>4. q \in 0..(n + i - 1) /\ (q = p \/ q > n)
    <3>1. x.parent \in 0..(i - 1) /\ n \in Nat /\ p \in 0..n /\ i \in 1..m
      BY <1>1, <2>1
    <3> HIDE DEF x, n, m
    <3> QED
      BY <1>1, <3>1, SMT
  <2> QED
    BY <2>1, <2>3, <2>4
<1>5. /\ IsSeq(s) /\ Len(s) = n + m /\ DOMAIN s = 1..(n + m)
      /\ \A i \in 1..n : s[i] = list[i]
      /\ \A i \in 1..m : s[n + i] = r[i]
  <2> HIDE DEF r, s
  <2>1. /\ IsSeq(list \o r) /\ Len(list \o r) = Len(list) + Len(r)
        /\ \A i \in 1..Len(list) : (list \o r)[i] = list[i]
        /\ \A i \in 1..Len(r) : (list \o r)[Len(list) + i] = r[i]
    <3>1. IsSeq(list) /\ IsSeq(r)
      BY <1>1, <1>3
    <3>2. IsSeq(list \o r) /\ Len(list \o r) = Len(list) + Len(r)
      BY <3>1, SeqConcat
    <3>3. \A i \in 1..Len(list) : (list \o r)[i] = list[i]
      BY <3>1, SeqConcat
    <3>4. \A i \in 1..Len(r) : (list \o r)[Len(list) + i] = r[i]
      BY <3>1, SeqConcat
    <3> QED
      BY <3>2, <3>3, <3>4
  <2> QED
    BY <1>2, <1>3, <2>1, SeqFacts
<1>6. ASSUME NEW k \in 1..(n + m) PROVE k \in 1..n \/ (k - n \in 1..m /\ k = n + (k - n) /\ k > n)
  BY <1>1, SMT
<1>7. \A k \in 1..n : ~(k > n)
  BY <1>1, SMT
<1>8. ASSUME NEW k \in 1..(n + m)
      PROVE  /\ DOMAIN s[k] = InstanceFields /\ s[k].obj \in Obj /\ s[k].parent \in 0..(k - 1)
             /\ k > n => s[k].parent = p \/ s[k].parent > n
  <2>1. CASE k \in 1..n
    <3>1. s[k] = list[k]
      BY <1>5, <2>1
    <3>2. DOMAIN list[k] = InstanceFields /\ list[k].obj \in Obj /\ list[k].parent \in 0..(k - 1)
      BY <1>1, <2>1 DEF TreeOK
    <3> QED
      BY <1>7, <2>1, <3>1, <3>2
  <2>2. CASE k - n \in 1..m /\ k = n + (k - n)
    <3>1. s[k] = r[k - n]
      BY <1>5, <2>2
    <3>2. /\ DOMAIN r[k - n] = InstanceFields /\ r[k - n].obj \in Obj
          /\ r[k - n].parent \in 0..(n + (k - n) - 1) /\ (r[k - n].parent = p \/ r[k - n].parent > n)
      BY <1>4, <2>2
    <3>3. n + (k - n) - 1 = k - 1
      BY <2>2
    <3> HIDE DEF r, s, n, m
    <3> QED
      BY <2>2, <3>1, <3>2, <3>3, Zenon
  <2> QED
    BY <1>6, <2>1, <2>2
<1> HIDE DEF s, n, m, r
<1> QED
  BY <1>5, <1>8 DEF TreeOK, s, n, m

(* A patched image has as many cells as before.                            *)
LEMMA PatchIs ==
  ASSUME NEW cells, IsSeq(cells), NEW sites, NEW remap
  PROVE  IsSeq(Patch(cells, sites, remap))
<1> DEFINE f == Patch(cells, sites, remap)
<1>1. Len(cells) \in Nat /\ DOMAIN cells = 1..Len(cells)
  BY SeqFacts
<1>2. f = [i \in 1..Len(cells) |-> f[i]]
  BY <1>1 DEF Patch
<1> HIDE DEF f
<1>3. IsSeq(f)
  BY <1>1, <1>2, SeqFun
<1> QED
  BY <1>3 DEF f

(* Records without their indices.                                          *)
LEMMA RecsIs ==
  ASSUME NEW list, IsSeq(list)
  PROVE  IsSeq([i \in DOMAIN list |-> list[i].rec]) /\ DOMAIN [i \in DOMAIN list |-> list[i].rec] = 1..Len(list)
<1> DEFINE f == [i \in DOMAIN list |-> list[i].rec]
<1>1. Len(list) \in Nat /\ DOMAIN list = 1..Len(list)
  BY SeqFacts
<1>2. f = [i \in 1..Len(list) |-> f[i]]
  BY <1>1
<1> HIDE DEF f
<1>3. IsSeq(f) /\ DOMAIN f = 1..Len(list)
  BY <1>1, <1>2, SeqFun
<1> QED
  BY <1>3 DEF f

(* The records of an entry are given indices of this build.                *)
LEMMA RebasedIs ==
  ASSUME NEW e, RecordsOK(e.records), NEW table, IsSeq(table)
  PROVE  RecordsOK(Rebased(e, table))
<1> DEFINE f == Rebased(e, table)
           n == Len(e.records)
<1>1. n \in Nat /\ DOMAIN e.records = 1..n
  BY SeqFacts DEF RecordsOK
<1>2. f = [i \in 1..n |-> [orig |-> Slot(table, e.records[i].rec), rec |-> e.records[i].rec]]
  BY <1>1 DEF Rebased
<1>3. IsSeq(f) /\ DOMAIN f = 1..n
  <2>1. f = [i \in 1..n |-> f[i]]
    BY <1>2
  <2> HIDE DEF f, n
  <2> QED
    BY <1>1, <2>1, SeqFun
<1>4. \A i \in 1..n : f[i].orig \in Nat
  BY <1>2, SlotIs
<1> QED
  BY <1>3, <1>4 DEF RecordsOK

(* Hit keeps the invariant.                                                *)
LEMMA HitIs ==
  ASSUME IInv, Hit
  PROVE  IInv'
<1> DEFINE e     == cache[CalledKey]
           n     == Len(stack)
           table == InjectAll(debugRecords, [i \in DOMAIN e.records |-> e.records[i].rec])
           remap == [o \in {e.records[i].orig : i \in DOMAIN e.records} |->
                       Slot(table, (CHOOSE r \in Range(e.records) : r.orig = o).rec)]
           cells == Patch(e.cells, e.sites, remap)
           fixed == \E s \in Range(e.sites) : remap[s.orig] # s.orig
           img   == [cells |-> cells, sites |-> e.sites, sumOk |-> fixed \/ cells = e.cells]
           told  == Told(instances, call.inst, e.variant)
<1>1. /\ cache' = cache /\ program' = program /\ caching' = caching /\ builds' = builds
      /\ disk' = disk /\ edits' = edits /\ call' = None /\ docs' = docs
  BY DEF Hit
<1>2. /\ call # None /\ caching /\ stack # << >> /\ CalledKey \in DOMAIN cache
  BY DEF Hit, IsHit
<1>3. debugRecords' = table /\ subtreeManifests' = Append(subtreeManifests, e.manifest)
  BY DEF Hit
<1>4. subtreeDebugRecords' = IF program.debug THEN Append(subtreeDebugRecords, Rebased(e, table))
                             ELSE subtreeDebugRecords
  BY DEF Hit
<1>5. Place(img)
  BY DEF Hit
<1>6. instances' = told \o Replanted(e)
  BY DEF Hit, Told
<1>7. stack' = Noted(stack, Len(indexMap'))
  BY <1>2 DEF Hit, Return, Noted
<1>8. program # None /\ program.debug \in BOOLEAN
  BY <1>2, CompilerAssumptions DEF IInv, CallOK, Settings
<1>9. EntryOK(e) /\ (~program.debug => e.sites = << >>)
  <2>1. CalledKey.debug = program.debug
    BY DEF CalledKey, Key
  <2> QED
    BY <1>2, <2>1 DEF IInv, Stored
<1>10. IsSeq(table)
  <2>1. IsSeq(debugRecords)
    BY DEF IInv, Lists
  <2>2. IsSeq([i \in DOMAIN e.records |-> e.records[i].rec])
    BY <1>9, RecsIs DEF EntryOK, RecordsOK
  <2> HIDE DEF e
  <2> QED
    BY <2>1, <2>2, InjectAllIs
<1>11. RecordsOK(Rebased(e, table))
  <2>1. RecordsOK(e.records)
    BY <1>9 DEF EntryOK
  <2> HIDE DEF e, table
  <2> QED
    BY <1>10, <2>1, RebasedIs
<1>12. ImageOK(img) /\ (~program.debug => img.sites = << >>)
  <2>1. IsSeq(e.cells) /\ e.sites \in Seq(Site)
    BY <1>9 DEF EntryOK, ImageOK
  <2>2. IsSeq(cells)
    <3> HIDE DEF e, remap
    <3> QED
      BY <2>1, PatchIs
  <2>3. img.cells = cells /\ img.sites = e.sites
    OBVIOUS
  <2> HIDE DEF e, cells, img
  <2> QED
    BY <1>9, <2>1, <2>2, <2>3 DEF ImageOK
<1> HIDE DEF e, table, img
<1>13. /\ IsSeq(childImages') /\ \A i \in DOMAIN childImages' : ImageOK(childImages'[i])
       /\ IsSeq(indexMap') /\ Len(indexMap') = Len(indexMap) + 1
       /\ \A i \in DOMAIN indexMap' : indexMap'[i] \in DOMAIN childImages'
       /\ \A i \in DOMAIN childImages' :
            childImages'[i] = img \/ \E j \in DOMAIN childImages : childImages'[i] = childImages[j]
  BY <1>5, <1>12, PlaceIs
<1>14. /\ n \in Nat /\ n \in 1..n /\ DOMAIN stack = 1..n /\ IsSeq(stack)
       /\ Len(instances) \in Nat /\ Len(indexMap) \in Nat /\ Len(subtreeDebugRecords) \in Nat
       /\ Len(subtreeManifests) \in Nat
       /\ IsSeq(subtreeManifests) /\ IsSeq(subtreeDebugRecords)
  BY <1>2, Lengths DEF IInv, Lists, Frames
<1>15. /\ TreeOK(instances') /\ Len(instances) <= Len(instances') /\ Len(instances') \in Nat
       /\ \A i \in 1..Len(instances) : instances'[i].parent = instances[i].parent
       /\ \A i \in DOMAIN instances' : i > Len(instances) =>
            instances'[i].parent = call.inst \/ instances'[i].parent > Len(instances)
  <2>1. TreeOK(instances) /\ TreeOK(e.instances)
    BY <1>9 DEF IInv, Lists, EntryOK
  <2>2. TreeOK(told) /\ Len(told) = Len(instances) /\ DOMAIN told = DOMAIN instances
        /\ \A i \in DOMAIN instances : told[i].parent = instances[i].parent
    BY <2>1, VariantIs
  <2> HIDE DEF told
  <2>3. told \o Replanted(e) = Grafted(told, e.instances, call.inst)
    BY <2>2 DEF Replanted, Grafted
  <2>4. call.inst \in 0..Len(told)
    BY <1>2, <2>2 DEF IInv, CallOK
  <2>5. /\ TreeOK(instances') /\ Len(instances') = Len(told) + Len(e.instances)
        /\ \A i \in 1..Len(told) : instances'[i] = told[i]
        /\ \A i \in DOMAIN instances' : i > Len(told) =>
             instances'[i].parent = call.inst \/ instances'[i].parent > Len(told)
    <3>1. instances' = Grafted(told, e.instances, call.inst)
      BY <1>6, <2>3
    <3>2. /\ TreeOK(Grafted(told, e.instances, call.inst))
          /\ Len(Grafted(told, e.instances, call.inst)) = Len(told) + Len(e.instances)
          /\ \A i \in 1..Len(told) : Grafted(told, e.instances, call.inst)[i] = told[i]
          /\ \A i \in DOMAIN Grafted(told, e.instances, call.inst) : i > Len(told) =>
               \/ Grafted(told, e.instances, call.inst)[i].parent = call.inst
               \/ Grafted(told, e.instances, call.inst)[i].parent > Len(told)
      BY <2>1, <2>2, <2>4, GraftedIs, Zenon
    <3> QED
      BY <3>1, <3>2, Zenon
  <2>6. Len(e.instances) \in Nat /\ DOMAIN instances = 1..Len(instances)
    BY <2>1, SeqFacts DEF TreeOK
  <2>7. \A x, y \in Nat : x <= x + y /\ x + y \in Nat
    BY SMT
  <2> QED
    BY <1>14, <2>2, <2>5, <2>6, <2>7
<1>16. /\ IsSeq(subtreeManifests') /\ Len(subtreeManifests') = Len(subtreeManifests) + 1
  BY <1>3, <1>14, SeqAppend
<1>17. /\ IsSeq(subtreeDebugRecords') /\ \A i \in DOMAIN subtreeDebugRecords' : RecordsOK(subtreeDebugRecords'[i])
       /\ Len(subtreeDebugRecords') \in Nat /\ Len(subtreeDebugRecords) <= Len(subtreeDebugRecords')
       /\ program.debug => Len(subtreeDebugRecords') = Len(subtreeDebugRecords) + 1
       /\ ~program.debug => subtreeDebugRecords' = subtreeDebugRecords
  <2> DEFINE m == Len(subtreeDebugRecords)
             r == Rebased(e, table)
  <2>0. m \in Nat /\ DOMAIN subtreeDebugRecords = 1..m /\ \A i \in 1..m : RecordsOK(subtreeDebugRecords[i])
    BY Lengths DEF IInv, Lists
  <2>1. CASE program.debug
    <3>1. subtreeDebugRecords' = Append(subtreeDebugRecords, r)
      BY <1>4, <2>1
    <3> HIDE DEF r
    <3>2. /\ IsSeq(subtreeDebugRecords') /\ Len(subtreeDebugRecords') = m + 1
          /\ DOMAIN subtreeDebugRecords' = 1..(m + 1)
          /\ \A i \in 1..m : subtreeDebugRecords'[i] = subtreeDebugRecords[i]
          /\ subtreeDebugRecords'[m + 1] = r
      BY <1>14, <3>1, SeqAppend, SeqFacts
    <3> HIDE DEF m
    <3>3. (\A i \in 1..(m + 1) : i \in 1..m \/ i = m + 1) /\ m <= m + 1 /\ m + 1 \in Nat
      BY <2>0, SMT
    <3>4. \A i \in 1..(m + 1) : RecordsOK(subtreeDebugRecords'[i])
      BY <1>11, <2>0, <3>2, <3>3 DEF r
    <3> QED
      BY <2>1, <3>2, <3>3, <3>4 DEF m
  <2>2. CASE ~program.debug
    <3>1. subtreeDebugRecords' = subtreeDebugRecords
      BY <1>4, <2>2
    <3>2. m <= m
      BY <2>0, SMT
    <3> QED
      BY <1>14, <2>0, <2>2, <3>1, <3>2
  <2> QED
    BY <2>1, <2>2
<1>18. Settings'
  BY <1>1 DEF IInv, Settings
<1>19. Documents' /\ Stored'
  BY <1>1 DEF IInv, Documents, Stored
<1>20. Lists'
  BY <1>3, <1>10, <1>13, <1>15, <1>16, <1>17 DEF Lists
<1> DEFINE a == Len(indexMap')
           b == Len(subtreeDebugRecords')
           c == Len(instances')
<1>21. a \in Nat /\ b \in Nat /\ c \in Nat /\ a \in 1..a /\ Len(indexMap) <= a
  <2>1. \A x \in Nat : x + 1 \in Nat /\ x + 1 \in 1..(x + 1) /\ x <= x + 1
    BY SMT
  <2> QED
    BY <1>13, <1>14, <1>15, <1>17, <2>1
<1>22. FramesOK(stack, program.debug, a, b, c)
  <2>1. ASSUME NEW i \in 1..n PROVE FrameOK(stack[i], program.debug, a, b, c)
    <3>1. FrameOK(stack[i], program.debug, Len(indexMap), Len(subtreeDebugRecords), Len(instances))
      BY <1>14 DEF IInv, Frames
    <3> HIDE DEF a, b, c
    <3>2. Len(subtreeDebugRecords) <= b /\ Len(instances) <= c
      BY <1>15, <1>17 DEF b, c
    <3> QED
      BY <1>14, <1>21, <3>1, <3>2, FrameGrows
  <2> QED
    BY <2>1 DEF FramesOK
<1> HIDE DEF b, c
<1>23. FramesOK(stack', program.debug, a, b, c) /\ OneMore(stack', stack)
  BY <1>2, <1>7, <1>14, <1>21, <1>22, ReturnedIs
<1>24. stack' # << >> /\ IsSeq(stack') /\ DOMAIN stack' = 1..n /\ Len(stack') = n
  <2>1. IsSeq(stack') /\ DOMAIN stack' = 1..n /\ Len(stack') = n
    BY <1>23 DEF OneMore
  <2>2. n # 0
    BY <1>14, SMT
  <2> QED
    BY <2>1, <2>2, SeqEmpty
<1>25. Frames'
  <2>1. Len(stack') <= OBJ_STACK_LIMIT + 1
    BY <1>24 DEF IInv, Frames
  <2> QED
    BY <1>1, <1>23, <1>24, <2>1 DEF Frames, FramesOK, b, c
<1>26. CallOK'
  BY <1>1, <1>8 DEF CallOK
<1>27. \A i \in 1..n : stack'[i].inst = stack[i].inst /\ stack'[i].instanceMark = stack[i].instanceMark
  BY <1>23 DEF OneMore
<1>28. Nested'
  <2>1. ASSUME NEW i \in 1..n, NEW k \in DOMAIN instances', k > stack[i].instanceMark
        PROVE  instances'[k].parent = stack[i].inst \/ instances'[k].parent > stack[i].instanceMark
    <3>0. DOMAIN instances' = 1..c /\ k \in Nat
      <4>1. DOMAIN instances' = 1..c
        BY <1>15, SeqFacts DEF TreeOK, c
      <4> QED
        BY <4>1, SMT
    <3>1. CASE k \in 1..Len(instances)
      <4>1. instances[k].parent = stack[i].inst \/ instances[k].parent > stack[i].instanceMark
        BY <1>14, <2>1, <3>1, Lengths DEF IInv, Nested
      <4> QED
        BY <1>15, <3>1, <4>1
    <3>2. CASE k > Len(instances)
      <4>1. stack[i].instanceMark < call.inst /\ call.inst \in 0..Len(instances)
        BY <1>2, <1>14 DEF IInv, CallOK
      <4>2. stack[i].instanceMark \in Nat /\ stack[i].instanceMark <= Len(instances)
        BY FrameNumbers
      <4>3. instances'[k].parent = call.inst \/ instances'[k].parent > Len(instances)
        BY <1>15, <3>2
      <4>4. instances'[k].parent \in Nat
        <5>1. instances'[k].parent \in 0..(k - 1)
          BY <1>15 DEF TreeOK
        <5> QED
          BY <5>1, SMT
      <4> DEFINE p == instances'[k].parent
                 q == stack[i].instanceMark
                 l == Len(instances)
                 z == call.inst
      <4>5. l \in Nat /\ q \in Nat /\ p \in Nat /\ q < z /\ z \in 0..l /\ q <= l /\ (p = z \/ p > l)
        BY <1>14, <4>1, <4>2, <4>3, <4>4
      <4>6. p > q
        <5> HIDE DEF p, q, l, z
        <5> QED
          BY <4>5, SMT
      <4> QED
        BY <4>6
    <3> QED
      <4>1. k \in 1..Len(instances) \/ k > Len(instances)
        BY <1>14, <3>0, SMT
      <4> QED
        BY <3>1, <3>2, <4>1
  <2>2. \A i, j \in 1..n : i < j => stack[i].instanceMark < stack[j].inst
    BY <1>14 DEF IInv, Nested
  <2> QED
    BY <1>24, <1>27, <2>1, <2>2 DEF Nested
<1>29. Marks'
  <2> DEFINE m == Len(subtreeManifests)
             l == Len(subtreeDebugRecords)
             d == caching /\ program.debug
  <2>1. MarksOK(stack, m, l, d)
    BY DEF IInv, Marks
  <2>2. d => b = l + 1
    BY <1>17 DEF b
  <2>3. m \in Nat /\ l \in Nat
    BY <1>14
  <2>4. MarksOK(stack', m + 1, b, d)
    <3> HIDE DEF m, l, d, a
    <3>1. IsSeq(stack) /\ stack # << >> /\ a \in 1..a /\ stack' = Noted(stack, a)
      BY <1>2, <1>7, <1>14, <1>21 DEF a
    <3> QED
      BY <1>21, <1>22, <2>1, <2>2, <2>3, <3>1, ReturnedMarks
  <2> QED
    BY <1>1, <1>16, <1>24, <2>4 DEF Marks, b
<1>30. Undebugged'
  <2>1. ASSUME ~program.debug
        PROVE  /\ \A i \in DOMAIN childImages' : childImages'[i].sites = << >>
               /\ \A i \in DOMAIN subtreeDebugRecords' : subtreeDebugRecords'[i] = << >>
    <3>1. \A i \in DOMAIN childImages : childImages[i].sites = << >>
      BY <1>8, <2>1 DEF IInv, Undebugged
    <3>2. \A i \in DOMAIN subtreeDebugRecords' : subtreeDebugRecords'[i] = << >>
      BY <1>8, <1>17, <2>1 DEF IInv, Undebugged
    <3> QED
      BY <1>12, <1>13, <2>1, <3>1, <3>2
  <2> QED
    BY <1>1, <1>2, <2>1 DEF Undebugged
<1> QED
  BY <1>18, <1>19, <1>20, <1>25, <1>26, <1>28, <1>29, <1>30 DEF IInv

-----------------------------------------------------------------------------
(* A compile.                                                              *)

(* The first elements of a sequence.                                       *)
LEMMA SeqPrefix ==
  ASSUME NEW s, IsSeq(s), NEW n \in 0..Len(s)
  PROVE  /\ IsSeq(SubSeq(s, 1, n)) /\ Len(SubSeq(s, 1, n)) = n
         /\ \A i \in 1..n : SubSeq(s, 1, n)[i] = s[i]
<1>1. Len(s) \in Nat
  BY SeqFacts
<1>2. 0 \in Nat /\ n \in Nat /\ 0 <= n /\ n <= Len(s)
  BY <1>1, SMT
<1>3. /\ IsSeq(SubSeq(s, 0 + 1, n)) /\ Len(SubSeq(s, 0 + 1, n)) = n - 0
      /\ \A i \in 1..(n - 0) : SubSeq(s, 0 + 1, n)[i] = s[0 + i]
  BY <1>2, SeqPart
<1>4. 0 + 1 = 1 /\ n - 0 = n
  BY <1>2, SMT
<1>5. \A i \in 1..n : 0 + i = i
  BY SMT
<1> QED
  BY <1>3, <1>4, <1>5

(* Sites of no record at all are none.                                     *)
LEMMA NoSites ==
  ASSUME NEW sites \in Seq([at : Nat, orig : {}])
  PROVE  sites = << >>
<1> DEFINE S == [at : Nat, orig : {}]
<1>1. IsSeq(sites) /\ Range(sites) \subseteq S
  BY SeqOfSet
<1>2. S = {}
  OBVIOUS
<1>3. Len(sites) \in Nat /\ \A i \in 1..Len(sites) : sites[i] \in Range(sites)
  BY <1>1, SeqFacts
<1>4. 1 \notin 1..Len(sites)
  <2> HIDE DEF S
  <2> QED
    BY <1>1, <1>2, <1>3
<1>5. Len(sites) = 0
  BY <1>3, <1>4, SMT
<1> QED
  BY <1>1, <1>5, SeqNone

(* A compiled image has sites where a record is named, and none without -d.*)
LEMMA EmitIs ==
  ASSUME NEW text, IsSeq(text.calls), NEW ov, NEW debug \in BOOLEAN,
         NEW table, IsSeq(table), NEW kids, IsSeq(kids),
         \A i \in 1..Len(kids) : ImageOK(kids[i]) /\ (~debug => kids[i].sites = << >>)
  PROVE  /\ ImageOK(Emit(text, ov, debug, table, kids))
         /\ ~debug => Emit(text, ov, debug, table, kids).sites = << >>
<1> DEFINE O     == IF debug THEN Nat ELSE {}
           S     == [at : Nat, orig : O]
           calls == IF debug THEN [i \in DOMAIN text.calls |-> text.calls[i].rec] ELSE << >>
           codes == [i \in DOMAIN calls |-> Slot(table, calls[i])]
           first == <<CodeCell(Code(text, ov))>>
           brks  == [i \in DOMAIN codes |-> BrkCell(codes[i])]
           sites == [i \in DOMAIN codes |-> [at |-> i + 1, orig |-> codes[i]]]
           own   == [cells |-> first \o brks, sites |-> sites, sumOk |-> TRUE]
           all   == Splice(<<own>> \o kids)
           n     == Len(calls)
<1>1. IsSeq(calls) /\ n \in Nat /\ DOMAIN calls = 1..n /\ (~debug => n = 0)
  <2>1. IsSeq([i \in DOMAIN text.calls |-> text.calls[i].rec])
    BY RecsIs
  <2>2. IsSeq(calls)
    BY <2>1, SeqEmpty
  <2>3. ~debug => Len(calls) = 0
    BY SeqEmpty
  <2> HIDE DEF calls
  <2> QED
    BY <2>2, <2>3, SeqFacts
<1> HIDE DEF calls
<1>2. DOMAIN codes = 1..n /\ \A i \in 1..n : codes[i] \in O
  <2>1. DOMAIN codes = 1..n
    BY <1>1
  <2>2. ASSUME NEW i \in 1..n PROVE codes[i] \in O
    <3>1. codes[i] = Slot(table, calls[i]) /\ codes[i] \in Nat
      BY <1>1, SlotIs
    <3>2. debug
      <4>1. n # 0
        <5> HIDE DEF n
        <5> QED
          BY <1>1, SMT
      <4> QED
        BY <1>1, <4>1
    <3> QED
      BY <3>1, <3>2
  <2> QED
    BY <2>1, <2>2
<1> HIDE DEF codes, n
<1>3. IsSeq(brks)
  <2>1. brks = [i \in 1..n |-> brks[i]]
    BY <1>2
  <2> HIDE DEF brks
  <2> QED
    BY <1>1, <2>1, SeqFun
<1>4. sites \in Seq(S)
  <2>1. ASSUME NEW i \in 1..n PROVE sites[i] \in S
    <3>1. sites[i] = [at |-> i + 1, orig |-> codes[i]]
      BY <1>2
    <3>2. i + 1 \in Nat /\ codes[i] \in O
      BY <1>2, SMT
    <3> HIDE DEF O, sites
    <3> QED
      BY <3>1, <3>2
  <2>2. sites \in [1..n -> S]
    BY <1>2, <2>1
  <2> HIDE DEF sites, S
  <2> QED
    BY <1>1, <2>2, SeqMade
<1>5. IsSeq(first \o brks)
  <2>1. IsSeq(first)
    BY SeqOne
  <2> HIDE DEF first, brks
  <2> QED
    BY <1>3, <2>1, SeqConcat
<1>6. own.cells = first \o brks /\ own.sites = sites
  OBVIOUS
<1> HIDE DEF own, sites, first, brks
<1>7. /\ IsSeq(<<own>> \o kids) /\ Len(<<own>> \o kids) = 1 + Len(kids)
      /\ (<<own>> \o kids)[1] = own
      /\ \A i \in 1..Len(kids) : (<<own>> \o kids)[1 + i] = kids[i]
  <2>1. IsSeq(<<own>>) /\ Len(<<own>>) = 1 /\ <<own>>[1] = own
    BY SeqOne
  <2>2. IsSeq(<<own>> \o kids) /\ Len(<<own>> \o kids) = Len(<<own>>) + Len(kids)
    BY <2>1, SeqConcat
  <2>3. \A i \in 1..Len(<<own>>) : (<<own>> \o kids)[i] = <<own>>[i]
    BY <2>1, SeqConcat
  <2>4. \A i \in 1..Len(kids) : (<<own>> \o kids)[Len(<<own>>) + i] = kids[i]
    BY <2>1, SeqConcat
  <2>5. 1 \in 1..Len(<<own>>)
    BY <2>1, SMT
  <2> QED
    BY <2>1, <2>2, <2>3, <2>4, <2>5, Zenon
<1>8. ASSUME NEW i \in 1..Len(kids) PROVE IsSeq(kids[i].cells) /\ kids[i].sites \in Seq(S)
  <2>1. IsSeq(kids[i].cells) /\ kids[i].sites \in Seq(Site)
    BY DEF ImageOK
  <2>2. CASE debug
    BY <2>1, <2>2 DEF Site
  <2>3. CASE ~debug
    <3>1. kids[i].sites = << >>
      BY <2>3
    <3>2. << >> \in Seq(S)
      <4> HIDE DEF S
      <4> QED
        OBVIOUS
    <3> QED
      BY <2>1, <3>1, <3>2
  <2> QED
    BY <2>2, <2>3
<1>9. Len(kids) \in Nat
  BY SeqFacts
<1>10. ASSUME NEW i \in 1..Len(<<own>> \o kids)
       PROVE  IsSeq((<<own>> \o kids)[i].cells) /\ (<<own>> \o kids)[i].sites \in Seq(S)
  <2>1. i = 1 \/ (i - 1 \in 1..Len(kids) /\ i = 1 + (i - 1))
    BY <1>7, <1>9, SMT
  <2>2. CASE i = 1
    BY <1>4, <1>5, <1>6, <1>7, <2>2
  <2>3. CASE i - 1 \in 1..Len(kids) /\ i = 1 + (i - 1)
    <3>1. (<<own>> \o kids)[i] = kids[i - 1]
      BY <1>7, <2>3
    <3> QED
      BY <1>8, <2>3, <3>1
  <2> QED
    BY <2>1, <2>2, <2>3
<1>11. IsSeq(all.cells) /\ all.sites \in Seq(S)
  <2> DEFINE ks == <<own>> \o kids
  <2>1. IsSeq(ks) /\ \A i \in 1..Len(ks) : IsSeq(ks[i].cells) /\ ks[i].sites \in Seq([at : Nat, orig : O])
    BY <1>7, <1>10
  <2> HIDE DEF ks, O
  <2>2. IsSeq(Splice(ks).cells) /\ Splice(ks).sites \in Seq([at : Nat, orig : O])
    BY <2>1, SpliceIs
  <2> QED
    BY <2>2 DEF ks
<1>12. Emit(text, ov, debug, table, kids) = [cells |-> all.cells, sites |-> all.sites, sumOk |-> TRUE]
  BY DEF Emit, own, sites, first, brks, codes, calls
<1>13. debug => S = Site
  BY DEF Site
<1>14. ~debug => S = [at : Nat, orig : {}]
  OBVIOUS
<1> HIDE DEF all, S, O
<1>15. CASE debug
  BY <1>11, <1>12, <1>13, <1>15 DEF ImageOK
<1>16. CASE ~debug
  <2>1. all.sites = << >>
    BY <1>11, <1>14, <1>16, NoSites
  <2>2. << >> \in Seq(Site)
    OBVIOUS
  <2> QED
    BY <1>11, <1>12, <2>1, <2>2 DEF ImageOK
<1> QED
  BY <1>15, <1>16

(* What is folded into an entry: finitely many indices.                    *)
LEMMA SubtreeIndicesIs ==
  ASSUME IInv, stack # << >>, NEW table, IsSeq(table), NEW sites \in Seq(Site)
  PROVE  /\ SubtreeIndices(table, sites) \in SUBSET Nat /\ IsFiniteSet(SubtreeIndices(table, sites))
         /\ \A i \in DOMAIN sites : sites[i].orig \in SubtreeIndices(table, sites)
         /\ program # None /\ ~program.debug /\ sites = << >> => SubtreeIndices(table, sites) = {}
<1> DEFINE added == IF program.debug THEN (frame.countMark + 1)..Len(table) ELSE {}
           since == Since(subtreeDebugRecords, frame.recordMark)
           below == UNION {Range(h) : h \in Range(since)}
           named == {sites[i].orig : i \in DOMAIN sites}
           handed == {r.orig : r \in below}
<1>1. SubtreeIndices(table, sites) = added \cup named \cup handed
  BY DEF SubtreeIndices
<1>2. frame.countMark \in Nat /\ frame.recordMark \in 0..Len(subtreeDebugRecords)
  BY FrameIs DEF FrameOK
<1>3. added \in SUBSET Nat /\ IsFiniteSet(added)
  <2> DEFINE x == frame.countMark
             y == Len(table)
  <2>1. x + 1 \in Int /\ y \in Int /\ (x + 1)..y \in SUBSET Nat
    <3>1. x \in Nat /\ y \in Nat
      BY <1>2, SeqFacts
    <3> HIDE DEF x, y
    <3> QED
      BY <3>1, SMT
  <2>2. IsFiniteSet((x + 1)..y)
    <3> HIDE DEF x, y
    <3> QED
      BY <2>1, FS_Interval
  <2>3. IsFiniteSet({})
    BY FS_EmptySet
  <2> QED
    BY <2>1, <2>2, <2>3
<1>4. Len(sites) \in Nat /\ DOMAIN sites = 1..Len(sites) /\ \A i \in DOMAIN sites : sites[i] \in Site
  <2>1. IsSeq(sites) /\ Range(sites) \subseteq Site
    BY SeqOfSet
  <2> QED
    BY <2>1, SeqFacts
<1>5. named \in SUBSET Nat /\ IsFiniteSet(named)
  <2> DEFINE f == [i \in 1..Len(sites) |-> sites[i].orig]
  <2>1. \A x \in Site : x.orig \in Nat
    BY DEF Site
  <2>2. named \in SUBSET Nat
    BY <1>4, <2>1
  <2>3. named = {f[i] : i \in 1..Len(sites)}
    BY <1>4
  <2>4. IsFiniteSet(1..Len(sites))
    BY <1>4, FS_Interval
  <2>5. IsFiniteSet({f[i] : i \in 1..Len(sites)})
    <3> HIDE DEF f
    <3> QED
      BY <2>4, ImageFinite
  <2> QED
    BY <2>2, <2>3, <2>5
<1>6. IsSeq(since) /\ \A i \in DOMAIN since : \E j \in DOMAIN subtreeDebugRecords : since[i] = subtreeDebugRecords[j]
  <2> DEFINE m == frame.recordMark
             l == Len(subtreeDebugRecords)
  <2>1. IsSeq(subtreeDebugRecords) /\ l \in Nat /\ DOMAIN subtreeDebugRecords = 1..l
    BY Lengths DEF IInv, Lists
  <2>2. m \in Nat /\ m <= l /\ l <= l /\ l - m \in Nat
    <3>1. m \in 0..l
      BY <1>2
    <3> HIDE DEF m, l
    <3> QED
      BY <2>1, <3>1, SMT
  <2>3. since = SubSeq(subtreeDebugRecords, m + 1, l)
    BY DEF Since
  <2> HIDE DEF since, m
  <2>4. IsSeq(since) /\ Len(since) = l - m /\ \A i \in 1..(l - m) : since[i] = subtreeDebugRecords[m + i]
    BY <2>1, <2>2, <2>3, SeqPart
  <2>5. DOMAIN since = 1..(l - m)
    BY <2>4, SeqFacts
  <2>6. \A i \in 1..(l - m) : m + i \in 1..l
    <3> HIDE DEF l
    <3> QED
      BY <2>1, <2>2, SMT
  <2> QED
    BY <2>1, <2>4, <2>5, <2>6
<1>7. \A h \in Range(since) : RecordsOK(h)
  <2>1. \A i \in DOMAIN since : RecordsOK(since[i])
    BY <1>6 DEF IInv, Lists
  <2> QED
    BY <2>1 DEF Range
<1> HIDE DEF since
<1>8. IsFiniteSet(below) /\ \A r \in below : r.orig \in Nat
  <2>1. IsFiniteSet(Range(since))
    BY <1>6, SeqRangeFinite
  <2> DEFINE g == [h \in Range(since) |-> Range(h)]
             T == {g[h] : h \in Range(since)}
  <2>2. IsFiniteSet(T)
    <3> HIDE DEF g
    <3> QED
      BY <2>1, ImageFinite
  <2>3. \A s \in T : IsFiniteSet(s)
    <3>1. \A h \in Range(since) : IsFiniteSet(Range(h))
      BY <1>7, SeqRangeFinite DEF RecordsOK
    <3> QED
      BY <3>1
  <2>4. below = UNION T
    OBVIOUS
  <2>5. IsFiniteSet(UNION T)
    <3> HIDE DEF T
    <3> QED
      BY <2>2, <2>3, FS_UNION
  <2>6. ASSUME NEW r \in below PROVE r.orig \in Nat
    <3>1. PICK h \in Range(since) : r \in Range(h)
      OBVIOUS
    <3>2. RecordsOK(h)
      BY <1>7
    <3> QED
      BY <3>1, <3>2 DEF RecordsOK, Range
  <2> HIDE DEF T, below
  <2> QED
    BY <2>4, <2>5, <2>6
<1>9. handed \in SUBSET Nat /\ IsFiniteSet(handed)
  <2> DEFINE f == [r \in below |-> r.orig]
  <2> HIDE DEF below
  <2>1. handed = {f[r] : r \in below}
    OBVIOUS
  <2>2. IsFiniteSet({f[r] : r \in below})
    <3> HIDE DEF f
    <3> QED
      BY <1>8, ImageFinite
  <2> QED
    BY <1>8, <2>1, <2>2
<1>10. ASSUME program # None, ~program.debug, sites = << >> PROVE added \cup named \cup handed = {}
  <2>1. added = {} /\ named = {}
    BY <1>10, SeqEmpty
  <2>2. \A i \in DOMAIN since : since[i] = << >>
    BY <1>6, <1>10 DEF IInv, Undebugged
  <2>3. \A h \in Range(since) : Range(h) = {}
    BY <2>2, SeqEmpty DEF Range
  <2> QED
    BY <2>1, <2>3
<1>11. \A i \in DOMAIN sites : sites[i].orig \in named
  OBVIOUS
<1> HIDE DEF added, named, handed
<1>12. IsFiniteSet(added \cup named \cup handed)
  BY <1>3, <1>5, <1>9, FS_Union
<1> QED
  BY <1>1, <1>3, <1>5, <1>9, <1>10, <1>11, <1>12

(* Every site of the image has its record, and there is none without -d.   *)
LEMMA SubtreeRecordsIs ==
  ASSUME IInv, stack # << >>, NEW table, IsSeq(table), NEW sites \in Seq(Site)
  PROVE  /\ RecordsOK(SubtreeRecords(table, sites))
         /\ \A i \in DOMAIN sites : \E j \in DOMAIN SubtreeRecords(table, sites) :
              SubtreeRecords(table, sites)[j].orig = sites[i].orig
         /\ program # None /\ ~program.debug /\ sites = << >> => SubtreeRecords(table, sites) = << >>
<1> DEFINE S == SubtreeIndices(table, sites)
           order == Ascending(S)
           recs == SubtreeRecords(table, sites)
           n == Len(order)
<1>1. S \in SUBSET Nat /\ IsFiniteSet(S) /\ (\A i \in DOMAIN sites : sites[i].orig \in S)
      /\ (program # None /\ ~program.debug /\ sites = << >> => S = {})
  BY SubtreeIndicesIs
<1> HIDE DEF S
<1>2. IsSeq(order) /\ Range(order) = S
  BY <1>1, AscendingIs
<1>3. n \in Nat /\ DOMAIN order = 1..n /\ \A i \in 1..n : order[i] \in S
  BY <1>2, SeqFacts
<1>4. recs = [i \in 1..n |-> [orig |-> order[i], rec |-> RecordAt(table, order[i])]]
  BY <1>3 DEF SubtreeRecords, S
<1>5. IsSeq(recs) /\ Len(recs) = n /\ DOMAIN recs = 1..n
  <2>1. recs = [i \in 1..n |-> recs[i]]
    BY <1>4
  <2> HIDE DEF recs, n
  <2> QED
    BY <1>3, <2>1, SeqFun
<1>6. \A i \in 1..n : recs[i].orig = order[i]
  BY <1>4
<1> HIDE DEF recs
<1>7. RecordsOK(recs)
  BY <1>1, <1>3, <1>5, <1>6 DEF RecordsOK
<1>8. \A i \in DOMAIN sites : \E j \in DOMAIN recs : recs[j].orig = sites[i].orig
  <2> TAKE i \in DOMAIN sites
  <2>1. PICK j \in DOMAIN order : order[j] = sites[i].orig
    BY <1>1, <1>2 DEF Range
  <2> QED
    BY <1>3, <1>5, <1>6, <2>1
<1>9. S = {} => recs = << >>
  <2> SUFFICES ASSUME S = {} PROVE recs = << >>
    OBVIOUS
  <2> HIDE DEF n
  <2>1. 1 \notin 1..n
    BY <1>3
  <2>2. n = 0
    BY <1>3, <2>1, SMT
  <2> QED
    BY <1>5, <2>2, SeqNone
<1> QED
  BY <1>1, <1>7, <1>8, <1>9 DEF recs

(* The instances an entry records are a tree of their own.                 *)
LEMMA SubtreeInstancesIs ==
  ASSUME IInv, stack # << >>
  PROVE  TreeOK(SubtreeInstances)
<1> DEFINE l == Len(instances)
           m == frame.instanceMark
           below == Since(instances, m)
           s == SubtreeInstances
<1>1. l \in Nat /\ DOMAIN instances = 1..l /\ IsSeq(instances)
  BY Lengths DEF IInv, Lists, TreeOK
<1>2. m \in Nat /\ m <= l /\ l <= l /\ l - m \in Nat
  <2>1. m \in 0..l
    BY FrameIs DEF FrameOK
  <2> HIDE DEF m, l
  <2> QED
    BY <1>1, <2>1, SMT
<1>3. frame.inst \in 0..m
  BY FrameIs DEF FrameOK
<1>4. \A k \in 1..l : k > m => instances[k].parent = frame.inst \/ instances[k].parent > m
  BY <1>1, FrameIs, Lengths DEF IInv, Nested
<1>5. s = [i \in DOMAIN below |->
            [below[i] EXCEPT !.parent = IF @ = frame.inst THEN 0 ELSE @ - m]]
  BY DEF SubtreeInstances
<1>6. below = SubSeq(instances, m + 1, l)
  BY DEF Since
<1> HIDE DEF below, m, s
<1>7. IsSeq(below) /\ Len(below) = l - m /\ \A i \in 1..(l - m) : below[i] = instances[m + i]
  BY <1>1, <1>2, <1>6, SeqPart
<1>8. DOMAIN below = 1..(l - m)
  BY <1>7, SeqFacts
<1>9. IsSeq(s) /\ DOMAIN s = 1..(l - m)
  <2> DEFINE d == l - m
  <2>1. s = [i \in 1..d |-> s[i]]
    BY <1>5, <1>8
  <2>2. d \in Nat
    BY <1>2
  <2> HIDE DEF d
  <2>3. IsSeq(s) /\ DOMAIN s = 1..d
    BY <2>1, <2>2, SeqFun
  <2> QED
    BY <2>3 DEF d
<1>10. ASSUME NEW i \in 1..(l - m)
       PROVE  DOMAIN s[i] = InstanceFields /\ s[i].obj \in Obj /\ s[i].parent \in 0..(i - 1)
  <2> DEFINE x == instances[m + i]
             q == IF x.parent = frame.inst THEN 0 ELSE x.parent - m
  <2>1. m + i \in 1..l /\ m + i > m /\ i \in Nat
    <3> HIDE DEF l
    <3> QED
      BY <1>1, <1>2, SMT
  <2>2. DOMAIN x = InstanceFields /\ x.obj \in Obj /\ x.parent \in 0..(m + i - 1)
    <3>1. \A k \in 1..l : DOMAIN instances[k] = InstanceFields /\ instances[k].obj \in Obj
                           /\ instances[k].parent \in 0..(k - 1)
      BY <1>1 DEF IInv, Lists, TreeOK
    <3> DEFINE k == m + i
    <3>2. k \in 1..l
      BY <2>1
    <3> HIDE DEF k
    <3>3. DOMAIN instances[k] = InstanceFields /\ instances[k].obj \in Obj
          /\ instances[k].parent \in 0..(k - 1)
      BY <3>1, <3>2
    <3>4. instances[k] = x
      BY DEF k
    <3>5. k - 1 = m + i - 1
      BY <1>2, <2>1, SMT DEF k
    <3> HIDE DEF x
    <3> QED
      BY <3>3, <3>4, <3>5, Zenon
  <2>3. x.parent = frame.inst \/ x.parent > m
    BY <1>4, <2>1
  <2>4. s[i] = [x EXCEPT !.parent = q]
    BY <1>5, <1>7, <1>8
  <2>5. DOMAIN s[i] = InstanceFields /\ s[i].obj = x.obj /\ s[i].parent = q
    <3> HIDE DEF x, q
    <3>1. "obj" \in DOMAIN x /\ "parent" \in DOMAIN x
      BY <2>2 DEF InstanceFields
    <3> QED
      BY <2>2, <2>4, <3>1
  <2>6. q \in 0..(i - 1)
    <3> DEFINE p == x.parent
               t == frame.inst
    <3>1. p \in 0..(m + i - 1) /\ (p = t \/ p > m) /\ q = IF p = t THEN 0 ELSE p - m
      BY <2>2, <2>3
    <3>2. i >= 1 /\ i \in Nat
      <4> HIDE DEF l
      <4> QED
        BY <1>1, <1>2, SMT
    <3> HIDE DEF p, t, q, x
    <3> QED
      BY <1>2, <3>1, <3>2, SMT
  <2> QED
    BY <2>2, <2>5, <2>6
<1> QED
  BY <1>9, <1>10 DEF TreeOK, s

(* The images of the children.                                             *)
LEMMA KidImagesIs ==
  ASSUME IInv, stack # << >>
  PROVE  /\ IsSeq(KidImages)
         /\ \A i \in 1..Len(KidImages) :
              ImageOK(KidImages[i]) /\ (program # None /\ ~program.debug => KidImages[i].sites = << >>)
<1> DEFINE n == Len(frame.logical)
<1>1. IsSeq(frame.logical) /\ \A i \in DOMAIN frame.logical : frame.logical[i] \in 1..Len(indexMap)
  BY FrameIs DEF FrameOK
<1>2. n \in Nat /\ DOMAIN frame.logical = 1..n
  BY <1>1, SeqFacts
<1>3. KidImages = [i \in 1..n |-> childImages[indexMap[frame.logical[i]]]]
  BY <1>2 DEF KidImages
<1>4. IsSeq(KidImages) /\ Len(KidImages) = n
  <2>1. KidImages = [i \in 1..n |-> KidImages[i]]
    BY <1>3
  <2> HIDE DEF n
  <2> QED
    BY <1>2, <2>1, SeqFun
<1>5. ASSUME NEW i \in 1..n PROVE indexMap[frame.logical[i]] \in DOMAIN childImages
  BY <1>1, <1>2, Lengths DEF IInv, Lists
<1>6. \A j \in DOMAIN childImages :
        ImageOK(childImages[j]) /\ (program # None /\ ~program.debug => childImages[j].sites = << >>)
  BY DEF IInv, Lists, Undebugged
<1>7. \A i \in 1..n : KidImages[i] = childImages[indexMap[frame.logical[i]]]
  BY <1>3
<1> QED
  BY <1>4, <1>5, <1>6, <1>7

(* What a mark is taken of is left as it was.                              *)
Folded(acc, mark, tail) == Before(acc, mark) \o tail

FoldedOK(s, acc, mark, tail) ==
  /\ IsSeq(s) /\ Len(s) = mark + Len(tail)
  /\ \A i \in 1..(mark + Len(tail)) :
       \/ i \in 1..Len(acc) /\ s[i] = acc[i]
       \/ \E j \in 1..Len(tail) : s[i] = tail[j]

(* Folding cuts an accumulator at a mark and appends at most one.          *)
LEMMA BeforeIs ==
  ASSUME NEW acc, IsSeq(acc), NEW mark \in 0..Len(acc), NEW tail, IsSeq(tail)
  PROVE  FoldedOK(Folded(acc, mark, tail), acc, mark, tail)
<1> DEFINE b == Before(acc, mark)
           l == Len(tail)
           s == b \o tail
<1>1. Len(acc) \in Nat /\ l \in Nat /\ mark \in Nat /\ mark <= Len(acc)
  <2>1. Len(acc) \in Nat /\ l \in Nat
    BY SeqFacts
  <2> QED
    BY <2>1, SMT
<1>2. IsSeq(b) /\ Len(b) = mark /\ \A i \in 1..mark : b[i] = acc[i]
  BY SeqPrefix DEF Before
<1> HIDE DEF b
<1>3. IsSeq(s) /\ Len(s) = Len(b) + Len(tail)
  BY <1>2, SeqConcat
<1>4. \A i \in 1..Len(b) : s[i] = b[i]
  BY <1>2, SeqConcat
<1>5. \A i \in 1..Len(tail) : s[Len(b) + i] = tail[i]
  BY <1>2, SeqConcat
<1> HIDE DEF s
<1>6. ASSUME NEW i \in 1..(mark + l)
      PROVE  (i \in 1..Len(acc) /\ s[i] = acc[i]) \/ \E j \in 1..l : s[i] = tail[j]
  <2> HIDE DEF l
  <2>1. i \in 1..mark \/ (i - mark \in 1..l /\ i = mark + (i - mark))
    BY <1>1, SMT
  <2>2. CASE i \in 1..mark
    <3>1. i \in 1..Len(acc)
      BY <1>1, <2>2, SMT
    <3> QED
      BY <1>2, <1>4, <2>2, <3>1
  <2>3. CASE i - mark \in 1..l /\ i = mark + (i - mark)
    <3>1. s[i] = tail[i - mark]
      BY <1>2, <1>5, <2>3 DEF l
    <3> QED
      BY <2>3, <3>1
  <2> QED
    BY <2>1, <2>2, <2>3
<1> QED
  BY <1>2, <1>3, <1>6 DEF b, s, Folded, FoldedOK

(* Finish keeps the invariant.                                             *)
LEMMA FinishIs ==
  ASSUME IInv, Finish
  PROVE  IInv'
<1> DEFINE n     == Len(stack)
           text  == frame.text
           child == n > 1
           recs  == IF program.debug THEN [i \in DOMAIN text.calls |-> text.calls[i].rec] ELSE << >>
           table == InjectAll(debugRecords, recs)
           img   == Emit(text, frame.ov, program.debug, table, KidImages)
           own   == [text |-> text, ov |-> frame.ov]
           records == SubtreeRecords(table, img.sites)
           entry == [cells |-> img.cells, sites |-> img.sites, variant |-> own,
                     manifest |-> SubtreeManifest, records |-> records,
                     exports |-> Since(defSymbols, frame.defsMark),
                     instances |-> SubtreeInstances]
           below == Front(stack)
           more  == IF child THEN <<SubtreeManifest>> ELSE << >>
           lists == IF child /\ caching THEN <<records>> ELSE << >>
<1>1. /\ program' = program /\ caching' = caching /\ builds' = builds
      /\ disk' = disk /\ edits' = edits /\ call' = call /\ docs' = docs
  BY DEF Finish
<1>2. program # None /\ stack # << >> /\ call = None
  BY DEF Finish, ChildrenDone
<1>3. /\ debugRecords' = table /\ Place(img)
      /\ instances' = IF child THEN Told(instances, frame.inst, own) ELSE instances
      /\ subtreeManifests' = Folded(subtreeManifests, frame.manifestMark, more)
      /\ subtreeDebugRecords' = Folded(subtreeDebugRecords, frame.recordMark, lists)
  BY DEF Finish, Told, Folded
<1>4. cache' = IF child /\ caching
               THEN [k \in DOMAIN cache \cup {frame.key} |-> IF k = frame.key THEN entry ELSE cache[k]]
               ELSE cache
  BY DEF Finish
<1>5. stack' = IF below = << >> THEN below ELSE Noted(below, Len(indexMap'))
  BY DEF Finish, Return, Noted
<1>6. program.debug \in BOOLEAN
  BY <1>2, CompilerAssumptions DEF IInv, Settings
<1>7. /\ n \in Nat /\ n \in 1..n /\ DOMAIN stack = 1..n /\ IsSeq(stack) /\ frame = stack[n]
      /\ Len(instances) \in Nat /\ Len(indexMap) \in Nat /\ Len(subtreeDebugRecords) \in Nat
      /\ Len(subtreeManifests) \in Nat
      /\ IsSeq(subtreeManifests) /\ IsSeq(subtreeDebugRecords)
  BY <1>2, Lengths, FrameIs DEF IInv, Lists, Frames
<1>8. FrameOK(frame, program.debug, Len(indexMap), Len(subtreeDebugRecords), Len(instances))
  BY <1>2, FrameIs
<1>9. IsSeq(text.calls)
  BY <1>8 DEF FrameOK, TextOK
<1>10. IsSeq(table)
  <2>1. IsSeq(debugRecords)
    BY DEF IInv, Lists
  <2>2. IsSeq([i \in DOMAIN text.calls |-> text.calls[i].rec])
    BY <1>9, RecsIs
  <2>3. IsSeq(recs)
    BY <2>2, SeqEmpty
  <2> HIDE DEF recs
  <2> QED
    BY <2>1, <2>3, InjectAllIs
<1>11. ImageOK(img) /\ (~program.debug => img.sites = << >>)
  <2> DEFINE kids == KidImages
             debug == program.debug
             ov == frame.ov
  <2>1. IsSeq(kids) /\ \A i \in 1..Len(kids) : ImageOK(kids[i]) /\ (~debug => kids[i].sites = << >>)
    BY <1>2, KidImagesIs
  <2>2. debug \in BOOLEAN
    BY <1>6
  <2> HIDE DEF text, table, kids, debug, ov
  <2>3. ImageOK(Emit(text, ov, debug, table, kids)) /\ (~debug => Emit(text, ov, debug, table, kids).sites = << >>)
    BY <1>9, <1>10, <2>1, <2>2, EmitIs
  <2> QED
    BY <2>3 DEF kids, debug, ov
<1> HIDE DEF table, img
<1>12. /\ RecordsOK(records)
       /\ \A i \in DOMAIN img.sites : \E j \in DOMAIN records : records[j].orig = img.sites[i].orig
       /\ ~program.debug => records = << >>
  <2>1. img.sites \in Seq(Site)
    BY <1>11 DEF ImageOK
  <2> QED
    BY <1>2, <1>10, <1>11, <2>1, SubtreeRecordsIs
<1> HIDE DEF records
<1>13. /\ IsSeq(childImages') /\ \A i \in DOMAIN childImages' : ImageOK(childImages'[i])
       /\ IsSeq(indexMap') /\ Len(indexMap') = Len(indexMap) + 1
       /\ \A i \in DOMAIN indexMap' : indexMap'[i] \in DOMAIN childImages'
       /\ \A i \in DOMAIN childImages' :
            childImages'[i] = img \/ \E j \in DOMAIN childImages : childImages'[i] = childImages[j]
  BY <1>3, <1>11, PlaceIs
<1>14. /\ TreeOK(instances') /\ Len(instances') = Len(instances) /\ DOMAIN instances' = DOMAIN instances
       /\ \A i \in DOMAIN instances : instances'[i].parent = instances[i].parent
  <2>1. TreeOK(instances)
    BY DEF IInv, Lists
  <2> HIDE DEF own
  <2> QED
    BY <1>3, <2>1, VariantIs
<1>15. /\ frame.manifestMark \in Nat /\ frame.recordMark \in Nat /\ Len(frame.logical) \in Nat
       /\ frame.recordMark \in 0..Len(subtreeDebugRecords)
       /\ frame.manifestMark \in 0..Len(subtreeManifests)
  <2>1. /\ frame.manifestMark \in Nat /\ frame.recordMark \in Nat /\ Len(frame.logical) \in Nat
        /\ frame.recordMark <= Len(subtreeDebugRecords)
    BY <1>7, FrameNumbers
  <2>2. Len(subtreeManifests) = frame.manifestMark + Len(frame.logical)
    BY <1>2, <1>7 DEF IInv, Marks, MarksOK
  <2>3. \A x, y \in Nat : x \in 0..(x + y)
    BY SMT
  <2>4. \A x, y \in Nat : x <= y => x \in 0..y
    BY SMT
  <2> QED
    BY <1>7, <2>1, <2>2, <2>3, <2>4
<1>16. /\ IsSeq(more) /\ (child => Len(more) = 1) /\ (~child => Len(more) = 0)
       /\ IsSeq(lists) /\ (child /\ caching => Len(lists) = 1) /\ (~(child /\ caching) => Len(lists) = 0)
       /\ \A i \in 1..Len(lists) : child /\ caching /\ lists[i] = records
  <2>0. 1..0 = {}
    BY SMT
  <2>1. CASE child /\ caching
    <3>1. more = <<SubtreeManifest>> /\ lists = <<records>>
      BY <2>1
    <3>2. \A i \in 1..1 : i = 1
      BY SMT
    <3> HIDE DEF more, lists, child
    <3> QED
      BY <2>1, <3>1, <3>2, SeqOne
  <2>2. CASE child /\ ~caching
    <3>1. more = <<SubtreeManifest>> /\ lists = << >>
      BY <2>2
    <3> HIDE DEF more, lists, child
    <3> QED
      BY <2>0, <2>2, <3>1, SeqOne, SeqEmpty
  <2>3. CASE ~child
    <3>1. more = << >> /\ lists = << >>
      BY <2>3
    <3> HIDE DEF more, lists, child
    <3> QED
      BY <2>0, <2>3, <3>1, SeqEmpty
  <2> QED
    BY <2>1, <2>2, <2>3
<1> HIDE DEF more, lists
<1>17. IsSeq(subtreeManifests') /\ Len(subtreeManifests') = frame.manifestMark + Len(more)
  <2>1. FoldedOK(subtreeManifests', subtreeManifests, frame.manifestMark, more)
    BY <1>3, <1>7, <1>15, <1>16, BeforeIs
  <2> QED
    BY <2>1 DEF FoldedOK
<1>18. /\ IsSeq(subtreeDebugRecords')
       /\ Len(subtreeDebugRecords') = frame.recordMark + Len(lists) /\ Len(subtreeDebugRecords') \in Nat
       /\ \A i \in DOMAIN subtreeDebugRecords' :
            \/ i \in DOMAIN subtreeDebugRecords /\ subtreeDebugRecords'[i] = subtreeDebugRecords[i]
            \/ caching /\ subtreeDebugRecords'[i] = records
  <2>1. /\ IsSeq(subtreeDebugRecords')
        /\ Len(subtreeDebugRecords') = frame.recordMark + Len(lists)
        /\ \A i \in 1..(frame.recordMark + Len(lists)) :
             \/ i \in 1..Len(subtreeDebugRecords) /\ subtreeDebugRecords'[i] = subtreeDebugRecords[i]
             \/ \E j \in 1..Len(lists) : subtreeDebugRecords'[i] = lists[j]
    <3>1. FoldedOK(subtreeDebugRecords', subtreeDebugRecords, frame.recordMark, lists)
      BY <1>3, <1>7, <1>15, <1>16, BeforeIs
    <3> QED
      BY <3>1 DEF FoldedOK
  <2>2. DOMAIN subtreeDebugRecords' = 1..(frame.recordMark + Len(lists)) /\ Len(subtreeDebugRecords') \in Nat
    BY <2>1, SeqFacts
  <2> QED
    BY <1>16, <2>1, <2>2, Lengths
<1>19. Settings'
  BY <1>1 DEF IInv, Settings
<1>20. Documents'
  BY <1>1 DEF IInv, Documents
<1>21. Stored'
  <2>1. CASE child /\ caching
    <3>1. EntryOK(entry)
      <4>1. /\ ImageOK(entry) /\ RecordsOK(entry.records) /\ TreeOK(entry.instances)
        <5>1. /\ entry.cells = img.cells /\ entry.sites = img.sites /\ entry.records = records
              /\ entry.instances = SubtreeInstances
          OBVIOUS
        <5> HIDE DEF entry
        <5> QED
          BY <1>2, <1>11, <1>12, <5>1, SubtreeInstancesIs DEF ImageOK
      <4>2. \A i \in DOMAIN entry.sites : \E j \in DOMAIN entry.records : entry.records[j].orig = entry.sites[i].orig
        BY <1>12
      <4> QED
        BY <4>1, <4>2 DEF EntryOK
    <3>2. ~frame.key.debug => entry.sites = << >>
      <4>1. frame.key.debug = program.debug
        BY <1>8 DEF FrameOK
      <4> QED
        BY <1>11, <4>1
    <3>3. cache' = [k \in DOMAIN cache \cup {frame.key} |-> IF k = frame.key THEN entry ELSE cache[k]]
      BY <1>4, <2>1
    <3>4. DOMAIN cache' = DOMAIN cache \cup {frame.key} /\ cache'[frame.key] = entry
          /\ \A k \in DOMAIN cache : k # frame.key => cache'[k] = cache[k]
      <4> HIDE DEF entry
      <4> QED
        BY <3>3
    <3> HIDE DEF entry
    <3>5. \A k \in DOMAIN cache' : EntryOK(cache'[k]) /\ (~k.debug => cache'[k].sites = << >>)
      BY <3>1, <3>2, <3>4 DEF IInv, Stored
    <3> QED
      BY <3>5 DEF Stored
  <2>2. CASE ~(child /\ caching)
    BY <1>4, <2>2 DEF IInv, Stored
  <2> QED
    BY <2>1, <2>2
<1>22. Lists'
  <2>1. \A i \in DOMAIN subtreeDebugRecords' : RecordsOK(subtreeDebugRecords'[i])
    BY <1>12, <1>18 DEF IInv, Lists
  <2> QED
    BY <1>3, <1>10, <1>13, <1>14, <1>17, <1>18, <2>1 DEF Lists
<1>23. CallOK'
  BY <1>1, <1>2 DEF CallOK
<1>24. Undebugged'
  <2>1. ASSUME ~program.debug
        PROVE  /\ \A i \in DOMAIN childImages' : childImages'[i].sites = << >>
               /\ \A i \in DOMAIN subtreeDebugRecords' : subtreeDebugRecords'[i] = << >>
    <3>1. \A i \in DOMAIN childImages : childImages[i].sites = << >>
      BY <1>2, <2>1 DEF IInv, Undebugged
    <3>2. \A i \in DOMAIN subtreeDebugRecords' : subtreeDebugRecords'[i] = << >>
      BY <1>2, <1>12, <1>18, <2>1 DEF IInv, Undebugged
    <3> QED
      BY <1>11, <1>13, <2>1, <3>1, <3>2
  <2>2. ASSUME ~caching PROVE subtreeDebugRecords' = << >>
    <3>1. Len(subtreeDebugRecords) = 0
      BY <2>2, SeqEmpty DEF IInv, Undebugged
    <3>2. frame.recordMark = 0 /\ Len(lists) = 0
      BY <1>15, <1>16, <2>2, <3>1, SMT
    <3> QED
      BY <1>18, <3>2, SeqNone
  <2> QED
    BY <1>1, <2>1, <2>2 DEF Undebugged
<1> DEFINE a == Len(indexMap')
           b == Len(subtreeDebugRecords')
           c == Len(instances)
<1>25. /\ IsSeq(below) /\ Len(below) = n - 1 /\ DOMAIN below = 1..(n - 1)
       /\ \A i \in 1..(n - 1) : below[i] = stack[i] /\ i \in 1..n /\ i < n /\ i + 1 \in 1..n
  <2>1. n - 1 \in 0..n /\ n - 1 \in Nat /\ \A i \in 1..(n - 1) : i \in 1..n /\ i < n /\ i + 1 \in 1..n
    BY <1>7, SMT
  <2>2. /\ IsSeq(SubSeq(stack, 1, n - 1)) /\ Len(SubSeq(stack, 1, n - 1)) = n - 1
        /\ \A i \in 1..(n - 1) : SubSeq(stack, 1, n - 1)[i] = stack[i]
    <3> DEFINE k == n - 1
    <3> HIDE DEF k
    <3>1. k \in 0..Len(stack)
      BY <2>1 DEF k
    <3>2. /\ IsSeq(SubSeq(stack, 1, k)) /\ Len(SubSeq(stack, 1, k)) = k
          /\ \A i \in 1..k : SubSeq(stack, 1, k)[i] = stack[i]
      BY <1>7, <3>1, SeqPrefix
    <3> QED
      BY <3>2 DEF k
  <2>3. below = SubSeq(stack, 1, n - 1)
    BY DEF Front
  <2> HIDE DEF below
  <2> QED
    BY <2>1, <2>2, <2>3, SeqFacts
<1> HIDE DEF below
<1>26. /\ a \in Nat /\ b \in Nat /\ c \in Nat /\ a \in 1..a /\ Len(indexMap) <= a
       /\ Len(instances') = c /\ c <= c
  <2>1. \A x \in Nat : x + 1 \in Nat /\ x + 1 \in 1..(x + 1) /\ x <= x + 1 /\ x <= x
    BY SMT
  <2> QED
    BY <1>7, <1>13, <1>14, <1>18, <2>1
<1> HIDE DEF b, c
<1>27. ASSUME NEW i \in 1..(n - 1)
       PROVE  stack[i].recordMark <= frame.recordMark
  <2> DEFINE Bad == {j \in 1..(n - 1) : ~(stack[j].recordMark <= frame.recordMark)}
             D == {n - j : j \in Bad}
  <2> SUFFICES ASSUME Bad # {} PROVE FALSE
    OBVIOUS
  <2>0. \A j \in 1..(n - 1) : n - j \in Nat
    BY <1>7, SMT
  <2>1. D \in SUBSET Nat /\ D # {}
    BY <2>0
  <2>2. PICK d \in D : \A e \in D : d <= e
    BY <2>1, Least
  <2>3. PICK j \in Bad : d = n - j
    BY <2>2
  <2>4. j \in 1..n /\ j + 1 \in 1..n /\ stack[j].recordMark <= stack[j + 1].recordMark
    BY <1>7, <1>25, <2>3 DEF IInv, Marks, MarksOK
  <2>5. j + 1 \notin Bad
    <3>1. ~(n - j <= n - (j + 1))
      BY <1>7, <2>3, SMT
    <3>2. j + 1 \in Bad => n - (j + 1) \in D
      OBVIOUS
    <3> QED
      BY <2>2, <2>3, <3>1, <3>2
  <2>6. stack[j + 1].recordMark <= frame.recordMark
    <3>1. CASE j + 1 = n
      BY <1>7, <1>15, <3>1, SMT
    <3>2. CASE j + 1 # n
      <4>1. j + 1 \in 1..(n - 1)
        <5>1. n \in Nat /\ j + 1 \in 1..n /\ j + 1 # n
          BY <1>7, <2>4, <3>2
        <5> DEFINE k == j + 1
        <5>2. k \in 1..n /\ k # n
          BY <5>1
        <5> HIDE DEF k, n, Bad
        <5>3. k \in 1..(n - 1)
          BY <5>1, <5>2, SMT
        <5> QED
          BY <5>3 DEF k
      <4> QED
        BY <2>5, <4>1
    <3> QED
      BY <3>1, <3>2
  <2>7. stack[j].recordMark \in Nat /\ stack[j + 1].recordMark \in Nat /\ frame.recordMark \in Nat
    BY <1>15, <2>4, FrameNumbers
  <2> DEFINE x == stack[j].recordMark
             y == stack[j + 1].recordMark
             z == frame.recordMark
  <2>8. x <= z
    <3>1. x \in Nat /\ y \in Nat /\ z \in Nat /\ x <= y /\ y <= z
      BY <2>4, <2>6, <2>7
    <3> HIDE DEF x, y, z
    <3> QED
      BY <3>1, SMT
  <2> QED
    BY <2>3, <2>8
<1>28. FramesOK(below, program.debug, a, b, c)
  <2>1. ASSUME NEW i \in 1..(n - 1) PROVE FrameOK(below[i], program.debug, a, b, c)
    <3>1. FrameOK(stack[i], program.debug, Len(indexMap), Len(subtreeDebugRecords), c)
      BY <1>7, <1>25 DEF IInv, Frames, c
    <3>2. FrameOK(stack[i], program.debug, a, Len(subtreeDebugRecords), c)
      <4>1. Len(subtreeDebugRecords) <= Len(subtreeDebugRecords)
        BY <1>7, SMT
      <4> HIDE DEF a
      <4> QED
        BY <1>7, <1>26, <3>1, <4>1, FrameGrows
    <3>3. stack[i].recordMark \in 0..b
      <4> DEFINE x == stack[i].recordMark
                 y == frame.recordMark
                 l == Len(lists)
      <4>1. x \in Nat /\ y \in Nat /\ x <= y
        BY <1>15, <1>25, <1>27, FrameNumbers
      <4>2. b = y + l /\ l \in Nat
        BY <1>16, <1>18, SeqFacts DEF b
      <4> HIDE DEF x, y, l
      <4>3. x \in 0..b
        BY <4>1, <4>2, SMT
      <4> QED
        BY <4>3 DEF x
    <3>4. FrameOK(stack[i], program.debug, a, b, c)
      <4> HIDE DEF a
      <4> QED
        BY <3>2, <3>3, Zenon DEF FrameOK
    <3> QED
      BY <1>25, <3>4
  <2> QED
    BY <1>25, <2>1 DEF FramesOK
<1>29. CASE child
  <2>1. below # << >>
    <3>1. n - 1 # 0
      BY <1>7, <1>29, SMT
    <3> QED
      BY <1>25, <3>1, SeqEmpty
  <2>2. stack' = Noted(below, a)
    BY <1>5, <2>1
  <2>3. FramesOK(stack', program.debug, a, b, c) /\ OneMore(stack', below)
    <3> HIDE DEF a
    <3> QED
      BY <1>25, <1>26, <1>28, <2>1, <2>2, ReturnedIs
  <2>4. /\ stack' # << >> /\ IsSeq(stack') /\ DOMAIN stack' = 1..(n - 1) /\ Len(stack') = n - 1
        /\ \A i \in 1..(n - 1) : stack'[i].inst = stack[i].inst /\ stack'[i].instanceMark = stack[i].instanceMark
    <3>1. /\ IsSeq(stack') /\ DOMAIN stack' = 1..(n - 1) /\ Len(stack') = n - 1
      BY <1>25, <2>3 DEF OneMore
    <3>2. n - 1 # 0
      BY <1>7, <1>29, SMT
    <3> QED
      BY <1>25, <2>3, <3>1, <3>2, SeqEmpty DEF OneMore
  <2>5. Frames'
    <3>1. Len(stack') <= OBJ_STACK_LIMIT + 1
      <4>1. n <= OBJ_STACK_LIMIT + 1
        BY DEF IInv, Frames
      <4> QED
        BY <1>7, <2>4, <4>1, CompilerAssumptions, SMT
    <3> QED
      BY <1>1, <1>26, <2>3, <2>4, <3>1 DEF Frames, FramesOK, b
  <2>6. Nested'
    <3>1. \A i, j \in 1..(n - 1) : i < j => stack[i].instanceMark < stack[j].inst
      BY <1>7, <1>25 DEF IInv, Nested
    <3>2. ASSUME NEW i \in 1..(n - 1), NEW k \in DOMAIN instances, k > stack[i].instanceMark
          PROVE  instances'[k].parent = stack[i].inst \/ instances'[k].parent > stack[i].instanceMark
      BY <1>7, <1>14, <1>25, <3>2 DEF IInv, Nested
    <3> QED
      BY <1>14, <2>4, <3>1, <3>2 DEF Nested
  <2>7. Marks'
    <3> DEFINE d == caching /\ program.debug
               m == frame.manifestMark
               l == frame.recordMark
    <3>1. MarksOK(stack, Len(subtreeManifests), Len(subtreeDebugRecords), d)
      BY DEF IInv, Marks
    <3>2. MarksOK(below, m, l, d)
      <4>1. 1 \in 1..(n - 1) /\ n - 1 \in 1..(n - 1) /\ (n - 1) + 1 = n
        BY <1>7, <1>29, SMT
      <4>2. stack # << >>
        BY <1>2
      <4>3. below[1] = stack[1] /\ below[n - 1] = stack[n - 1] /\ n - 1 \in 1..n
        BY <1>25, <4>1
      <4>4. m = below[n - 1].manifestMark + Len(below[n - 1].logical)
        BY <1>7, <3>1, <4>1, <4>3 DEF MarksOK
      <4>5. d => l = below[n - 1].recordMark + Len(below[n - 1].logical)
        BY <1>7, <3>1, <4>1, <4>3 DEF MarksOK
      <4>6. below[1].manifestMark = 0 /\ below[1].recordMark = 0
        BY <3>1, <4>2, <4>3 DEF MarksOK
      <4>7. ASSUME NEW i \in 1..(n - 1), i + 1 \in 1..(n - 1)
            PROVE  /\ below[i + 1].manifestMark = below[i].manifestMark + Len(below[i].logical)
                   /\ below[i].recordMark <= below[i + 1].recordMark
                   /\ d => below[i + 1].recordMark = below[i].recordMark + Len(below[i].logical)
        <5>1. below[i] = stack[i] /\ below[i + 1] = stack[i + 1] /\ i \in 1..n /\ i + 1 \in 1..n
          BY <1>25, <4>7
        <5> HIDE DEF d
        <5> QED
          BY <1>7, <3>1, <5>1 DEF MarksOK
      <4> HIDE DEF m, l, d
      <4> QED
        BY <1>25, <4>4, <4>5, <4>6, <4>7 DEF MarksOK
    <3>3. d => b = l + 1
      BY <1>16, <1>18, <1>29 DEF b
    <3>4. MarksOK(stack', m + 1, b, d)
      <4>1. m \in Nat /\ l \in Nat
        BY <1>15
      <4> HIDE DEF m, l, d, a
      <4> QED
        BY <1>25, <1>26, <1>28, <2>1, <2>2, <3>2, <3>3, <4>1, ReturnedMarks
    <3>5. Len(subtreeManifests') = m + 1
      BY <1>16, <1>17, <1>29
    <3> QED
      BY <1>1, <2>4, <3>4, <3>5 DEF Marks, b
  <2> QED
    BY <1>19, <1>20, <1>21, <1>22, <1>23, <1>24, <2>5, <2>6, <2>7 DEF IInv
<1>30. CASE ~child
  <2>1. n = 1
    BY <1>7, <1>30, SMT
  <2>2. below = << >>
    <3>1. n - 1 = 0
      BY <2>1, SMT
    <3> QED
      BY <1>25, <3>1, SeqNone
  <2>3. stack' = << >>
    BY <1>5, <2>2
  <2>4. stack[1] = frame /\ frame.manifestMark = 0 /\ frame.recordMark = 0
    BY <1>2, <1>7, <2>1 DEF IInv, Marks, MarksOK
  <2>5. subtreeManifests' = << >> /\ subtreeDebugRecords' = << >>
    <3>1. Len(more) = 0 /\ Len(lists) = 0
      BY <1>16, <1>30
    <3> QED
      BY <1>17, <1>18, <2>4, <3>1, SeqNone
  <2>6. Frames' /\ Nested' /\ Marks'
    <3>1. Frames'
      <4>1. 0 <= OBJ_STACK_LIMIT + 1
        BY CompilerAssumptions, SMT
      <4> QED
        BY <2>3, <4>1, SeqEmpty, Zenon DEF Frames
    <3>2. Nested'
      BY <2>3, SeqEmpty, Zenon DEF Nested
    <3>3. Marks'
      BY <2>3, <2>5, SeqEmpty, Zenon DEF Marks, MarksOK
    <3> QED
      BY <3>1, <3>2, <3>3
  <2> QED
    BY <1>19, <1>20, <1>21, <1>22, <1>23, <1>24, <2>6 DEF IInv
<1> QED
  BY <1>29, <1>30

-----------------------------------------------------------------------------
(* The theorems.                                                           *)

(* Every step keeps the invariant.                                         *)
LEMMA NextIInv == IInv /\ [Next]_vars => IInv'
<1> SUFFICES ASSUME IInv, [Next]_vars PROVE IInv'
  OBVIOUS
<1>1. CASE UNCHANGED vars
  <2>1. /\ disk' = disk /\ cache' = cache /\ program' = program /\ caching' = caching
        /\ builds' = builds /\ edits' = edits /\ call' = call /\ stack' = stack /\ docs' = docs
        /\ debugRecords' = debugRecords /\ childImages' = childImages /\ indexMap' = indexMap
        /\ instances' = instances /\ subtreeManifests' = subtreeManifests
        /\ subtreeDebugRecords' = subtreeDebugRecords
    BY <1>1 DEF vars, build
  <2>2. Settings' /\ Documents' /\ Stored'
    BY <2>1 DEF IInv, Settings, Documents, Stored
  <2>3. Lists' /\ Frames' /\ CallOK' /\ Nested'
    BY <2>1 DEF IInv, Lists, Frames, CallOK, Nested
  <2>4. Marks' /\ Undebugged'
    BY <2>1 DEF IInv, Marks, Undebugged
  <2> QED
    BY <2>2, <2>3, <2>4 DEF IInv
<1>2. CASE \E t \in Top, d \in Debug : Begin(t, d)
  BY <1>2, BeginIs
<1>3. CASE NestingExceeded
  BY <1>3, StopIs DEF NestingExceeded
<1>4. CASE Enter
  BY <1>4, EnterIs
<1>5. CASE Hit
  BY <1>5, HitIs
<1>6. CASE NextChild
  BY <1>6, NextChildIs
<1>7. CASE RejectChild
  BY <1>7, StopIs DEF RejectChild
<1>8. CASE Finish
  BY <1>8, FinishIs
<1>9. CASE BuildCached
  BY <1>9, BuildCachedIs
<1>10. CASE EndBuild
  BY <1>10, EndBuildIs
<1>11. CASE \E f \in File : Edit(f)
  BY <1>11, EditIs
<1> QED
  BY <1>1, <1>2, <1>3, <1>4, <1>5, <1>6, <1>7, <1>8, <1>9, <1>10, <1>11 DEF Next

(* So it holds in every state of every behaviour.                          *)
LEMMA Invariant == Spec => []IInv
  BY InitIInv, NextIInv, PTL DEF Spec

(* Whatever the objects declare and however the builds go, every index of  *)
(* the compile leads to what it is an index of: the logical indices to     *)
(* images, the object called for to its document, every declaration to an  *)
(* earlier one.                                                            *)
THEOREM TypeCorrect == Spec => []TypeOK
<1>1. IInv => TypeOK
  BY DEF IInv, Settings, Documents, Lists, Frames, CallOK, TreeOK, TypeOK
<1> QED
  BY <1>1, Invariant, PTL

(* A subtree's contributions are folded in once, by the object that        *)
(* declares it, and none is left when the build is over.                   *)
THEOREM AccumulatorsBalanced == Spec => []Balanced
<1>1. IInv => Balanced
  <2> SUFFICES ASSUME IInv PROVE Balanced
    OBVIOUS
  <2>1. ASSUME stack # << >>
        PROVE  /\ Len(subtreeManifests) = frame.manifestMark + Len(frame.logical)
               /\ caching /\ program.debug =>
                    Len(subtreeDebugRecords) = frame.recordMark + Len(frame.logical)
    BY <2>1, FrameIs DEF IInv, Marks, MarksOK
  <2>2. ASSUME ~(caching /\ program # None /\ program.debug)
        PROVE  \A h \in Range(subtreeDebugRecords) : h = << >>
    <3>1. CASE ~caching
      BY <3>1, SeqEmpty DEF IInv, Undebugged, Range
    <3>2. CASE program = None
      BY <3>2, SeqEmpty DEF IInv, CallOK, Marks, Range
    <3>3. CASE program # None /\ ~program.debug
      BY <3>3 DEF IInv, Undebugged, Range
    <3> QED
      BY <2>2, <3>1, <3>2, <3>3
  <2>3. ASSUME Finished, error = "" PROVE subtreeManifests = << >> /\ subtreeDebugRecords = << >>
    BY <2>3 DEF Finished, IInv, Marks
  <2> QED
    BY <2>1, <2>2, <2>3 DEF Balanced
<1> QED
  BY <1>1, Invariant, PTL

(* No hit stops half-way: whatever an entry was stored by, each of its BRK *)
(* sites names a record that the entry carries.                            *)
THEOREM SitesRecorded == Spec => []SitesHaveRecords
<1>1. IInv => SitesHaveRecords
  <2> SUFFICES ASSUME IInv, NEW k \in DOMAIN cache, NEW s \in Range(cache[k].sites)
               PROVE  \E r \in Range(cache[k].records) : r.orig = s.orig
    BY DEF SitesHaveRecords
  <2>1. PICK i \in DOMAIN cache[k].sites : s = cache[k].sites[i]
    BY DEF Range
  <2>2. PICK j \in DOMAIN cache[k].records : cache[k].records[j].orig = cache[k].sites[i].orig
    BY DEF IInv, Stored, EntryOK
  <2>3. cache[k].records[j] \in Range(cache[k].records)
    BY DEF Range
  <2> QED
    BY <2>1, <2>2, <2>3
<1> QED
  BY <1>1, Invariant, PTL

=============================================================================
