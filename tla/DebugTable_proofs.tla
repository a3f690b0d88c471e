------------------------- MODULE DebugTable_proofs --------------------------
(***************************************************************************)
(* Proofs about the table of DEBUG records, for every set of records and   *)
(* every number of entries.                                                *)
(***************************************************************************)
EXTENDS DebugTable, TLAPS

(* The inductive invariant.  CodesResolve alone is inductive only with the *)
(* type of the table; OneCodePerRecord needs that no record is there twice.*)
IInv == TypeOK /\ NoDuplicates /\ CodesResolve

-----------------------------------------------------------------------------

(* A record that is in the table is found at a position that holds it.     *)
LEMMA IndexOfHolds ==
  ASSUME NEW t, NEW r, Holds(t, r)
  PROVE  IndexOf(t, r) \in 1..Len(t) /\ t[IndexOf(t, r)] = r
BY DEF Holds, IndexOf

(* Entering a record yields a sequence that still has every old entry in   *)
(* its place, holds the record at the code returned, and is no longer than *)
(* the table may be.                                                       *)
LEMMA EnteredKeeps ==
  ASSUME MaxEntries \in Nat, NEW t \in Seq(Record), NEW r \in Record,
         Len(t) <= MaxEntries, Holds(t, r) \/ Len(t) < MaxEntries
  PROVE  /\ Entered(t, r) \in Seq(Record)
         /\ Len(t) <= Len(Entered(t, r)) /\ Len(Entered(t, r)) <= MaxEntries
         /\ \A i \in 1..Len(t) : Entered(t, r)[i] = t[i]
         /\ CodeOf(t, r) \in 1..Len(Entered(t, r))
         /\ Entered(t, r)[CodeOf(t, r)] = r
<1>1. CASE Holds(t, r)
  BY <1>1, IndexOfHolds DEF Entered, CodeOf
<1>2. CASE ~Holds(t, r)
  <2>1. Len(t) < MaxEntries
    BY <1>2
  <2>2. Entered(t, r) = Append(t, r) /\ CodeOf(t, r) = Len(t) + 1
    BY <1>2 DEF Entered, CodeOf
  <2> QED
    BY <2>1, <2>2
<1> QED
  BY <1>1, <1>2

(* Entering a record into a table without duplicates leaves none.          *)
LEMMA EnteredDistinct ==
  ASSUME NEW t \in Seq(Record), NEW r \in Record,
         \A i, j \in 1..Len(t) : t[i] = t[j] => i = j
  PROVE  \A i, j \in 1..Len(Entered(t, r)) :
            Entered(t, r)[i] = Entered(t, r)[j] => i = j
<1>1. CASE Holds(t, r)
  BY <1>1 DEF Entered
<1>2. CASE ~Holds(t, r)
  <2>1. Entered(t, r) = Append(t, r)
    BY <1>2 DEF Entered
  <2>2. \A i \in 1..Len(t) : t[i] # r
    BY <1>2 DEF Holds
  <2> QED
    BY <2>1, <2>2
<1> QED
  BY <1>1, <1>2

-----------------------------------------------------------------------------

(* The inductive invariant holds before anything was entered.              *)
LEMMA InitIInv == ASSUME MaxEntries \in Nat PROVE Init => IInv
<1> SUFFICES ASSUME Init
             PROVE  IInv
  OBVIOUS
<1>1. table = << >> /\ issued = {} /\ failed = FALSE
  BY DEF Init
<1>2. TypeOK
  <2>1. table \in Seq(Record) /\ Len(table) = 0
    BY <1>1
  <2>2. Len(table) <= MaxEntries
    BY <2>1
  <2>3. issued \subseteq Record \X (1..MaxEntries)
    BY <1>1
  <2>4. failed \in BOOLEAN
    BY <1>1
  <2> QED
    BY <2>1, <2>2, <2>3, <2>4 DEF TypeOK
<1>3. NoDuplicates
  BY <1>1 DEF NoDuplicates
<1>4. CodesResolve
  BY <1>1 DEF CodesResolve
<1> QED
  BY <1>2, <1>3, <1>4 DEF IInv

(* Entering a record keeps the invariant and moves no entry.               *)
LEMMA EnterIInv ==
  ASSUME MaxEntries \in Nat, IInv, NEW r \in Record, Enter(r)
  PROVE  /\ IInv'
         /\ Len(table) <= Len(table')
         /\ \A i \in 1..Len(table) : table'[i] = table[i]
<1>1. table \in Seq(Record) /\ Len(table) <= MaxEntries
  BY DEF IInv, TypeOK
<1>2. table' = Entered(table, r) /\ (Holds(table, r) \/ Len(table) < MaxEntries)
  BY DEF Enter
<1>3. /\ table' \in Seq(Record)
      /\ Len(table) <= Len(table') /\ Len(table') <= MaxEntries
      /\ \A i \in 1..Len(table) : table'[i] = table[i]
      /\ CodeOf(table, r) \in 1..Len(table')
      /\ table'[CodeOf(table, r)] = r
  BY <1>1, <1>2, EnteredKeeps
<1>4. TypeOK'
  <2>1. issued' \subseteq Record \X (1..MaxEntries)
    <3>1. issued' = issued \cup {<<r, CodeOf(table, r)>>}
      BY DEF Enter
    <3>2. CodeOf(table, r) \in 1..MaxEntries
      BY <1>3
    <3> QED
      BY <3>1, <3>2 DEF IInv, TypeOK
  <2>2. failed' \in BOOLEAN
    BY DEF Enter, IInv, TypeOK
  <2> QED
    BY <1>3, <2>1, <2>2 DEF TypeOK
<1>5. NoDuplicates'
  BY <1>1, <1>2, EnteredDistinct DEF IInv, NoDuplicates
<1>6. CodesResolve'
  <2> SUFFICES ASSUME NEW p \in issued'
               PROVE  p[2] <= Len(table') /\ table'[p[2]] = p[1]
    BY DEF CodesResolve
  <2>1. CASE p \in issued
    <3>1. p[2] \in 1..Len(table) /\ table[p[2]] = p[1]
      BY <2>1, <1>1 DEF IInv, TypeOK, CodesResolve
    <3> QED
      BY <3>1, <1>1, <1>3
  <2>2. CASE p = <<r, CodeOf(table, r)>>
    BY <2>2, <1>3
  <2> QED
    BY <2>1, <2>2 DEF Enter
<1> QED
  BY <1>3, <1>4, <1>5, <1>6 DEF IInv

(* Entering a record and hitting a limit both keep the invariant.          *)
LEMMA NextIInv == ASSUME MaxEntries \in Nat PROVE IInv /\ [Next]_vars => IInv'
<1> SUFFICES ASSUME IInv, [Next]_vars
             PROVE  IInv'
  OBVIOUS
<1>1. ASSUME NEW r \in Record, Enter(r)
      PROVE  IInv'
  BY <1>1, EnterIInv
<1>2. CASE Reject
  BY <1>2 DEF Reject, IInv, TypeOK, NoDuplicates, CodesResolve
<1>3. CASE UNCHANGED vars
  BY <1>3 DEF vars, IInv, TypeOK, NoDuplicates, CodesResolve
<1> QED
  BY <1>1, <1>2, <1>3 DEF Next

(* The inductive invariant holds throughout: the type invariant, no record *)
(* twice in the table, every issued code resolving.                        *)
THEOREM Invariance == ASSUME MaxEntries \in Nat PROVE Spec => []IInv
BY InitIInv, NextIInv, PTL DEF Spec

(* Type correctness: the table never outgrows its entries and every code   *)
(* fits the byte patchBrkSite and enterDebug write it to.                  *)
THEOREM TypeCorrect == ASSUME MaxEntries \in Nat PROVE Spec => []TypeOK
<1>1. IInv => TypeOK
  BY DEF IInv
<1> QED
  BY <1>1, Invariance, PTL

(* No record is in the table twice (injectRecord's walk).                  *)
THEOREM RecordsDistinct == ASSUME MaxEntries \in Nat PROVE Spec => []NoDuplicates
<1>1. IInv => NoDuplicates
  BY DEF IInv
<1> QED
  BY <1>1, Invariance, PTL

(* Every BRK code handed out selects its record from then on, whatever     *)
(* other objects enter and whichever limit stops the compile.              *)
THEOREM CodesAlwaysResolve == ASSUME MaxEntries \in Nat PROVE Spec => []CodesResolve
<1>1. IInv => CodesResolve
  BY DEF IInv
<1> QED
  BY <1>1, Invariance, PTL

(* A record has one code for the whole compile: the replay of a cached     *)
(* object and the compile of a fresh one agree on it.                      *)
THEOREM OneCode == ASSUME MaxEntries \in Nat PROVE Spec => []OneCodePerRecord
<1>1. IInv => OneCodePerRecord
  <2> SUFFICES ASSUME IInv, NEW p \in issued, NEW q \in issued, p[1] = q[1]
               PROVE  p[2] = q[2]
    BY DEF OneCodePerRecord
  <2>1. p[2] \in 1..Len(table) /\ q[2] \in 1..Len(table)
    BY DEF IInv, TypeOK, CodesResolve
  <2>2. table[p[2]] = table[q[2]]
    BY DEF IInv, CodesResolve
  <2> QED
    BY <2>1, <2>2 DEF IInv, NoDuplicates
<1> QED
  BY <1>1, Invariance, PTL

(* No step moves or replaces an entry of the table.                        *)
THEOREM EntriesStay == ASSUME MaxEntries \in Nat PROVE Spec => EntriesNeverMove
<1> DEFINE Keeps == /\ Len(table) <= Len(table')
                    /\ \A i \in 1..Len(table) : table'[i] = table[i]
<1>1. IInv /\ [Next]_vars => [Keeps]_vars
  <2> SUFFICES ASSUME IInv, Next
               PROVE  Keeps
    OBVIOUS
  <2>1. ASSUME NEW r \in Record, Enter(r)
        PROVE  Keeps
    BY <2>1, EnterIInv
  <2>2. CASE Reject
    BY <2>2 DEF Reject, IInv, TypeOK
  <2> QED
    BY <2>1, <2>2 DEF Next
<1> QED
  BY <1>1, Invariance, PTL DEF Spec, EntriesNeverMove

=============================================================================
