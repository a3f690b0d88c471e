-------------------------- MODULE CacheStore_proofs -------------------------
(***************************************************************************)
(* Theorems about CacheStore, for any number of processes, input files,    *)
(* versions, builds and edits:                                             *)
(*   - its types;                                                          *)
(*   - whatever is interrupted and however many processes run, a .bin has  *)
(*     its companions, as long as nobody clears the directory meanwhile;   *)
(*   - builds that run in turn, while the inputs hold still, and that are  *)
(*     killed at most between two file operations and then with inputs     *)
(*     that are never edited, take only entries that are up to date and    *)
(*     are the builds of UncachedBuilds; and they take only what fits      *)
(*     together and never miss a sidecar, unless a clear was killed and    *)
(*     nothing has made good for it.                                       *)
(***************************************************************************)
EXTENDS CacheStore, TLAPS

(* The files of WriteOrder, one by one.                                    *)
LEMMA OrderOfWrites ==
  /\ Len(WriteOrder) = 5
  /\ \A i \in 1..5 : WriteOrder[i] \in Suffix
  /\ \A s \in Suffix : \E i \in 1..5 : WriteOrder[i] = s
  /\ \A i, j \in 1..5 : WriteOrder[i] = WriteOrder[j] => i = j
  /\ WriteOrder[5] = "bin"
  BY SMT DEF WriteOrder, Suffix

(* While a file is being written there is one left to write.               *)
WritesInOrder ==
  \A p \in Proc : opened[p] => pc[p] = "store" /\ written[p] < 5

(* A build has a number, and one that stores knows what it stores.         *)
StoresWhatItKnows ==
  \A p \in Proc :
    /\ pc[p] # "idle" => build[p] \in 1..MaxBuilds
    /\ pc[p] \in {"hash", "store", "built"} => src[p] \in Inputs
    /\ pc[p] = "store" => dep[p] \in Inputs
    /\ pc[p] \notin {"store", "built"} => written[p] = 0

TypeInv == TypeOK /\ WritesInOrder /\ StoresWhatItKnows

(* The inductive type invariant holds at the start.                        *)
LEMMA InitTypeInv == Init => TypeInv
<1> SUFFICES ASSUME Init PROVE TypeInv
  OBVIOUS
<1>1. "idle" \in Labels
  BY DEF Labels, Ended
<1>2. NoFiles \in [Suffix -> Payload \cup {Absent, Torn}]
  BY DEF NoFiles
<1>3. 0 \in 0..MaxBuilds /\ 0 \in 0..MaxEdits /\ 0 \in 0..Len(WriteOrder)
  BY StoreAssumptions, OrderOfWrites, SMT
<1>4. TypeOK
  BY <1>1, <1>2, <1>3 DEF Init, TypeOK
<1>5. WritesInOrder /\ StoresWhatItKnows
  BY DEF Init, WritesInOrder, StoresWhatItKnows
<1> QED
  BY <1>4, <1>5 DEF TypeInv

(* Going to a label keeps the program counters typed.                      *)
LEMMA GotoTyped ==
  ASSUME TypeOK, NEW p \in Proc, NEW l \in Labels, Goto(p, l)
  PROVE  pc' \in [Proc -> Labels]
  BY SMT DEF Goto, TypeOK

(* Taking a file of the entry keeps what was taken typed.                  *)
LEMMA TakeTyped ==
  ASSUME TypeOK, NEW p \in Proc, NEW s \in Suffix, Take(p, s)
  PROVE  got' \in [Proc -> [Suffix -> Payload \cup {Absent, Torn}]]
<1>1. got' = [got EXCEPT ![p] = [got[p] EXCEPT ![s] = entry[s]]]
  BY DEF Take, TypeOK
<1>2. entry[s] \in Payload \cup {Absent, Torn} /\ got[p] \in [Suffix -> Payload \cup {Absent, Torn}]
  BY DEF TypeOK
<1>3. [got[p] EXCEPT ![s] = entry[s]] \in [Suffix -> Payload \cup {Absent, Torn}]
  BY <1>2
<1> QED
  BY <1>1, <1>3, SMT DEF TypeOK

(* Every step keeps the types.                                             *)
LEMMA NextTypeOK == TypeInv /\ [Next]_vars => TypeOK' /\ WritesInOrder'
<1> DEFINE Goal == TypeOK /\ WritesInOrder
<1> SUFFICES ASSUME TypeInv, [Next]_vars PROVE Goal'
  OBVIOUS
<1>l. {"clear"} \cup Reading \cup Storing \cup Ended = Labels /\ {"bin", "dbg", "sym"} \subseteq Suffix
  BY DEF Labels, Suffix
<1> USE StoreAssumptions, <1>l DEF TypeInv, TypeOK, WritesInOrder
<1>1. ASSUME NEW p \in Proc, NEW clear \in BOOLEAN, Start(p, clear) PROVE Goal'
  <2>1. pc' \in [Proc -> Labels]
    BY <1>1, GotoTyped DEF Start, Reading
  <2> QED
    BY <1>1, <2>1, OrderOfWrites, SMT DEF Start, Goto, NoFiles
<1>2. ASSUME NEW p \in Proc, Validate(p) PROVE Goal'
  <2>1. pc' \in [Proc -> Labels]
    BY <1>2, GotoTyped DEF Validate, Reading, Storing
  <2> QED
    BY <1>2, <2>1, SMT DEF Validate, Goto
<1>3. ASSUME NEW p \in Proc, Get(p) PROVE Goal'
  <2>1. pc' \in [Proc -> Labels]
    BY <1>3, GotoTyped DEF Get, Reading, Storing
  <2>2. got' \in [Proc -> [Suffix -> Payload \cup {Absent, Torn}]]
    BY <1>3, TakeTyped DEF Get
  <2>3. UNCHANGED <<disk, entry, build, src, dep, written, opened, builds, edits, cut>>
    BY <1>3 DEF Get
  <2>4. WritesInOrder'
    BY <1>3, SMT DEF Get, Goto
  <2> QED
    BY <2>1, <2>2, <2>3, <2>4
<1>4. ASSUME NEW p \in Proc, NEW here \in Reading, NEW s \in Suffix,
             NEW next \in Reading, TakeSidecar(p, here, s, next)
      PROVE  Goal'
  <2>1. pc' \in [Proc -> Labels]
    BY <1>4, GotoTyped DEF TakeSidecar, Ended
  <2>2. got' \in [Proc -> [Suffix -> Payload \cup {Absent, Torn}]]
    BY <1>4, TakeTyped DEF TakeSidecar
  <2>3. UNCHANGED <<disk, entry, build, src, dep, written, opened, builds, edits, cut>>
    BY <1>4 DEF TakeSidecar
  <2>4. WritesInOrder'
    BY <1>4, SMT DEF TakeSidecar, Goto, Reading
  <2> QED
    BY <2>1, <2>2, <2>3, <2>4
<1>5. ASSUME NEW p \in Proc, GetDebugInfo(p) \/ GetLayoutPayload(p) PROVE Goal'
  <2>1. {"getDebugInfo", "getLayoutPayload", "getManifest"} \subseteq Reading
    BY DEF Reading
  <2> QED
    BY <1>4, <1>5, <2>1 DEF GetDebugInfo, GetLayoutPayload
<1>6. ASSUME NEW p \in Proc, GetManifest(p) PROVE Goal'
  <2>1. pc' \in [Proc -> Labels]
    BY <1>6, GotoTyped DEF GetManifest, Ended
  <2>2. dep' \in [Proc -> Inputs \cup {Nothing}]
    BY <1>6, SMT DEF GetManifest, Payload, Suffix
  <2> QED
    BY <1>6, <2>1, <2>2, SMT DEF GetManifest, Goto
<1>7. ASSUME NEW p \in Proc, Compile(p) \/ HashInputs(p) PROVE Goal'
  <2>1. pc' \in [Proc -> Labels]
    BY <1>7, GotoTyped DEF Compile, HashInputs, Storing
  <2>2. src' \in [Proc -> Inputs \cup {Nothing}] /\ dep' \in [Proc -> Inputs \cup {Nothing}]
    <3>1. CASE Compile(p)
      BY <3>1 DEF Compile
    <3>2. CASE HashInputs(p)
      BY <3>2 DEF HashInputs
    <3> QED
      BY <1>7, <3>1, <3>2
  <2>3. UNCHANGED <<disk, entry, build, got, written, opened, builds, edits, cut>>
    BY <1>7 DEF Compile, HashInputs
  <2>4. WritesInOrder'
    BY <1>7, SMT DEF Compile, HashInputs, Goto
  <2> QED
    BY <2>1, <2>2, <2>3, <2>4
<1>8. ASSUME NEW p \in Proc, OpenFile(p) PROVE Goal'
  BY <1>8, OrderOfWrites, SMT DEF OpenFile, NextFile
<1>9. ASSUME NEW p \in Proc, FillFile(p) PROVE Goal'
  <2>1. written'[p] \in 0..5 /\ written' \in [Proc -> 0..5]
    BY <1>9, OrderOfWrites, SMT DEF FillFile
  <2>2. entry' \in [Suffix -> Payload \cup {Absent, Torn}]
    <3> DEFINE new == [by |-> build[p],
                       of |-> IF NextFile(p) = "dep" THEN dep[p] ELSE src[p]]
    <3>1. new \in Payload
      BY <1>9, SMT DEF FillFile, Payload, StoresWhatItKnows
    <3>2. NextFile(p) \in Suffix
      <4>1. written[p] \in 0..5 /\ written[p] < 5
        BY <1>9, OrderOfWrites DEF FillFile
      <4>2. written[p] + 1 \in 1..5
        BY <4>1, SMT
      <4> QED
        BY <4>2, OrderOfWrites DEF NextFile
    <3>3. entry' = [entry EXCEPT ![NextFile(p)] = new]
      BY <1>9 DEF FillFile
    <3> HIDE DEF new
    <3> QED
      BY <3>1, <3>2, <3>3, SMT
  <2> QED
    BY <1>9, <2>1, <2>2, OrderOfWrites, SMT DEF FillFile
<1>10. ASSUME NEW p \in Proc, Stored(p) PROVE Goal'
  <2>1. pc' \in [Proc -> Labels]
    BY <1>10, GotoTyped DEF Stored, Ended
  <2> QED
    BY <1>10, <2>1, OrderOfWrites, SMT DEF Stored, Goto
<1>11. ASSUME NEW p \in Proc, Interrupt(p) PROVE Goal'
  <2>1. pc' \in [Proc -> Labels]
    BY <1>11, GotoTyped DEF Interrupt, Ended
  <2> QED
    BY <1>11, <2>1, OrderOfWrites, SMT DEF Interrupt, Goto, NoFiles
<1>12. ASSUME NEW f \in File, Edit(f) PROVE Goal'
  BY <1>12, SMT DEF Edit, Inputs
<1>13. CASE UNCHANGED vars
  BY <1>13, SMT DEF vars
<1>14. ASSUME NEW p \in Proc, NEW s \in Suffix, RemoveFile(p, s) PROVE Goal'
  BY <1>14, SMT DEF RemoveFile
<1>15. ASSUME NEW p \in Proc, Cleared(p) PROVE Goal'
  <2>1. pc' \in [Proc -> Labels]
    BY <1>15, GotoTyped DEF Cleared, Reading
  <2>2. UNCHANGED <<disk, entry, build, src, dep, got, written, opened, builds, edits>>
    BY <1>15 DEF Cleared
  <2>3. cut' \in BOOLEAN
    BY <1>15 DEF Cleared
  <2>4. WritesInOrder'
    BY <1>15, SMT DEF Cleared, Goto
  <2> QED
    BY <2>1, <2>2, <2>3, <2>4
<1> QED
  BY <1>1, <1>2, <1>3, <1>5, <1>6, <1>7, <1>8, <1>9, <1>10, <1>11, <1>12, <1>13, <1>14, <1>15
  DEF Next

(* Every step keeps what a storing build knows.                            *)
LEMMA NextKnows == TypeInv /\ [Next]_vars => StoresWhatItKnows'
<1> DEFINE Goal(q) == /\ pc[q] # "idle" => build[q] \in 1..MaxBuilds
                      /\ pc[q] \in {"hash", "store", "built"} => src[q] \in Inputs
                      /\ pc[q] = "store" => dep[q] \in Inputs
                      /\ pc[q] \notin {"store", "built"} => written[q] = 0
<1> SUFFICES ASSUME TypeInv, [Next]_vars, NEW q \in Proc PROVE Goal(q)'
  BY DEF StoresWhatItKnows
<1>a. Goal(q) /\ TypeOK
  BY DEF TypeInv, StoresWhatItKnows
<1> USE StoreAssumptions, <1>a DEF TypeOK
<1>1. ASSUME NEW p \in Proc, NEW clear \in BOOLEAN, Start(p, clear) PROVE Goal(q)'
  BY <1>1, SMT DEF Start, Goto
<1>2. ASSUME NEW p \in Proc, Validate(p) PROVE Goal(q)'
  BY <1>2, SMT DEF Validate, Goto
<1>3. ASSUME NEW p \in Proc, Get(p) PROVE Goal(q)'
  BY <1>3, SMT DEF Get, Goto
<1>4. ASSUME NEW p \in Proc, GetDebugInfo(p) \/ GetLayoutPayload(p) PROVE Goal(q)'
  BY <1>4, SMT DEF GetDebugInfo, GetLayoutPayload, TakeSidecar, Goto
<1>5. ASSUME NEW p \in Proc, GetManifest(p) PROVE Goal(q)'
  BY <1>5, SMT DEF GetManifest, Goto
<1>6. ASSUME NEW p \in Proc, Compile(p) \/ HashInputs(p) PROVE Goal(q)'
  BY <1>6, SMT DEF Compile, HashInputs, Goto
<1>7. ASSUME NEW p \in Proc, OpenFile(p) \/ FillFile(p) PROVE Goal(q)'
  BY <1>7, SMT DEF OpenFile, FillFile
<1>8. ASSUME NEW p \in Proc, Stored(p) \/ Interrupt(p) PROVE Goal(q)'
  BY <1>8, SMT DEF Stored, Interrupt, Goto
<1>9. ASSUME NEW f \in File, Edit(f) PROVE Goal(q)'
  BY <1>9, SMT DEF Edit
<1>10. CASE UNCHANGED vars
  BY <1>10, SMT DEF vars
<1>11. ASSUME NEW p \in Proc, NEW s \in Suffix, RemoveFile(p, s) PROVE Goal(q)'
  BY <1>11 DEF RemoveFile
<1>12. ASSUME NEW p \in Proc, Cleared(p) PROVE Goal(q)'
  BY <1>12, SMT DEF Cleared, Goto
<1> QED
  BY <1>1, <1>2, <1>3, <1>4, <1>5, <1>6, <1>7, <1>8, <1>9, <1>10, <1>11, <1>12 DEF Next

(* The types of CacheStore hold for every number of processes and files.   *)
THEOREM TypeCorrect == Spec => []TypeOK
<1>1. Spec => []TypeInv
  BY InitTypeInv, NextTypeOK, NextKnows, PTL DEF Spec, TypeInv
<1> QED
  BY <1>1, PTL DEF TypeInv

(***************************************************************************)
(* Companions of the binary.                                               *)
(***************************************************************************)

(* The files a storing build has written are there, and the binary with    *)
(* them only if its companions are.                                        *)
CompanionInv ==
  /\ \A p \in Proc : pc[p] # "clear"
  /\ \A p \in Proc : pc[p] = "store" =>
       \A i \in 1..written[p] : entry[WriteOrder[i]] # Absent
  /\ CompanionsThere

(* What a build writes into the entry next: FillFile's new content.        *)
LEMMA FillIsPayload ==
  ASSUME TypeInv, NEW p \in Proc, FillFile(p)
  PROVE  \E c \in Payload : entry' = [entry EXCEPT ![NextFile(p)] = c]
<1> DEFINE new == [by |-> build[p],
                   of |-> IF NextFile(p) = "dep" THEN dep[p] ELSE src[p]]
<1>1. new \in Payload
  BY SMT DEF FillFile, Payload, TypeInv, TypeOK, StoresWhatItKnows
<1>2. entry' = [entry EXCEPT ![NextFile(p)] = new]
  BY DEF FillFile
<1> QED
  BY <1>1, <1>2

(* The file a storing build writes next, while one is left.                *)
LEMMA NextIsFile ==
  ASSUME TypeInv, NEW p \in Proc, written[p] < 5
  PROVE  written[p] \in 0..4 /\ written[p] + 1 \in 1..5 /\ NextFile(p) \in Suffix
<1>1. written[p] \in 0..4 /\ written[p] + 1 \in 1..5
  BY OrderOfWrites, SMT DEF TypeInv, TypeOK
<1> QED
  BY <1>1, OrderOfWrites DEF NextFile

(* Nothing but --cache-clear takes a file away.                            *)
LEMMA FilesStay ==
  ASSUME TypeInv, [Next]_vars, \A p \in Proc : pc[p] # "clear",
         NEW s \in Suffix, entry[s] # Absent
  PROVE  entry'[s] # Absent
<1> USE DEF TypeInv, TypeOK
<1>1. ASSUME NEW p \in Proc, OpenFile(p) PROVE entry'[s] # Absent
  BY <1>1, MarkersAreNotPayloads DEF OpenFile
<1>2. ASSUME NEW p \in Proc, FillFile(p) PROVE entry'[s] # Absent
  BY <1>2, FillIsPayload, MarkersAreNotPayloads
<1>3. CASE UNCHANGED entry
  BY <1>3
<1>4. ASSUME NEW p \in Proc, NEW clear \in BOOLEAN, Start(p, clear) PROVE UNCHANGED entry
  BY <1>4 DEF Start
<1>5. ASSUME NEW p \in Proc,
             \/ Validate(p) \/ Get(p) \/ GetDebugInfo(p) \/ GetLayoutPayload(p)
             \/ GetManifest(p) \/ Compile(p) \/ HashInputs(p) \/ Stored(p) \/ Interrupt(p)
             \/ Cleared(p)
      PROVE  UNCHANGED entry
  BY <1>5 DEF Validate, Get, GetDebugInfo, GetLayoutPayload, TakeSidecar, GetManifest,
              Compile, HashInputs, Stored, Interrupt, Cleared
<1>6. ASSUME NEW f \in File, Edit(f) PROVE UNCHANGED entry
  BY <1>6 DEF Edit
<1>7. CASE UNCHANGED vars
  BY <1>7 DEF vars
<1>8. ASSUME NEW p \in Proc, NEW r \in Suffix, RemoveFile(p, r) PROVE FALSE
  BY <1>8 DEF RemoveFile
<1> QED
  BY <1>1, <1>2, <1>3, <1>4, <1>5, <1>6, <1>7, <1>8 DEF Next

(* A process clears only if it was started with --cache-clear.             *)
LEMMA NobodyClears ==
  ASSUME ~ClearAllowed, TypeInv, [Next]_vars, \A p \in Proc : pc[p] # "clear"
  PROVE  \A p \in Proc : pc'[p] # "clear"
<1> SUFFICES ASSUME NEW q \in Proc PROVE pc'[q] # "clear"
  OBVIOUS
<1> USE DEF TypeInv, TypeOK, Goto
<1>1. ASSUME NEW p \in Proc, NEW clear \in BOOLEAN, Start(p, clear) PROVE pc'[q] # "clear"
  BY <1>1 DEF Start
<1>2. ASSUME NEW p \in Proc, Validate(p) \/ Get(p) \/ GetDebugInfo(p) \/ GetLayoutPayload(p)
      PROVE  pc'[q] # "clear"
  BY <1>2 DEF Validate, Get, GetDebugInfo, GetLayoutPayload, TakeSidecar
<1>3. ASSUME NEW p \in Proc, GetManifest(p) \/ Compile(p) \/ HashInputs(p)
      PROVE  pc'[q] # "clear"
  BY <1>3 DEF GetManifest, Compile, HashInputs
<1>4. ASSUME NEW p \in Proc, OpenFile(p) \/ FillFile(p) \/ Stored(p) \/ Interrupt(p)
      PROVE  pc'[q] # "clear"
  BY <1>4 DEF OpenFile, FillFile, Stored, Interrupt
<1>5. ASSUME NEW p \in Proc, NEW s \in Suffix, RemoveFile(p, s) \/ Cleared(p) PROVE FALSE
  BY <1>5 DEF RemoveFile, Cleared
<1>6. CASE UNCHANGED vars \/ \E f \in File : Edit(f)
  BY <1>6 DEF vars, Edit
<1>7. Suffix # {}
  BY DEF Suffix
<1> QED
  BY <1>1, <1>2, <1>3, <1>4, <1>5, <1>6, <1>7 DEF Next

(* Every step keeps CompanionInv when nobody clears the directory.         *)
LEMMA NextCompanion ==
  ASSUME ~ClearAllowed, TypeInv, CompanionInv, [Next]_vars
  PROVE  CompanionInv'
<1> USE DEF CompanionInv
<1>1. ASSUME NEW q \in Proc, pc'[q] = "store", NEW i \in 1..written'[q]
      PROVE  entry'[WriteOrder[i]] # Absent
  <2>1. CASE pc[q] = "store" /\ i \in 1..written[q]
    BY <2>1, FilesStay, OrderOfWrites, SMT DEF TypeInv, TypeOK
  <2>2. ASSUME ~(pc[q] = "store" /\ i \in 1..written[q])
        PROVE  FillFile(q) /\ i = written[q] + 1
    <3>0. TypeOK
      BY DEF TypeInv
    <3>1. ASSUME NEW p \in Proc, NEW clear \in BOOLEAN, Start(p, clear) PROVE FALSE
      BY <1>1, <2>2, <3>0, <3>1, SMT DEF Start, Goto, TypeOK
    <3>2. ASSUME NEW p \in Proc, Validate(p) \/ Get(p) PROVE FALSE
      BY <1>1, <2>2, <3>0, <3>2, SMT DEF Validate, Get, Goto, TypeOK
    <3>3. ASSUME NEW p \in Proc, GetDebugInfo(p) \/ GetLayoutPayload(p) \/ GetManifest(p) PROVE FALSE
      BY <1>1, <2>2, <3>0, <3>3, SMT
      DEF GetDebugInfo, GetLayoutPayload, TakeSidecar, GetManifest, Goto, TypeOK
    <3>4. ASSUME NEW p \in Proc, Compile(p) \/ OpenFile(p) \/ Stored(p) \/ Interrupt(p) PROVE FALSE
      BY <1>1, <2>2, <3>0, <3>4, SMT DEF Compile, OpenFile, Stored, Interrupt, Goto, TypeOK
    <3>5. ASSUME NEW p \in Proc, HashInputs(p) PROVE FALSE
      <4>1. p = q /\ i \in 1..written[q]
        BY <1>1, <2>2, <3>0, <3>5 DEF HashInputs, Goto, TypeOK
      <4>2. written[p] = 0
        BY <3>5 DEF HashInputs, TypeInv, StoresWhatItKnows
      <4> QED
        BY <4>1, <4>2, SMT
    <3>6. ASSUME NEW f \in File, Edit(f) PROVE FALSE
      BY <1>1, <2>2, <3>6 DEF Edit
    <3>7. CASE UNCHANGED vars
      BY <1>1, <2>2, <3>7 DEF vars
    <3>8. ASSUME NEW p \in Proc, Cleared(p) \/ \E s \in Suffix : RemoveFile(p, s) PROVE FALSE
      BY <3>8 DEF Cleared, RemoveFile
    <3>9. ASSUME NEW p \in Proc, FillFile(p) PROVE p = q /\ i = written[q] + 1
      BY <1>1, <2>2, <3>0, <3>9, OrderOfWrites, SMT DEF FillFile, TypeOK
    <3> QED
      BY <3>1, <3>2, <3>3, <3>4, <3>5, <3>6, <3>7, <3>8, <3>9 DEF Next
  <2>3. ASSUME FillFile(q), i = written[q] + 1
        PROVE  entry'[WriteOrder[i]] # Absent
    <3>1. NextFile(q) = WriteOrder[i] /\ NextFile(q) \in Suffix
      BY <2>3, NextIsFile DEF NextFile, FillFile, TypeInv, WritesInOrder
    <3> QED
      BY <2>3, <3>1, FillIsPayload, MarkersAreNotPayloads DEF TypeInv, TypeOK
  <2> QED
    BY <2>1, <2>2, <2>3
<1>2. CompanionsThere'
  <2> SUFFICES ASSUME entry'["bin"] # Absent, NEW s \in {"sym", "dbg", "dep"}
               PROVE  entry'[s] # Absent
    BY DEF CompanionsThere
  <2>1. CASE entry["bin"] # Absent
    BY <2>1, FilesStay DEF CompanionsThere, Suffix
  <2>2. CASE entry["bin"] = Absent
    <3>1. PICK p \in Proc : OpenFile(p) \/ FillFile(p)
      BY <2>2 DEF Next, vars, Start, Validate, Get, GetDebugInfo, GetLayoutPayload, TakeSidecar,
                  GetManifest, Compile, HashInputs, Stored, Interrupt, Edit,
                  RemoveFile, Cleared
    <3>2. pc[p] = "store" /\ written[p] < 5
      BY <3>1, OrderOfWrites DEF OpenFile, FillFile, TypeInv, WritesInOrder
    <3>3. NextFile(p) = "bin"
      BY <2>2, <3>1, <3>2, NextIsFile, FillIsPayload DEF OpenFile, TypeInv, TypeOK, Suffix
    <3>4. written[p] = 4
      BY <3>2, <3>3, NextIsFile, OrderOfWrites, SMT DEF NextFile
    <3>5. PICK i \in 1..5 : WriteOrder[i] = s
      BY OrderOfWrites DEF Suffix
    <3>6. i \in 1..written[p]
      BY <3>4, <3>5, OrderOfWrites, SMT
    <3> QED
      BY <3>2, <3>5, <3>6, FilesStay DEF Suffix
  <2> QED
    BY <2>1, <2>2
<1> QED
  BY <1>1, <1>2, NobodyClears

(* As long as nobody clears the directory, a binary has its companions,    *)
(* however many processes store and whenever they are killed: the promise  *)
(* of the write order in set().                                            *)
THEOREM Companions == ASSUME ~ClearAllowed PROVE Spec => []BinHasCompanions
<1>1. Init => CompanionInv
  BY DEF Init, CompanionInv, CompanionsThere, NoFiles, Suffix
<1>2. TypeInv /\ CompanionInv /\ [Next]_vars => CompanionInv'
  BY NextCompanion
<1>3. Spec => []TypeInv
  BY InitTypeInv, NextTypeOK, NextKnows, PTL DEF Spec, TypeInv
<1>4. Spec => []CompanionInv
  BY <1>1, <1>2, <1>3, PTL DEF Spec
<1>5. CompanionInv => BinHasCompanions
  BY DEF CompanionInv, BinHasCompanions
<1> QED
  BY <1>4, <1>5, PTL

-----------------------------------------------------------------------------
(***************************************************************************)
(* Builds in turn.                                                         *)
(***************************************************************************)

(* One process uses the cache at a time and its inputs hold still while it *)
(* builds; no file is left half written; where builds are killed between   *)
(* two file operations, the inputs are never edited.                       *)
InTurn ==
  /\ \E p : Proc = {p}
  /\ ~EditDuringBuild /\ ~CrashWithin
  /\ CrashBetween => MaxEdits = 0

(* All five files are there, written by one build from the same inputs.    *)
Whole ==
  /\ entry["bin"] \in Payload
  /\ \A s \in Suffix : entry[s] = entry["bin"]

(* Outside set() the binary is absent or the entry whole, unless it was    *)
(* cut; from the validation to the end of a hit the manifest is current,   *)
(* and so is the binary, and what was taken is the entry's; what a miss    *)
(* read is what is on disk, and what set() has written so far is this      *)
(* build's.  Where builds are killed every file of the entry is current,   *)
(* cut or not, and set() is only called when there is no binary, which     *)
(* comes last, or on an entry that was cut.                                *)
TurnOf(p) ==
  /\ pc[p] # "store" => entry["bin"] = Absent \/ cut \/ Whole
  /\ entry["bin"] = Torn => opened[p] /\ written[p] = 4
  /\ cut => CrashBetween \/ pc[p] = "clear"
  /\ pc[p] \in {"get", "getDebugInfo", "getLayoutPayload", "getManifest"} => Valid
  /\ pc[p] \in {"getDebugInfo", "getLayoutPayload", "getManifest"} =>
       /\ got[p]["bin"] \in Payload /\ got[p]["bin"].of = disk
       /\ cut \/ (Whole /\ got[p]["bin"] = entry["bin"])
  /\ pc[p] \in {"getLayoutPayload", "getManifest"} => cut \/ got[p]["dbg"] = entry["bin"]
  /\ pc[p] = "getManifest" => cut \/ got[p]["sym"] = entry["bin"]
  /\ pc[p] = "hit" =>
       /\ got[p]["bin"] \in Payload /\ got[p]["bin"].of = dep[p]
       /\ cut \/ (got[p]["dbg"] = got[p]["bin"] /\ got[p]["sym"] = got[p]["bin"])
  /\ pc[p] = "failed" => cut
  /\ pc[p] \in {"hash", "store"} => src[p] = disk
  /\ pc[p] = "store" => dep[p] = disk
  /\ pc[p] = "store" => \A i \in 1..written[p] :
       entry[WriteOrder[i]] = [by |-> build[p], of |-> disk]
  /\ CrashBetween => \A s \in Suffix : entry[s] \in Payload => entry[s].of = disk
  /\ CrashBetween /\ pc[p] \in {"compile", "hash"} => entry["bin"] = Absent \/ cut
  /\ CrashBetween /\ pc[p] = "store" =>
       entry["bin"] = Absent \/ cut \/ written[p] = 5 \/ (opened[p] /\ written[p] = 4)

TurnInv == \A p \in Proc : TurnOf(p)

(* TurnInv holds at the start.                                            *)
LEMMA InitTurn == Init => TurnInv
<1>1. \A s \in Suffix : NoFiles[s] = Absent /\ Absent \notin Payload \cup {Torn}
  BY MarkersAreNotPayloads DEF NoFiles
<1> SUFFICES ASSUME Init, NEW p \in Proc
             PROVE  pc[p] = "idle" /\ entry = NoFiles /\ ~cut
  BY <1>1 DEF TurnInv, TurnOf, Suffix
<1> QED
  BY DEF Init

(* Every step keeps TurnInv.                                              *)
LEMMA NextTurn ==
  ASSUME InTurn, TypeInv, TurnInv, [Next]_vars
  PROVE  TurnInv'
<1> SUFFICES ASSUME NEW q \in Proc PROVE TurnOf(q)'
  BY DEF TurnInv
<1>g. TurnOf(q)
  BY DEF TurnInv
<1> USE DEF TurnOf
<1>p. \A p \in Proc : p = q
  BY DEF InTurn
<1>t. TypeOK
  BY DEF TypeInv
<1>n. /\ \A s \in Suffix : NoFiles[s] = Absent
      /\ Absent \notin Payload /\ Torn \notin Payload /\ Absent # Torn
  BY MarkersAreNotPayloads DEF NoFiles
<1>s. {"bin", "dep", "dbg", "sym"} \subseteq Suffix
  BY DEF Suffix
<1>w. entry' = entry => Whole' = Whole
  BY DEF Whole
<1>v. entry' = entry /\ disk' = disk => Valid' = Valid
  BY DEF Valid
<1>k. entry' = entry /\ disk' = disk =>
        (\A s \in Suffix : entry'[s] \in Payload => entry'[s].of = disk')
          = (\A s \in Suffix : entry[s] \in Payload => entry[s].of = disk)
  OBVIOUS
<1>b. \A s \in Suffix : entry[s] \in Payload \cup {Absent, Torn}
  BY <1>t DEF TypeOK
<1>e. pc[q] \in Ended \cup Reading => entry["bin"] # Torn
  BY <1>g DEF TypeInv, WritesInOrder, Ended, Reading
<1>1. ASSUME NEW clear \in BOOLEAN, Start(q, clear) PROVE TurnOf(q)'
  <2>1. pc'[q] \in {"clear", "validate"}
    BY <1>1, <1>t DEF Start, Goto, TypeOK
  <2>2. pc[q] \notin {"clear", "store"} /\ UNCHANGED <<disk, entry, cut>>
    BY <1>1 DEF Start, Ended
  <2>3. entry["bin"] # Torn
    BY <1>1, <1>e DEF Start
  <2> QED
    BY <1>g, <1>w, <1>k, <2>1, <2>2, <2>3
<1>a. ASSUME NEW s \in Suffix, RemoveFile(q, s) PROVE TurnOf(q)'
  <2>1. pc[q] = "clear" /\ cut' /\ UNCHANGED <<disk, pc>>
    BY <1>a DEF RemoveFile
  <2>2. \A r \in Suffix : entry'[r] = Absent \/ entry'[r] = entry[r]
    BY <1>a, <1>t DEF RemoveFile, TypeOK
  <2>3. entry["bin"] # Torn
    BY <1>g, <2>1 DEF TypeInv, WritesInOrder
  <2>4. CrashBetween => \A r \in Suffix : entry'[r] \in Payload => entry'[r].of = disk'
    BY <1>g, <1>n, <2>1, <2>2
  <2> QED
    BY <1>n, <1>s, <2>1, <2>2, <2>3, <2>4
<1>c. ASSUME Cleared(q) PROVE TurnOf(q)'
  <2>1. pc'[q] = "validate" /\ ~cut' /\ entry' = NoFiles
    BY <1>c, <1>t DEF Cleared, Goto, TypeOK
  <2> QED
    BY <1>n, <1>s, <2>1
<1>2. ASSUME Validate(q) PROVE TurnOf(q)'
  <2>1. pc[q] = "validate" /\ UNCHANGED <<disk, entry, got, src, dep, written, opened, cut>>
    BY <1>2 DEF Validate
  <2>0. entry["bin"] # Torn
    BY <1>e, <2>1 DEF Reading
  <2>2. CASE Valid
    <3>1. pc'[q] = "get"
      BY <1>2, <1>t, <2>2 DEF Validate, Goto, TypeOK
    <3> QED
      BY <1>g, <1>w, <1>v, <1>k, <2>0, <2>1, <2>2, <3>1
  <2>3. CASE ~Valid
    <3>1. pc'[q] = "compile"
      BY <1>2, <1>t, <2>3 DEF Validate, Goto, TypeOK
    <3>2. CrashBetween => ~Whole
      BY <1>g, <1>s, <2>3 DEF Valid, Whole
    <3> QED
      BY <1>g, <1>w, <1>k, <2>0, <2>1, <3>1, <3>2
  <2> QED
    BY <2>2, <2>3
<1>3. ASSUME Get(q) PROVE TurnOf(q)'
  <2>1. pc[q] = "get" /\ UNCHANGED <<disk, entry, src, dep, written, opened, cut>>
    BY <1>3 DEF Get
  <2>0. entry["bin"] # Torn
    BY <1>e, <2>1 DEF Reading
  <2>2. CASE entry["bin"] = Absent
    <3>1. pc'[q] = "compile"
      BY <1>3, <1>t, <2>2 DEF Get, Goto, TypeOK
    <3> QED
      BY <1>g, <1>k, <2>0, <2>1, <2>2, <3>1
  <2>3. CASE entry["bin"] # Absent
    <3>1. entry["bin"] \in Payload /\ entry["bin"].of = disk
      <4>1. CASE cut
        BY <1>g, <1>b, <1>s, <2>0, <2>1, <2>3, <4>1
      <4>2. CASE ~cut
        BY <1>g, <1>s, <2>1, <2>3, <4>2 DEF Whole, Valid
      <4> QED
        BY <4>1, <4>2
    <3>2. pc'[q] = "getDebugInfo" /\ got'[q]["bin"] = entry["bin"]
      BY <1>3, <1>t, <1>s, <2>3 DEF Get, Take, Goto, TypeOK
    <3> QED
      BY <1>g, <1>w, <1>v, <1>k, <2>0, <2>1, <2>3, <3>1, <3>2
  <2> QED
    BY <2>2, <2>3
<1>f. ASSUME pc[q] \in {"getDebugInfo", "getLayoutPayload"}, pc'[q] = "failed",
             entry["dbg"] \notin Payload \/ entry["sym"] \notin Payload,
             UNCHANGED <<disk, entry, cut>>
      PROVE  TurnOf(q)'
  <2>1. cut
    BY <1>f, <1>g, <1>s DEF Whole
  <2>2. entry["bin"] # Torn
    BY <1>e, <1>f DEF Reading
  <2> QED
    BY <1>f, <1>g, <1>k, <2>1, <2>2
<1>4. ASSUME GetDebugInfo(q) PROVE TurnOf(q)'
  <2>1. pc[q] = "getDebugInfo" /\ UNCHANGED <<disk, entry, src, dep, cut>>
    BY <1>4 DEF GetDebugInfo, TakeSidecar
  <2>2. entry["bin"] # Torn
    BY <1>e, <2>1 DEF Reading
  <2>3. CASE entry["dbg"] \in Payload
    <3>1. pc'[q] = "getLayoutPayload" /\ got'[q]["dbg"] = entry["dbg"] /\ got'[q]["bin"] = got[q]["bin"]
      BY <1>4, <1>t, <1>s, <2>3 DEF GetDebugInfo, TakeSidecar, Take, Goto, TypeOK
    <3>2. cut \/ entry["dbg"] = entry["bin"]
      BY <1>g, <1>s, <2>1 DEF Whole
    <3> QED
      BY <1>g, <1>w, <1>v, <1>k, <2>1, <2>2, <3>1, <3>2
  <2>4. CASE entry["dbg"] \notin Payload
    <3>1. pc'[q] = "failed"
      BY <1>4, <1>t, <2>4 DEF GetDebugInfo, TakeSidecar, Goto, TypeOK
    <3> QED
      BY <1>f, <2>1, <2>4, <3>1
  <2> QED
    BY <2>3, <2>4
<1>5. ASSUME GetLayoutPayload(q) PROVE TurnOf(q)'
  <2>1. pc[q] = "getLayoutPayload" /\ UNCHANGED <<disk, entry, src, dep, cut>>
    BY <1>5 DEF GetLayoutPayload, TakeSidecar
  <2>2. entry["bin"] # Torn
    BY <1>e, <2>1 DEF Reading
  <2>3. CASE entry["sym"] \in Payload
    <3>1. /\ pc'[q] = "getManifest" /\ got'[q]["sym"] = entry["sym"]
          /\ got'[q]["bin"] = got[q]["bin"] /\ got'[q]["dbg"] = got[q]["dbg"]
      BY <1>5, <1>t, <1>s, <2>3 DEF GetLayoutPayload, TakeSidecar, Take, Goto, TypeOK
    <3>2. cut \/ entry["sym"] = entry["bin"]
      BY <1>g, <1>s, <2>1 DEF Whole
    <3> QED
      BY <1>g, <1>w, <1>v, <1>k, <2>1, <2>2, <3>1, <3>2
  <2>4. CASE entry["sym"] \notin Payload
    <3>1. pc'[q] = "failed"
      BY <1>5, <1>t, <2>4 DEF GetLayoutPayload, TakeSidecar, Goto, TypeOK
    <3> QED
      BY <1>f, <2>1, <2>4, <3>1
  <2> QED
    BY <2>3, <2>4
<1>6. ASSUME GetManifest(q) PROVE TurnOf(q)'
  <2>1. pc[q] = "getManifest" /\ UNCHANGED <<disk, entry, got, src, cut>>
    BY <1>6 DEF GetManifest
  <2>2. entry["bin"] # Torn
    BY <1>e, <2>1 DEF Reading
  <2>3. pc'[q] = "hit" /\ dep'[q] = disk
    BY <1>6, <1>g, <1>t, <2>1 DEF GetManifest, Goto, TypeOK, Valid
  <2>4. got[q]["bin"] \in Payload /\ got[q]["bin"].of = disk
    BY <1>g, <2>1
  <2>5. cut \/ (got[q]["dbg"] = got[q]["bin"] /\ got[q]["sym"] = got[q]["bin"])
    BY <1>g, <2>1
  <2> QED
    BY <1>g, <1>w, <1>k, <2>1, <2>2, <2>3, <2>4, <2>5
<1>7. ASSUME Compile(q) PROVE TurnOf(q)'
  <2>1. pc[q] = "compile" /\ pc'[q] = "hash" /\ src'[q] = disk
    BY <1>7, <1>t DEF Compile, Goto, TypeOK
  <2>2. UNCHANGED <<disk, entry, cut>> /\ entry["bin"] # Torn
    BY <1>7, <1>g DEF Compile, TypeInv, WritesInOrder
  <2> QED
    BY <1>g, <1>w, <1>k, <2>1, <2>2
<1>8. ASSUME HashInputs(q) PROVE TurnOf(q)'
  <2>1. pc[q] = "hash" /\ pc'[q] = "store" /\ dep'[q] = disk
    BY <1>8, <1>t DEF HashInputs, Goto, TypeOK
  <2>2. /\ UNCHANGED <<disk, entry, src, written, cut>> /\ written[q] = 0
        /\ entry["bin"] # Torn
    BY <1>8, <1>g, <2>1 DEF HashInputs, TypeInv, StoresWhatItKnows, WritesInOrder
  <2>3. 1..written'[q] = {}
    BY <2>2, SMT
  <2> QED
    BY <1>g, <1>k, <2>1, <2>2, <2>3
<1>9. ASSUME OpenFile(q) PROVE TurnOf(q)'
  <2>1. pc[q] = "store" /\ UNCHANGED <<disk, pc, src, dep, got, written, build, cut>>
    BY <1>9 DEF OpenFile
  <2>2. written[q] \in 0..4 /\ written[q] + 1 \in 1..5 /\ NextFile(q) \in Suffix
    BY <1>9, OrderOfWrites, NextIsFile DEF OpenFile
  <2>3. ASSUME NEW i \in 1..written[q] PROVE entry'[WriteOrder[i]] = entry[WriteOrder[i]]
    <3>1. i \in 1..5 /\ i # written[q] + 1
      BY <2>2, SMT
    <3>2. WriteOrder[i] # NextFile(q) /\ WriteOrder[i] \in Suffix
      BY <2>2, <3>1, OrderOfWrites DEF NextFile
    <3> QED
      BY <1>9, <1>t, <3>2 DEF OpenFile, TypeOK
  <2>4. entry' = [entry EXCEPT ![NextFile(q)] = Torn] /\ opened'[q] /\ ~opened[q]
    BY <1>9, <1>t DEF OpenFile, TypeOK
  <2>5. CrashBetween => \A s \in Suffix : entry'[s] \in Payload => entry'[s].of = disk'
    BY <1>g, <1>t, <2>1, <2>4, MarkersAreNotPayloads DEF TypeOK
  <2>6. /\ CrashBetween => entry'["bin"] = Absent \/ cut' \/ written'[q] = 4
        /\ entry'["bin"] = Torn => written'[q] = 4
    <3>1. CASE written[q] = 4
      BY <2>1, <3>1
    <3>2. CASE written[q] # 4
      <4>1. NextFile(q) # "bin"
        <5>1. written[q] + 1 # 5
          BY <2>2, <3>2, SMT
        <5> QED
          BY <2>2, <5>1, OrderOfWrites DEF NextFile
      <4>2. written[q] # 5
        BY <2>2, SMT
      <4> QED
        BY <1>g, <1>t, <1>s, <2>1, <2>4, <3>2, <4>1, <4>2 DEF TypeOK
    <3> QED
      BY <3>1, <3>2
  <2> QED
    BY <1>g, <2>1, <2>3, <2>4, <2>5, <2>6
<1>10. ASSUME FillFile(q) PROVE TurnOf(q)'
  <2>1. pc[q] = "store" /\ opened[q] /\ UNCHANGED <<disk, pc, src, dep, got, build, cut>>
    BY <1>10 DEF FillFile
  <2>2. written[q] \in 0..4 /\ written[q] + 1 \in 1..5 /\ NextFile(q) \in Suffix
    BY <1>10, OrderOfWrites, NextIsFile DEF FillFile, TypeInv, WritesInOrder
  <2>3. written'[q] = written[q] + 1
    BY <1>10, <1>t DEF FillFile, TypeOK
  <2>4. entry' = [entry EXCEPT ![NextFile(q)] = [by |-> build[q], of |-> disk]]
    BY <1>10, <1>t, <1>g, <2>2 DEF FillFile, TypeOK
  <2>5. ASSUME NEW i \in 1..written[q] PROVE entry'[WriteOrder[i]] = entry[WriteOrder[i]]
    <3>1. i \in 1..5 /\ i # written[q] + 1
      BY <2>2, SMT
    <3>2. WriteOrder[i] # NextFile(q) /\ WriteOrder[i] \in Suffix
      BY <2>2, <3>1, OrderOfWrites DEF NextFile
    <3> QED
      BY <2>4, <1>t, <3>2 DEF TypeOK
  <2>6. ASSUME NEW i \in 1..written'[q]
        PROVE  entry'[WriteOrder[i]] = [by |-> build'[q], of |-> disk']
    <3>1. i \in 1..written[q] \/ i = written[q] + 1
      BY <2>2, <2>3, SMT
    <3>2. entry'[NextFile(q)] = [by |-> build[q], of |-> disk]
      BY <2>2, <2>4, <1>t DEF TypeOK
    <3> QED
      BY <1>g, <2>1, <3>2, <2>5, <3>1 DEF NextFile
  <2>7. CrashBetween => \A s \in Suffix : entry'[s] \in Payload => entry'[s].of = disk'
    BY <1>g, <1>t, <2>1, <2>2, <2>4 DEF TypeOK
  <2>8. [by |-> build[q], of |-> disk] \in Payload
    BY <1>t, <2>1 DEF Payload, TypeInv, StoresWhatItKnows, TypeOK
  <2>9. /\ CrashBetween => entry'["bin"] = Absent \/ cut' \/ written'[q] = 5
        /\ entry'["bin"] # Torn
    <3>1. CASE written[q] = 4
      <4>1. NextFile(q) = "bin"
        BY <3>1, OrderOfWrites, SMT DEF NextFile
      <4> QED
        BY <1>n, <1>t, <2>3, <2>4, <2>8, <3>1, <4>1, <1>s DEF TypeOK
    <3>2. CASE written[q] # 4
      <4>1. NextFile(q) # "bin"
        <5>1. written[q] + 1 # 5
          BY <2>2, <3>2, SMT
        <5> QED
          BY <2>2, <5>1, OrderOfWrites DEF NextFile
      <4>2. written[q] # 5
        BY <2>2, SMT
      <4> QED
        BY <1>g, <1>t, <1>s, <2>1, <2>4, <3>2, <4>1, <4>2 DEF TypeOK
    <3> QED
      BY <3>1, <3>2
  <2> QED
    BY <1>g, <2>1, <2>6, <2>7, <2>9
<1>w5. ASSUME pc[q] = "store", written[q] = 5 PROVE Whole
  <2>1. \A s \in Suffix : entry[s] = [by |-> build[q], of |-> disk]
    BY <1>g, <1>w5, OrderOfWrites
  <2>2. [by |-> build[q], of |-> disk] \in Payload
    BY <1>w5, <1>t DEF Payload, TypeInv, StoresWhatItKnows, TypeOK
  <2> QED
    BY <1>s, <2>1, <2>2 DEF Whole
<1>11. ASSUME Stored(q) PROVE TurnOf(q)'
  <2>1. pc[q] = "store" /\ pc'[q] = "built" /\ UNCHANGED <<disk, entry>>
    BY <1>11, <1>t DEF Stored, Goto, TypeOK
  <2>2. Whole
    BY <1>11, <1>w5, OrderOfWrites DEF Stored
  <2>3. ~cut' /\ entry["bin"] # Torn
    BY <1>11, <1>n, <2>2 DEF Stored, Whole
  <2> QED
    BY <1>g, <1>w, <1>k, <2>1, <2>2, <2>3
<1>12. ASSUME Interrupt(q) PROVE TurnOf(q)'
  <2>1. pc'[q] = "idle" /\ UNCHANGED <<disk, entry, cut>>
    BY <1>12, <1>t DEF Interrupt, Goto, TypeOK
  <2>2. CrashBetween /\ ~opened[q]
    BY <1>12 DEF Interrupt, InTurn
  <2>3. entry["bin"] = Absent \/ cut \/ Whole
    BY <1>g, <1>w5, <2>2
  <2> QED
    BY <1>g, <1>w, <1>k, <2>1, <2>2, <2>3
<1>13. ASSUME NEW f \in File, Edit(f) PROVE TurnOf(q)'
  <2>1. pc[q] \in Ended /\ UNCHANGED <<entry, pc, got, dep, cut>> /\ entry["bin"] # Torn
    BY <1>13, <1>e DEF Edit, InTurn
  <2>2. ~CrashBetween
    <3>1. edits < MaxEdits /\ edits \in 0..MaxEdits
      BY <1>13, <1>t DEF Edit, TypeOK
    <3>2. MaxEdits # 0
      BY <3>1, SMT
    <3> QED
      BY <3>2 DEF InTurn
  <2> QED
    BY <1>g, <1>w, <2>1, <2>2 DEF Ended
<1>14. CASE UNCHANGED vars
  BY <1>g, <1>w, <1>v, <1>k, <1>14 DEF vars
<1> QED
  BY <1>p, <1>a, <1>c, <1>1, <1>2, <1>3, <1>4, <1>5, <1>6, <1>7, <1>8, <1>9, <1>10, <1>11, <1>12, <1>13, <1>14
  DEF Next

(* Every step is an edit, a delivery of what is on disk, the start of a    *)
(* build that has not delivered yet, or nothing an observer sees.          *)
LEMMA StepsAreBuilds ==
  ASSUME InTurn, TypeInv, TurnInv, [Next]_vars
  PROVE  [Uncached!Next]_(Uncached!vars)
<1> DEFINE D == [p \in Proc |-> Delivered(p)]
<1>t. TypeOK
  BY DEF TypeInv
<1>p. \A p, q \in Proc : p = q
  BY DEF InTurn
<1>1. ASSUME NEW f \in File, Edit(f) PROVE Uncached!Edit(f)
  <2>1. \E v \in Version : disk' = [disk EXCEPT ![f] = v]
    BY <1>1 DEF Edit
  <2>2. D' = D
    BY <1>1 DEF Edit, Delivered
  <2> QED
    BY <2>1, <2>2 DEF Uncached!Edit
<1>2. ASSUME NEW p \in Proc, NEW clear \in BOOLEAN, Start(p, clear) PROVE Uncached!Forget(p)
  <2>1. pc'[p] \in {"clear", "validate"}
    BY <1>2, <1>t DEF Start, Goto, TypeOK
  <2>2. D' = [D EXCEPT ![p] = Nothing]
    BY <1>p, <2>1 DEF Delivered
  <2> QED
    BY <1>2, <2>2 DEF Uncached!Forget, Start
<1>3. ASSUME NEW p \in Proc, GetManifest(p) PROVE Uncached!Deliver(p)
  <2>1. pc'[p] = "hit"
    BY <1>3, <1>t DEF GetManifest, Goto, TypeOK
  <2>2. got'[p]["bin"] = got[p]["bin"] /\ UNCHANGED disk
    BY <1>3 DEF GetManifest
  <2>3. got[p]["bin"] \in Payload /\ got[p]["bin"].of = disk
    BY <1>3 DEF GetManifest, TurnInv, TurnOf
  <2>4. Delivered(p)' = disk
    BY <2>1, <2>2, <2>3 DEF Delivered
  <2>5. D' = [D EXCEPT ![p] = disk]
    BY <1>p, <2>4
  <2> QED
    BY <2>2, <2>5 DEF Uncached!Deliver
<1>4. ASSUME NEW p \in Proc, Stored(p) PROVE Uncached!Deliver(p)
  <2>1. pc'[p] = "built" /\ pc[p] = "store"
    BY <1>4, <1>t DEF Stored, Goto, TypeOK
  <2>2. src'[p] = disk /\ UNCHANGED disk
    BY <1>4, <2>1 DEF Stored, TurnInv, TurnOf
  <2>3. D' = [D EXCEPT ![p] = disk]
    BY <1>p, <2>1, <2>2 DEF Delivered
  <2> QED
    BY <2>2, <2>3 DEF Uncached!Deliver
<1>5. ASSUME NEW p \in Proc, pc[p] \notin {"hit", "built"}, pc'[p] \notin {"hit", "built"},
             UNCHANGED disk
      PROVE  UNCHANGED Uncached!vars
  <2>1. D' = D
    BY <1>p, <1>5 DEF Delivered
  <2> QED
    BY <1>5, <2>1 DEF Uncached!vars
<1>6. ASSUME NEW p \in Proc, \/ Validate(p) \/ Get(p) \/ GetDebugInfo(p) \/ GetLayoutPayload(p)
                             \/ Compile(p) \/ HashInputs(p)
      PROVE  UNCHANGED Uncached!vars
  BY <1>5, <1>6, <1>t DEF Validate, Get, GetDebugInfo, GetLayoutPayload, TakeSidecar, Compile,
                          HashInputs, Goto, TypeOK
<1>7. ASSUME NEW p \in Proc, OpenFile(p) \/ FillFile(p) PROVE UNCHANGED Uncached!vars
  BY <1>5, <1>7 DEF OpenFile, FillFile
<1>8. CASE UNCHANGED vars
  BY <1>8 DEF vars, Delivered, Uncached!vars
<1>9. ASSUME NEW p \in Proc, Interrupt(p) PROVE UNCHANGED Uncached!vars
  BY <1>5, <1>9, <1>t DEF Interrupt, Goto, TypeOK, Ended
<1>10. ASSUME NEW p \in Proc, NEW s \in Suffix, RemoveFile(p, s) PROVE UNCHANGED Uncached!vars
  BY <1>5, <1>10 DEF RemoveFile
<1>11. ASSUME NEW p \in Proc, Cleared(p) PROVE UNCHANGED Uncached!vars
  BY <1>5, <1>11, <1>t DEF Cleared, Goto, TypeOK
<1> QED
  BY <1>1, <1>2, <1>3, <1>4, <1>6, <1>7, <1>8, <1>9, <1>10, <1>11 DEF Next, Uncached!Next

(* The store invariant of a process that is alone.                         *)
LEMMA TurnInvariance == ASSUME InTurn PROVE Spec => [](TypeInv /\ TurnInv)
  BY InitTypeInv, InitTurn, NextTypeOK, NextKnows, NextTurn, PTL DEF Spec, TypeInv

(* What a hit takes is of one build: the BRK sites and record indices of   *)
(* the .dbg file are those of the .bin they are patched into, until a      *)
(* clear is killed half way.                                               *)
THEOREM OneBuild == ASSUME InTurn PROVE Spec => []HitIsOfOneBuild
<1>1. TurnInv => HitIsOfOneBuild
  BY DEF TurnInv, TurnOf, HitIsOfOneBuild
<1> QED
  BY <1>1, TurnInvariance, PTL

(* What a hit serves is what the manifest it hands to its parent names,    *)
(* also where clears are killed.                                           *)
THEOREM ManifestMatches == ASSUME InTurn PROVE Spec => []HitMatchesManifest
<1>1. TurnInv => HitMatchesManifest
  BY DEF TurnInv, TurnOf, HitMatchesManifest
<1> QED
  BY <1>1, TurnInvariance, PTL

(* No build of those is told that a sidecar is missing, whatever was       *)
(* killed before it, except a clear that nothing has made good.            *)
THEOREM SidecarsFound == ASSUME InTurn PROVE Spec => []NoMissingSidecar
<1>1. TurnInv => NoMissingSidecar
  BY DEF TurnInv, TurnOf, NoMissingSidecar
<1> QED
  BY <1>1, TurnInvariance, PTL

(* Between two builds a binary that the manifest vouches for is one with   *)
(* its sidecars: a manifest never vouches for a binary of another build.   *)
THEOREM EntriesWhole == ASSUME InTurn PROVE Spec => []EntryIsOfOneBuild
<1>1. TurnInv => EntryIsOfOneBuild
  <2> SUFFICES ASSUME TurnInv, \A p \in Proc : pc[p] # "store", ~cut, entry["bin"] \in Payload, Valid,
                      NEW s \in {"sym", "dbg", "dep"}
               PROVE  entry[s] \in Payload /\ entry[s].by = entry["bin"].by
    BY DEF EntryIsOfOneBuild
  <2>1. Whole
    BY MarkersAreNotPayloads DEF TurnInv, TurnOf, InTurn
  <2> QED
    BY <2>1 DEF Whole, Suffix
<1> QED
  BY <1>1, TurnInvariance, PTL

(* A cached build delivers what an uncached one would: every behaviour of  *)
(* the five-file entry is one of builds without a cache.                   *)
THEOREM CachedBuildsAreUncached == ASSUME InTurn PROVE Spec => ImplementsUncachedBuilds
<1>1. Init => Uncached!Init
  BY DEF Init, Uncached!Init, Delivered, Inputs
<1>2. TypeInv /\ TurnInv /\ [Next]_vars => [Uncached!Next]_(Uncached!vars)
  BY StepsAreBuilds
<1> QED
  BY <1>1, <1>2, TurnInvariance, PTL DEF Spec, Uncached!Spec, ImplementsUncachedBuilds

=============================================================================
