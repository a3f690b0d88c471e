----------------------------- MODULE CacheStore -----------------------------
(***************************************************************************)
(* One entry of the object cache on disk (objectCache.ts): the five files  *)
(* named for one key, the compiler processes that look the entry up, take  *)
(* it, or compile and store it, the edits that happen to the input files   *)
(* of the subtree, and the interruption of a process.                      *)
(*                                                                         *)
(* The key fixes the object's own source, so File holds the inputs the key *)
(* does not see: the sources of its descendants and the blobs they embed.  *)
(* What a file contains is a version; a payload is the versions it was     *)
(* made from and the build that made it.  Which build matters because the  *)
(* .dbg file speaks of the indices of the build that wrote it, and only    *)
(* the .bin of the same build holds them.                                  *)
(***************************************************************************)
EXTENDS Naturals, Sequences

CONSTANTS
  Proc,              (* compiler processes sharing the cache directory    *)
  File, Version,
  MaxBuilds,         (* bound: builds started                             *)
  MaxEdits,          (* bound: edits made                                 *)
  EditDuringBuild,   (* files may change while a process is building      *)
  CrashBetween,      (* a process may be killed between two file          *)
                     (* operations                                        *)
  CrashWithin,       (* ... and inside a write: the file is left torn     *)
  ClearAllowed,      (* builds may be started with --cache-clear          *)
  Absent, Torn,      (* a file that is not there, that is incomplete      *)
  Nothing            (* no value                                          *)

ASSUME StoreAssumptions ==
  /\ MaxBuilds \in Nat /\ MaxEdits \in Nat
  /\ {EditDuringBuild, CrashBetween, CrashWithin, ClearAllowed} \subseteq BOOLEAN

Inputs  == [File -> Version]
Payload == [by : 1..MaxBuilds, of : Inputs]

ASSUME MarkersAreNotPayloads ==
  /\ Absent \notin Payload /\ Torn \notin Payload /\ Nothing \notin Payload
  /\ Nothing \notin Inputs
  /\ Absent # Torn

(* A slip: the binary and its manifest are written before the sidecars.    *)
WriteOrderBinFirst == <<"dep", "meta", "bin", "sym", "dbg">>

(* The order in which set() writes the files: the binary last.             *)
WriteOrder == <<"sym", "dbg", "dep", "meta", "bin">>
Suffix == {"sym", "dbg", "dep", "meta", "bin"}

VARIABLES
  disk,     (* disk[f]: contents of input file f                          *)
  entry,    (* entry[s]: what the file <key>.s holds                      *)
  pc,       (* pc[p]: what process p does next                            *)
  build,    (* build[p]: the number of the build process p runs           *)
  src,      (* src[p]: inputs the compile of p read (Nothing before)      *)
  dep,      (* dep[p]: the manifest p computed or took from the entry     *)
  got,      (* got[p]: the files of the entry p has taken, by suffix      *)
  written,  (* written[p]: files of WriteOrder that p has completed       *)
  opened,   (* opened[p]: p has truncated the next one, not yet filled it *)
  builds, edits,
  cut       (* history: files of the entry were removed by --cache-clear,  *)
            (* and neither the clear nor a store was completed since       *)

vars == <<disk, entry, pc, build, src, dep, got, written, opened, builds, edits, cut>>

NoFiles == [s \in Suffix |-> Absent]

Reading == {"validate", "get", "getDebugInfo", "getLayoutPayload", "getManifest"}
Storing == {"compile", "hash", "store"}
Ended   == {"idle", "hit", "built", "failed"}
Labels  == {"clear"} \cup Reading \cup Storing \cup Ended

-----------------------------------------------------------------------------

Init ==
  /\ disk \in Inputs
  /\ entry = NoFiles
  /\ pc = [p \in Proc |-> "idle"]
  /\ build = [p \in Proc |-> 0]
  /\ src = [p \in Proc |-> Nothing]
  /\ dep = [p \in Proc |-> Nothing]
  /\ got = [p \in Proc |-> NoFiles]
  /\ written = [p \in Proc |-> 0]
  /\ opened = [p \in Proc |-> FALSE]
  /\ builds = 0
  /\ edits = 0
  /\ cut = FALSE

Goto(p, l) == pc' = [pc EXCEPT ![p] = l]

(* A new run of process p: --cache-clear is obeyed when the options are    *)
(* parsed, and the compiler comes to this object after that.               *)
Start(p, clear) ==
  /\ pc[p] \in Ended
  /\ builds < MaxBuilds
  /\ clear => ClearAllowed
  /\ builds' = builds + 1
  /\ build' = [build EXCEPT ![p] = builds + 1]
  /\ src' = [src EXCEPT ![p] = Nothing]
  /\ dep' = [dep EXCEPT ![p] = Nothing]
  /\ got' = [got EXCEPT ![p] = NoFiles]
  /\ written' = [written EXCEPT ![p] = 0]
  /\ opened' = [opened EXCEPT ![p] = FALSE]
  /\ Goto(p, IF clear THEN "clear" ELSE "validate")
  /\ UNCHANGED <<disk, entry, edits, cut>>

(* rmSync removes what is in the directory file by file; nothing says in   *)
(* which order.                                                            *)
RemoveFile(p, s) ==
  /\ pc[p] = "clear"
  /\ entry[s] # Absent
  /\ entry' = [entry EXCEPT ![s] = Absent]
  /\ cut' = TRUE
  /\ UNCHANGED <<disk, pc, build, src, dep, got, written, opened, builds, edits>>

(* Then the directory itself goes, which must be empty, and the run goes   *)
(* on.  A clear that finds it filled again, and a store that finds it      *)
(* gone, end with an exception: they leave what Interrupt leaves.          *)
Cleared(p) ==
  /\ pc[p] = "clear"
  /\ entry = NoFiles
  /\ cut' = FALSE
  /\ Goto(p, "validate")
  /\ UNCHANGED <<disk, entry, build, src, dep, got, written, opened, builds, edits>>

(* A slip: a manifest is there, but its hashes are not compared.           *)
ValidByPresence == entry["dep"] \in Payload

(* isEntryValid: the manifest is there and every input it names still      *)
(* hashes to what it says.                                                 *)
Valid == entry["dep"] \in Payload /\ entry["dep"].of = disk

(* getIfValid, first half: an entry that cannot be proved right is a miss. *)
Validate(p) ==
  /\ pc[p] = "validate"
  /\ Goto(p, IF Valid THEN "get" ELSE "compile")
  /\ UNCHANGED <<disk, entry, build, src, dep, got, written, opened, builds, edits, cut>>

Take(p, s) == got' = [got EXCEPT ![p][s] = entry[s]]

(* get: the presence of the .bin is the hit gate; nothing else about it is *)
(* looked at.                                                              *)
Get(p) ==
  /\ pc[p] = "get"
  /\ IF entry["bin"] = Absent
     THEN Goto(p, "compile") /\ UNCHANGED got
     ELSE Goto(p, "getDebugInfo") /\ Take(p, "bin")
  /\ UNCHANGED <<disk, entry, build, src, dep, written, opened, builds, edits, cut>>

(* The two sidecars every hit needs: without one of them the build stops   *)
(* and asks for --cache-clear.                                             *)
TakeSidecar(p, here, s, next) ==
  /\ pc[p] = here
  /\ IF entry[s] \in Payload
     THEN Goto(p, next) /\ Take(p, s)
     ELSE Goto(p, "failed") /\ UNCHANGED got
  /\ UNCHANGED <<disk, entry, build, src, dep, written, opened, builds, edits, cut>>

GetDebugInfo(p)     == TakeSidecar(p, "getDebugInfo", "dbg", "getLayoutPayload")
GetLayoutPayload(p) == TakeSidecar(p, "getLayoutPayload", "sym", "getManifest")

(* A slip: the file is handed up, not the inputs it names.                 *)
GetManifestFile(p) ==
  /\ pc[p] = "getManifest"
  /\ dep' = [dep EXCEPT ![p] = entry["dep"]]
  /\ Goto(p, "hit")
  /\ UNCHANGED <<disk, entry, build, src, got, written, opened, builds, edits, cut>>

(* The manifest handed to the declaring parent is read a second time; by   *)
(* then it may be gone, and then an empty one is handed up.                *)
GetManifest(p) ==
  /\ pc[p] = "getManifest"
  /\ dep' = [dep EXCEPT ![p] = IF entry["dep"] \in Payload THEN entry["dep"].of ELSE Nothing]
  /\ Goto(p, "hit")
  /\ UNCHANGED <<disk, entry, build, src, got, written, opened, builds, edits, cut>>

(* A miss: the subtree's files are read and compiled ...                   *)
Compile(p) ==
  /\ pc[p] = "compile"
  /\ src' = [src EXCEPT ![p] = disk]
  /\ Goto(p, "hash")
  /\ UNCHANGED <<disk, entry, build, dep, got, written, opened, builds, edits, cut>>

(* ... and hashed for the manifest when the compile is over.               *)
HashInputs(p) ==
  /\ pc[p] = "hash"
  /\ dep' = [dep EXCEPT ![p] = disk]
  /\ Goto(p, "store")
  /\ UNCHANGED <<disk, entry, build, src, got, written, opened, builds, edits, cut>>

NextFile(p) == WriteOrder[written[p] + 1]

(* A slip: files under a key that has been stored before are left alone,   *)
(* all of them ...                                                         *)
SkipPresent(p, S) ==
  /\ pc[p] = "store"
  /\ written[p] < Len(WriteOrder)
  /\ ~opened[p]
  /\ IF NextFile(p) \in S /\ entry[NextFile(p)] # Absent
     THEN written' = [written EXCEPT ![p] = @ + 1] /\ UNCHANGED <<opened, entry>>
     ELSE /\ opened' = [opened EXCEPT ![p] = TRUE]
          /\ entry' = [entry EXCEPT ![NextFile(p)] = Torn]
          /\ UNCHANGED written
  /\ UNCHANGED <<disk, pc, build, src, dep, got, builds, edits, cut>>
OpenFileUnlessPresent(p) == SkipPresent(p, Suffix)

(* ... or only the binary.                                                 *)
OpenFileUnlessStored(p) == SkipPresent(p, {"bin"})

(* writeFileSync opens the file, which empties it, and then fills it.      *)
OpenFile(p) ==
  /\ pc[p] = "store"
  /\ written[p] < Len(WriteOrder)
  /\ ~opened[p]
  /\ opened' = [opened EXCEPT ![p] = TRUE]
  /\ entry' = [entry EXCEPT ![NextFile(p)] = Torn]
  /\ UNCHANGED <<disk, pc, build, src, dep, got, written, builds, edits, cut>>

FillFile(p) ==
  /\ pc[p] = "store"
  /\ opened[p]
  /\ opened' = [opened EXCEPT ![p] = FALSE]
  /\ written' = [written EXCEPT ![p] = @ + 1]
  /\ entry' = [entry EXCEPT ![NextFile(p)] =
                 [by |-> build[p], of |-> IF NextFile(p) = "dep" THEN dep[p] ELSE src[p]]]
  /\ UNCHANGED <<disk, pc, build, src, dep, got, builds, edits, cut>>

(* set() returns and the compiled binary goes on into the build; the entry *)
(* is whole again unless somebody is taking it apart.                      *)
Stored(p) ==
  /\ pc[p] = "store"
  /\ written[p] = Len(WriteOrder)
  /\ cut' = (cut /\ \E s \in Suffix : entry[s] = Absent)
  /\ Goto(p, "built")
  /\ UNCHANGED <<disk, entry, build, src, dep, got, written, opened, builds, edits>>

Interrupt(p) ==
  /\ pc[p] \notin Ended
  /\ IF opened[p] THEN CrashWithin ELSE CrashBetween
  /\ Goto(p, "idle")
  /\ src' = [src EXCEPT ![p] = Nothing]
  /\ dep' = [dep EXCEPT ![p] = Nothing]
  /\ got' = [got EXCEPT ![p] = NoFiles]
  /\ written' = [written EXCEPT ![p] = 0]
  /\ opened' = [opened EXCEPT ![p] = FALSE]
  /\ UNCHANGED <<disk, entry, build, builds, edits, cut>>

(* Somebody saves an input file.                                           *)
Edit(f) ==
  /\ edits < MaxEdits
  /\ EditDuringBuild \/ \A p \in Proc : pc[p] \in Ended
  /\ \E v \in Version \ {disk[f]} : disk' = [disk EXCEPT ![f] = v]
  /\ edits' = edits + 1
  /\ UNCHANGED <<entry, pc, build, src, dep, got, written, opened, builds, cut>>

Next ==
  \/ \E p \in Proc :
       \/ \E clear \in BOOLEAN : Start(p, clear)
       \/ \E s \in Suffix : RemoveFile(p, s)
       \/ Cleared(p)
       \/ Validate(p) \/ Get(p) \/ GetDebugInfo(p) \/ GetLayoutPayload(p) \/ GetManifest(p)
       \/ Compile(p) \/ HashInputs(p) \/ OpenFile(p) \/ FillFile(p) \/ Stored(p)
       \/ Interrupt(p)
  \/ \E f \in File : Edit(f)

Spec == Init /\ [][Next]_vars

-----------------------------------------------------------------------------

(* The type invariant.                                                     *)
TypeOK ==
  /\ disk \in Inputs
  /\ entry \in [Suffix -> Payload \cup {Absent, Torn}]
  /\ pc \in [Proc -> Labels]
  /\ build \in [Proc -> 0..MaxBuilds]
  /\ src \in [Proc -> Inputs \cup {Nothing}]
  /\ dep \in [Proc -> Inputs \cup {Nothing}]
  /\ got \in [Proc -> [Suffix -> Payload \cup {Absent, Torn}]]
  /\ written \in [Proc -> 0..Len(WriteOrder)]
  /\ opened \in [Proc -> BOOLEAN]
  /\ builds \in 0..MaxBuilds
  /\ edits \in 0..MaxEdits
  /\ cut \in BOOLEAN

(* Wherever a .bin is, the others are.                                     *)
CompanionsThere ==
  entry["bin"] # Absent => \A s \in {"sym", "dbg", "dep"} : entry[s] # Absent

(* "Writes sidecars first, binary last, so an interrupted run never leaves *)
(* a .bin without companions": wherever a store was killed, though not     *)
(* where a --cache-clear was.                                              *)
BinHasCompanions == ~cut => CompanionsThere

(* A .bin that a manifest vouches for was written by the build that wrote  *)
(* the manifest, so validating the manifest says something about the .bin; *)
(* until a clear that was killed half way is made good.                    *)
EntryIsOfOneBuild ==
  (\A p \in Proc : pc[p] # "store") /\ ~cut /\ entry["bin"] \in Payload /\ Valid
    => \A s \in {"sym", "dbg", "dep"} : entry[s] \in Payload /\ entry[s].by = entry["bin"].by

(* What a hit takes fits together: the binary, the indices to patch in it  *)
(* and the instance tree are those of one build; again unless half a clear *)
(* has gone before.                                                        *)
HitIsOfOneBuild ==
  \A p \in Proc : pc[p] = "hit" /\ ~cut =>
    /\ got[p]["bin"] \in Payload
    /\ \A s \in {"dbg", "sym"} : got[p][s] \in Payload /\ got[p][s].by = got[p]["bin"].by

(* A hit serves code made of exactly the inputs the validated manifest     *)
(* names, and that manifest is what the parent gets to vouch with, also    *)
(* when a clear was killed and left a part of an entry.                    *)
HitMatchesManifest ==
  \A p \in Proc : pc[p] = "hit" =>
    /\ got[p]["bin"] \in Payload
    /\ got[p]["bin"].of = dep[p]

(* A build is told that a sidecar is missing only if a clear was killed,   *)
(* and nothing has been stored whole since.                                *)
NoMissingSidecar == \A p \in Proc : pc[p] = "failed" => cut

(* What a finished build was made from, as an observer of the output sees  *)
(* it: the refinement mapping to builds without a cache.                   *)
Delivered(p) ==
  CASE pc[p] = "hit" -> IF got[p]["bin"] \in Payload THEN got[p]["bin"].of ELSE Torn
    [] pc[p] = "built" -> src[p]
    [] OTHER -> Nothing

Uncached == INSTANCE UncachedBuilds WITH delivered <- [p \in Proc |-> Delivered(p)]

(* Builds that share a cache deliver what builds without one deliver.      *)
ImplementsUncachedBuilds == Uncached!Spec

=============================================================================
