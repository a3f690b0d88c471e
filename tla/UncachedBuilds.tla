--------------------------- MODULE UncachedBuilds ---------------------------
(***************************************************************************)
(* What the object cache promises: a build that uses it delivers what a    *)
(* build without it would.  Here there is no cache.  A build of an object  *)
(* reads the input files and delivers code made of what they contain;      *)
(* between builds anybody may edit a file, and a build may fail or be      *)
(* killed and deliver nothing.                                             *)
(***************************************************************************)
CONSTANTS
  Proc,      (* compiler processes                                        *)
  File,      (* input files of the object's subtree                       *)
  Version,   (* contents a file may have                                  *)
  Nothing    (* what a process without a finished build delivers          *)

VARIABLES
  disk,      (* disk[f]: the contents of file f                           *)
  delivered  (* delivered[p]: the contents the last finished build of     *)
             (* process p was made from                                   *)

vars == <<disk, delivered>>

Init ==
  /\ disk \in [File -> Version]
  /\ delivered = [p \in Proc |-> Nothing]

Edit(f) ==
  /\ \E v \in Version : disk' = [disk EXCEPT ![f] = v]
  /\ UNCHANGED delivered

Deliver(p) ==
  /\ delivered' = [delivered EXCEPT ![p] = disk]
  /\ UNCHANGED disk

Forget(p) ==
  /\ delivered' = [delivered EXCEPT ![p] = Nothing]
  /\ UNCHANGED disk

Next ==
  \/ \E f \in File : Edit(f)
  \/ \E p \in Proc : Deliver(p) \/ Forget(p)

Spec == Init /\ [][Next]_vars

=============================================================================
