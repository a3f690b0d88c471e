---------------------------- MODULE MCCacheStore ----------------------------
(***************************************************************************)
(* CacheStore on one entry with two input files of two versions each.      *)
(* Builds run one behind the other: either nothing interrupts them and the *)
(* inputs are edited between them, or they are killed, also while they     *)
(* clear the directory, and the inputs stay.                               *)
(***************************************************************************)
EXTENDS CacheStore, TLC

VARIABLE interrupted   (* which of the two                                 *)

Interrupted(p) == pc[p] \notin Ended /\ pc'[p] = "idle"
StoreInit == interrupted \in BOOLEAN /\ Init
StoreNext ==
  /\ Next
  /\ IF interrupted THEN UNCHANGED disk ELSE \A p \in Proc : ~Interrupted(p)
  /\ UNCHANGED interrupted
StoreSpec == StoreInit /\ [][StoreNext]_<<interrupted, vars>>
=============================================================================
