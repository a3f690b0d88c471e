----------------------------- MODULE DebugTable -----------------------------
(***************************************************************************)
(* What the DEBUG record table of one compile promises.                    *)
(*                                                                         *)
(* Every debug() statement enters one record and is handed a BRK code; the *)
(* code is baked into the object code and, at run time, selects the record *)
(* the debugger displays.  The table is a sequence of different records    *)
(* and the code of a record is its position.  DebugData implements this    *)
(* with a table of offsets in front of a byte image (debugData.ts).        *)
(***************************************************************************)
EXTENDS Naturals, Sequences

CONSTANTS
  Record,      (* the records debug() statements may enter              *)
  MaxEntries   (* DebugData.MAX_ENTRIES, 255 in the code: a BRK code is *)
               (* one byte and 0 means "no record"                      *)

VARIABLES
  table,   (* the records entered so far, in index order                *)
  issued,  (* history: every <<record, code>> handed to an object       *)
  failed   (* the compile was stopped by one of the DEBUG limits        *)

vars == <<table, issued, failed>>

-----------------------------------------------------------------------------

Holds(t, r) == \E i \in 1..Len(t) : t[i] = r

IndexOf(t, r) == CHOOSE i \in 1..Len(t) : t[i] = r

(* The code a record gets, and the table after it was entered.  A record  *)
(* that is already there keeps its place; any other goes to the end.      *)
CodeOf(t, r)  == IF Holds(t, r) THEN IndexOf(t, r) ELSE Len(t) + 1
Entered(t, r) == IF Holds(t, r) THEN t ELSE Append(t, r)

-----------------------------------------------------------------------------

Init ==
  /\ table = << >>
  /\ issued = {}
  /\ failed = FALSE

(* debugEnterRecord while compiling, injectRecord while replaying a hit.   *)
Enter(r) ==
  /\ ~failed
  /\ Holds(table, r) \/ Len(table) < MaxEntries
  /\ table' = Entered(table, r)
  /\ issued' = issued \cup {<<r, CodeOf(table, r)>>}
  /\ UNCHANGED failed

(* A limit is hit: the compile stops and the table stays as it was.        *)
Reject ==
  /\ ~failed
  /\ failed' = TRUE
  /\ UNCHANGED <<table, issued>>

Next == (\E r \in Record : Enter(r)) \/ Reject

Spec == Init /\ [][Next]_vars

-----------------------------------------------------------------------------

(* The type invariant.                                                     *)
TypeOK ==
  /\ table \in Seq(Record)
  /\ Len(table) <= MaxEntries
  /\ issued \subseteq Record \X (1..MaxEntries)
  /\ failed \in BOOLEAN

(* No record is in the table twice.  The walk of injectRecord stops at the *)
(* first match, so a second copy would be dead weight against the 255      *)
(* entries and would make replayed tables depend on history.               *)
NoDuplicates ==
  \A i, j \in 1..Len(table) : table[i] = table[j] => i = j

(* Every BRK code ever handed out still selects the record it was handed   *)
(* out for, whatever was entered since, and after a limit was hit.         *)
CodesResolve ==
  \A p \in issued : p[2] <= Len(table) /\ table[p[2]] = p[1]

(* Nobody is handed two codes for one record: compiling a statement again, *)
(* or replaying it from the cache, gives the code it had.                  *)
OneCodePerRecord ==
  \A p, q \in issued : p[1] = q[1] => p[2] = q[2]

(* An entry, once there, is never moved or replaced by a later step.       *)
EntriesNeverMove ==
  [][/\ Len(table) <= Len(table')
     /\ \A i \in 1..Len(table) : table'[i] = table[i]]_vars

=============================================================================
