--------------------------- MODULE ConditionalText --------------------------
(***************************************************************************)
(* What conditional compilation promises of a file.  Every conditional is  *)
(* open, taken or closed: "seeking" a branch whose condition holds, in a   *)
(* branch that is "taken", or "closed", because a branch was taken before  *)
(* or an enclosing conditional is not in one.  A line of text is kept if   *)
(* all conditionals around it are taken, and dropped otherwise; a symbol   *)
(* is defined, removed or exported only there.  Left open are what a       *)
(* branch after #else does, except that nothing is taken inside a branch   *)
(* that is not, and where a file is included; it may export symbols too.   *)
(***************************************************************************)
EXTENDS Sequences, Naturals

CONSTANTS
  Symbols,      (* symbols a file may name                                 *)
  Builtins,     (* symbols that are always defined                         *)
  Private       (* symbols that may not be exported                        *)

VARIABLES
  levels,   (* the open conditionals, innermost last                       *)
  defined,  (* the symbols defined here                                    *)
  exported, (* the symbols defined in the files that follow                *)
  fate,     (* fate[n]: what became of line n                              *)
  outcome   (* "reading", "done" or "failed"                               *)

vars == <<levels, defined, exported, fate, outcome>>

Level == [state : {"seeking", "taken", "closed"}, sawElse : BOOLEAN]

AllTaken(ls) == \A i \in 1..Len(ls) : ls[i].state = "taken"

Top == levels[Len(levels)]

Below == SubSeq(levels, 1, Len(levels) - 1)

Init ==
  /\ levels = <<>>
  /\ exported \in SUBSET (Symbols \cup Builtins)
  /\ defined = Builtins \cup exported
  /\ fate = <<>>
  /\ outcome = "reading"

(* A line of text that is kept reads as line m; other lines have no text.  *)
Kept(m) == [is |-> "kept", as |-> m]

Became(f) == [is |-> f, as |-> 0]

(* One line is read; what becomes of it is f.                              *)
Line(f) ==
  /\ outcome = "reading"
  /\ fate' = Append(fate, f)
  /\ UNCHANGED outcome

Text ==
  /\ Line(IF AllTaken(levels) THEN Kept(Len(fate) + 1) ELSE Became("dropped"))
  /\ UNCHANGED <<levels, defined, exported>>

(* Comments, and directives that change nothing.                           *)
Other ==
  /\ Line(Became("none"))
  /\ UNCHANGED <<levels, defined, exported>>

(* Another file is included; its own conditionals say what it exports.     *)
Include ==
  /\ Line(Became("included"))
  /\ \E new \in SUBSET (Symbols \ Private) : exported' = exported \cup new
  /\ UNCHANGED <<levels, defined>>

Declare ==
  /\ Line(Became("none"))
  /\ AllTaken(levels)
  /\ \E s \in Symbols :
       \/ defined' = defined \cup {s} /\ UNCHANGED exported
       \/ s \notin Builtins /\ defined' = defined \ {s} /\ UNCHANGED exported
       \/ s \notin Private /\ exported' = exported \cup {s} /\ UNCHANGED defined
  /\ UNCHANGED levels

(* A branch whose condition is that s is defined, or (~wanted) is not.     *)
Chosen(s, wanted) == IF (s \in defined) = wanted THEN "taken" ELSE "seeking"

If ==
  /\ Line(Became("none"))
  /\ \E s \in Symbols, wanted \in BOOLEAN :
       levels' = Append(levels,
                   [state |-> IF AllTaken(levels) THEN Chosen(s, wanted) ELSE "closed",
                    sawElse |-> FALSE])
  /\ UNCHANGED <<defined, exported>>

ElseIf ==
  /\ Line(Became("none"))
  /\ levels # <<>> /\ ~Top.sawElse
  /\ \E s \in Symbols, wanted \in BOOLEAN :
       levels' = Append(Below, [Top EXCEPT !.state =
                   IF @ = "seeking" THEN Chosen(s, wanted) ELSE "closed"])
  /\ UNCHANGED <<defined, exported>>

Else ==
  /\ Line(Became("none"))
  /\ levels # <<>> /\ ~Top.sawElse
  /\ levels' = Append(Below,
                 [state |-> IF Top.state = "seeking" THEN "taken" ELSE "closed", sawElse |-> TRUE])
  /\ UNCHANGED <<defined, exported>>

(* #else, #elseifdef or #elseifndef after #else.                           *)
AfterElse ==
  /\ Line(Became("none"))
  /\ levels # <<>> /\ Top.sawElse
  /\ \E new \in Level :
       /\ new.sawElse
       /\ AllTaken(Below) \/ new.state = "closed"
       /\ levels' = Append(Below, new)
  /\ UNCHANGED <<defined, exported>>

Endif ==
  /\ Line(Became("none"))
  /\ levels # <<>>
  /\ levels' = Below
  /\ UNCHANGED <<defined, exported>>

(* The end of a file whose conditionals are all closed.                    *)
Finish ==
  /\ outcome = "reading" /\ levels = <<>>
  /\ outcome' = "done"
  /\ UNCHANGED <<levels, defined, exported, fate>>

(* The next file of the compile.                                           *)
Following ==
  /\ outcome = "done"
  /\ outcome' = "reading"
  /\ defined' = Builtins \cup exported
  /\ fate' = <<>>
  /\ UNCHANGED <<levels, exported>>

(* A mistake was found: nothing is delivered.                              *)
Fail ==
  /\ outcome = "reading"
  /\ outcome' = "failed"
  /\ levels' = <<>> /\ defined' = {} /\ exported' = {} /\ fate' = <<>>

Next ==
  \/ Text \/ Other \/ Include \/ Declare
  \/ If \/ ElseIf \/ Else \/ AfterElse \/ Endif
  \/ Finish \/ Following \/ Fail

Spec == Init /\ [][Next]_vars

=============================================================================
