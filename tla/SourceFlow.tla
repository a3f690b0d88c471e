----------------------------- MODULE SourceFlow -----------------------------
(***************************************************************************)
(* What a method of Spin2 means: which line of straight code may run after *)
(* which, read off the indentation of the source alone.                    *)
(***************************************************************************)
EXTENDS Integers, Sequences, FiniteSetsExt
VARIABLES lines, line

Chained == {"else", "elseif", "elseifnot", "while", "until", "match", "other"}

Parent(i) == LET up == {j \in 1 .. i - 1 : lines[j].col < lines[i].col}
             IN  IF up = {} THEN 0 ELSE Max(up)
\* the next line that is not deeper than line i, one past the end if none
Below(i) == Min({j \in i + 1 .. Len(lines) : lines[j].col <= lines[i].col}
                 \cup {Len(lines) + 1})
Follows(i, kinds) == LET j == Below(i)
                     IN  /\ j <= Len(lines)
                         /\ lines[j].col = lines[i].col
                         /\ lines[j].kind \in kinds
Arms(i) == {j \in i + 1 .. Below(i) - 1 : Parent(j) = i}

RECURSIVE Enclosing(_, _)
\* the loop that NEXT or QUIT with this level is about, 0 if there is none
Enclosing(i, level) ==
  LET p == Parent(i)
  IN  IF p = 0 THEN 0
      ELSE IF lines[p].kind # "repeat" THEN Enclosing(p, level)
      ELSE IF level = 0 THEN p ELSE Enclosing(p, level - 1)

RECURSIVE Arrive(_), After(_), Round(_)
\* the lines of straight code that may be next when control comes to line i
Arrive(i) ==
  IF i > Len(lines) THEN {i}
  ELSE LET l == lines[i]
           Body == Arrive(i + 1)
       IN CASE l.kind \in {"if", "ifnot", "elseif", "elseifnot"} ->
                 Body \cup (IF Follows(i, {"else", "elseif", "elseifnot"})
                            THEN Arrive(Below(i)) ELSE After(i))
            [] l.kind = "else" -> Body
            [] l.kind \in {"case", "case_fast"} ->
                 UNION {Arrive(j + 1) : j \in Arms(i)}
                   \cup (IF \E j \in Arms(i) : lines[j].kind = "other" THEN {} ELSE After(i))
            [] l.kind = "repeat" ->
                 CASE l.how \in {"while", "until", "count"} -> Body \cup After(i)
                   [] l.how = "never" -> After(i)
                   [] OTHER -> Body
            [] l.kind = "next" -> Round(Enclosing(i, l.level))
            [] l.kind = "quit" -> After(Enclosing(i, l.level))
            [] OTHER -> {i}

\* when the statement of line i is done
After(i) ==
  LET j == Below(i) p == Parent(i)
  IN  IF j <= Len(lines) /\ lines[j].col = lines[i].col
      THEN IF lines[j].kind \in Chained THEN After(j) ELSE Arrive(j)
      ELSE IF p = 0 THEN {Len(lines) + 1}
      ELSE IF lines[p].kind = "repeat" THEN Round(p)
      ELSE IF lines[p].kind \in {"match", "other"} THEN After(Parent(p))
      ELSE After(p)

\* when the body of the loop of line i is done, or cut short by NEXT
Round(i) ==
  CASE lines[i].how = "plain" ->
         Arrive(i + 1) \cup (IF Follows(i, {"while", "until"}) THEN After(i) ELSE {})
    [] lines[i].how \in {"while", "until"} -> Arrive(i)
    [] OTHER -> Arrive(i + 1) \cup After(i)

Init == line = 0
Next == /\ line' \in IF line = 0 THEN Arrive(1)
                     ELSE IF line > Len(lines) \/ lines[line].kind = "return" THEN {}
                     ELSE After(line)
        /\ UNCHANGED lines
=============================================================================
