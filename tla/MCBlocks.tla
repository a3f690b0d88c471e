------------------------------- MODULE MCBlocks -------------------------------
(* Methods of two nested blocks around an exit, with straight code of a few   *)
(* sizes between them.                                                        *)
EXTENDS Blocks, FiniteSetsExt

Outer == {"if", "ifnot", "ifelse", "if_long", "case", "case_long", "case_fast", "fast_plain",
          "fast_twice", "other_first", "no_match", "plain", "post", "while", "until",
          "count", "always", "never", "with", "from", "step"}
Inner == {"ifelse", "case", "case_fast", "plain", "post", "while", "count", "always", "from"}
Exits == {<<"none", 0>>, <<"next", 0>>, <<"quit", 0>>, <<"next", 1>>, <<"quit", 1>>}
Pads == {1, 60, 8200}

Flow == INSTANCE SourceFlow

L(col, kind, n) == [col |-> col, kind |-> kind, n |-> n, level |-> 0, how |-> "", vals |-> <<>>]
Code(n) == <<L(1, "code", n)>>
Deeper(b, d) == [k \in DOMAIN b |-> [b[k] EXCEPT !.col = @ + d]]
Match(lo, hi) == <<[L(2, "match", 0) EXCEPT !.vals = <<<<lo, lo>>, <<hi, hi + 1>>>>]>>
Repeat(how, b) == <<[L(1, "repeat", 2) EXCEPT !.how = how]>> \o Deeper(b, 1)

Wrap(kind, b) ==
  CASE kind \in {"if", "ifnot"} -> <<L(1, kind, 2)>> \o Deeper(b, 1)
    [] kind = "ifelse" ->
         <<L(1, "if", 2)>> \o Deeper(Code(3), 1) \o <<L(1, "elseifnot", 2)>> \o Deeper(b, 1)
           \o <<L(1, "else", 0)>> \o Deeper(Code(3), 1)
    [] kind = "if_long" ->
         <<L(1, "if", 2)>> \o Deeper(b, 1) \o <<L(1, "elseif", 2)>> \o Deeper(Code(3), 1)
           \o <<L(1, "elseif", 2)>> \o Deeper(Code(3), 1)
    [] kind = "case_long" ->
         <<L(1, "case", 2)>> \o Match(1, 3) \o Deeper(Code(3), 2) \o Match(5, 7)
           \o Deeper(b, 2) \o Match(9, 11) \o Deeper(Code(3), 2)
    [] kind \in {"case", "case_fast"} ->
         <<L(1, kind, 2)>> \o Match(7, 9) \o Deeper(Code(3), 2) \o Match(1, 3) \o Deeper(b, 2)
           \o <<L(2, "other", 0)>> \o Deeper(Code(3), 2)
    [] kind = "fast_plain" -> <<L(1, "case_fast", 2)>> \o Match(1, 3) \o Deeper(b, 2)
    [] kind = "fast_twice" -> <<L(1, "case_fast", 2)>> \o Match(1, 3) \o Deeper(b, 2)
                                \o Match(4, 6) \o Deeper(Code(3), 2)
    [] kind = "other_first" -> <<L(1, "case", 2), L(2, "other", 0)>> \o Deeper(b, 2)
                                 \o Match(4, 6) \o Deeper(Code(3), 2)
    [] kind = "no_match" -> <<L(1, "case", 2), L(2, "other", 0)>> \o Deeper(b, 2)
    [] kind = "post" -> Repeat("plain", b) \o <<L(1, "until", 2)>>
    [] OTHER -> Repeat(kind, b)

Exit(x) == IF x[1] = "none" THEN <<>>
           ELSE <<L(1, "if", 1), [L(2, x[1], 0) EXCEPT !.level = x[2]]>>

Method(o, i, x, p) ==
  Wrap(o, Code(1) \o Wrap(i, Code(1) \o Exit(x) \o Code(p)) \o Code(1)) \o Code(1)

Idle == image = Blank /\ pc = -1 /\ stack = <<>> /\ line = 0
Init == /\ \E o \in Outer, i \in Inner, x \in Exits, p \in Pads : lines = Method(o, i, x, p)
        /\ Idle

\* a loop with both exits in an alternative, near the distance of 64 bytes at
\* which a branch grows
Near(p, q) ==
  <<[L(1, "repeat", 0) EXCEPT !.how = "plain"],
    L(2, "if", 2), L(3, "code", 70),
    L(2, "else", 0), L(3, "code", 70),
    L(3, "if", 2), L(4, "next", 0),
    L(3, "if", 2), L(4, "quit", 0),
    L(3, "code", p),
    L(1, "until", q), L(1, "code", 1)>>
NearInit == /\ \E p \in 40 .. 64, q \in 1 .. 9 : lines = Near(p, q)
            /\ Idle
NearSpec == NearInit /\ [][Next]_vars
----------------------------------------------------------------------------
Running == pc # -1

\* longs that the blocks around a line keep on the stack
RECURSIVE Kept(_)
Kept(i) ==
  LET p == Flow!Parent(i)
  IN  IF p = 0 THEN 0
      ELSE Kept(p) + CASE lines[p].kind = "case" -> 2
                       [] lines[p].kind = "case_fast" -> 1
                       [] lines[p].kind = "repeat" /\ lines[p].how \in {"count", "always"} -> 1
                       [] lines[p].kind = "repeat" /\ lines[p].how \in {"with", "from", "step"} -> 4
                       [] OTHER -> 0

\* A branch, the table of a CASE_FAST or an address on the stack that is off
\* by one byte runs an operand as bytecode (spinResolver.ts:7788, 4237).
OnInstruction == Running => \E x \in ToSet(image.out) : x.at = pc

\* Whatever path led to a line, the stack holds what the blocks around the line
\* put there: NEXT and QUIT drop what the blocks they leave had pushed, no more
\* and no less (spinResolver.ts:6159).
StackLevel ==
  Running => \A x \in ToSet(image.out) :
               x.at = pc /\ x.op = "code" => Len(stack) = Kept(x.line)

\* The compiled method runs its lines in an order that the indented source
\* allows, and every step it takes is one of the source's.
FollowsSource == Flow!Init /\ [][Flow!Next]_<<lines, line>>

\* Two alternatives of a CASE_FAST with one value, a match behind OTHER, a
\* CASE without a match or with too many, a chain with as many ELSEIFs as its
\* limit (the text of the error allows them, but their last slot was never
\* filled) and an exit that is not inside enough loops are refused, and
\* nothing else is: no block is compiled for ever (spinResolver.ts:7807).
Misplaced ==
  \/ \E i \in DOMAIN lines : lines[i].kind \in {"next", "quit"}
                               /\ Flow!Enclosing(i, lines[i].level) = 0
  \/ \E i \in DOMAIN lines :
       Cardinality({j \in DOMAIN lines : /\ lines[j].kind \in {"elseif", "elseifnot"}
                                         /\ Flow!Parent(j) = Flow!Parent(i)
                                         /\ lines[j].col = lines[i].col}) >= IfLimit
  \/ \E i \in DOMAIN lines :
       /\ lines[i].kind \in {"case", "case_fast"}
       /\ LET arms == Flow!Arms(i)
              hit(j) == {v[1] .. v[2] : v \in ToSet(lines[j].vals)}
          IN  \/ Cardinality({j \in arms : lines[j].kind = "match"}) > CaseLimit
              \/ ~ \E j \in arms : lines[j].kind = "match"
              \/ \E j, k \in arms : j < k /\ lines[j].kind = "other"
              \/ /\ lines[i].kind = "case_fast"
                 /\ \E j, k \in arms : j < k /\ UNION hit(j) \cap UNION hit(k) # {}
RefusesExactly == image # Blank => (image.err # "" <=> Misplaced)

\* Each value between the least and the greatest of a CASE_FAST selects the
\* first line of the alternative that lists it (spinResolver.ts:4187).
TableSelects ==
  image.err = "" =>
    \A t \in ToSet(image.out) : t.op = "table" =>
      LET arms == {j \in Flow!Arms(t.line) : lines[j].kind = "match"}
          least == Min({v[1] : v \in UNION {ToSet(lines[j].vals) : j \in arms}})
      IN  \A j \in arms : \A v \in ToSet(lines[j].vals) : \A a \in v[1] .. v[2] :
            \E x \in ToSet(image.out) : /\ x.at = t.at + t.to[a - least + 1]
                                        /\ x.line = j + 1
=============================================================================
