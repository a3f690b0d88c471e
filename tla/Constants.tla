----------------------------- MODULE Constants ------------------------------
(***************************************************************************)
(* The CON blocks of an object.  They are read up to four times, in order; *)
(* a constant is recorded in the first pass in which its expression is     *)
(* known and verified in the passes after it.  Constants of child objects  *)
(* are known from the third pass on, structures are declared in the last.  *)
(* An expression is a sum of names and a number.                           *)
(***************************************************************************)
EXTENDS Integers, Sequences, FiniteSetsExt

CONSTANTS LongBits,  \* bits of a constant
          Imported   \* the constants of child objects, by name

VARIABLES items,      \* the declarations of the blocks, in order
          overrides,  \* the constants the parent gives this object
          symbols,    \* the constants recorded so far, by name
          published,  \* what parents will see of them
          layouts,    \* the structures declared so far
          scan        \* the pass and where it is

constants == <<items, overrides, symbols, published, layouts, scan>>
Words == 2 ^ LongBits
NoExp == [refs |-> <<>>, k |-> 0]
NoError == ""
UndefinedSymbol == "undefined symbol"

AtStart(phase) == [phase |-> phase, at |-> 1, valid |-> TRUE, value |-> 0, step |-> 1,
                   unresolved |-> FALSE, linked |-> phase \in {"third", "must", "done"}, err |-> NoError]
ConstantsInit == /\ symbols = <<>> /\ published = <<>> /\ layouts = <<>>
                 /\ scan = AtStart("first")
----------------------------------------------------------------------------
Passing == scan.phase \in {"first", "again", "third", "must"} /\ scan.err = NoError
Item == items[scan.at]
On(kind) == Passing /\ scan.at <= Len(items) /\ Item.t = kind
MustResolve == scan.phase = "must"
Known(name) == name \in DOMAIN symbols

\* only an operator brings a value back to the width
ValueOf(name) == IF Known(name) THEN symbols[name] ELSE Imported[name]
Defined(exp) ==
  \A i \in DOMAIN exp.refs : Known(exp.refs[i]) \/ (scan.linked /\ exp.refs[i] \in DOMAIN Imported)
Total(k, values) == FoldFunction(LAMBDA a, b : a + b, k, values) % Words
GetValue(exp) ==
  IF Len(exp.refs) = 1 /\ exp.k = 0 THEN ValueOf(exp.refs[1])
  ELSE Total(exp.k, [i \in DOMAIN exp.refs |-> ValueOf(exp.refs[i])])

Moved == [scan EXCEPT !.at = @ + 1]
Failed(e) == scan' = [scan EXCEPT !.err = e] /\ UNCHANGED <<symbols, published, layouts>>
Overridden(name, v) == IF name \in DOMAIN overrides THEN overrides[name] ELSE v

RecordCONSymbolValue(name, v) ==
  LET value == Overridden(name, v)
  IN  /\ symbols' = [n \in DOMAIN symbols \cup {name} |-> IF n = name THEN value ELSE symbols[n]]
      /\ published' = Append(published, <<name, value>>)
      /\ UNCHANGED layouts

VerifySameValue(name, v, moved) ==
  IF symbols[name] # Overridden(name, v) THEN Failed("already defined")
  ELSE scan' = moved /\ UNCHANGED <<symbols, published, layouts>>
----------------------------------------------------------------------------
(* A new CON block, and #start[step].                                      *)

\* a slip: the enumeration goes on across blocks
StartBlockGoingOn == On("block") /\ scan' = Moved /\ UNCHANGED <<symbols, published, layouts>>

StartBlock ==
  /\ On("block")
  /\ scan' = [Moved EXCEPT !.valid = TRUE, !.value = 0, !.step = 1]
  /\ UNCHANGED <<symbols, published, layouts>>

DeclareEnum ==
  LET start == Defined(Item.exp)
      stepped == Defined(Item.step)
      opened == [Moved EXCEPT !.valid = start /\ stepped, !.unresolved = @ \/ ~start \/ ~stepped]
      valued == IF start THEN [opened EXCEPT !.value = GetValue(Item.exp), !.step = 1] ELSE opened
  IN  /\ On("enum")
      /\ IF MustResolve /\ (~start \/ ~stepped) THEN Failed(UndefinedSymbol)
         ELSE /\ scan' = IF stepped /\ Item.stepped THEN [valued EXCEPT !.step = GetValue(Item.step)] ELSE valued
              /\ UNCHANGED <<symbols, published, layouts>>
----------------------------------------------------------------------------
(* name = expression, name and name[expression], of a name that is new and *)
(* of one that is known.                                                   *)

Constant(kind) == On(kind) /\ (scan.phase = "first" => ~Known(Item.name))
Stepped(n) == [Moved EXCEPT !.value = @ + (scan.step * n)]

Undefined(e) ==
  IF MustResolve THEN Failed(UndefinedSymbol)
  ELSE scan' = [Moved EXCEPT !.unresolved = TRUE, !.valid = @ /\ e] /\ UNCHANGED <<symbols, published, layouts>>

SetConstant ==
  /\ Constant("set") /\ ~Known(Item.name)
  /\ IF Defined(Item.exp) THEN RecordCONSymbolValue(Item.name, GetValue(Item.exp)) /\ scan' = Moved
     ELSE Undefined(TRUE)
EnumConstant ==
  /\ Constant("plain") /\ ~Known(Item.name)
  /\ IF scan.valid THEN RecordCONSymbolValue(Item.name, scan.value) /\ scan' = Stepped(1)
     ELSE scan' = Moved /\ UNCHANGED <<symbols, published, layouts>>
SkipConstant ==
  /\ Constant("skip") /\ ~Known(Item.name)
  /\ CASE Defined(Item.exp) /\ scan.valid ->
            RecordCONSymbolValue(Item.name, scan.value) /\ scan' = Stepped(GetValue(Item.exp))
       [] Defined(Item.exp) /\ ~scan.valid -> 
            scan' = [Moved EXCEPT !.unresolved = TRUE] /\ UNCHANGED <<symbols, published, layouts>>
       [] OTHER -> Undefined(FALSE)

Verifiable(kind) == Constant(kind) /\ Known(Item.name)
VerifyConstant ==
  \/ /\ Verifiable("set")
     /\ IF Defined(Item.exp) THEN VerifySameValue(Item.name, GetValue(Item.exp), Moved) ELSE Failed(UndefinedSymbol)
  \/ /\ Verifiable("plain") /\ VerifySameValue(Item.name, scan.value, Stepped(1))
  \/ /\ Verifiable("skip")
     /\ IF Defined(Item.exp) THEN VerifySameValue(Item.name, scan.value, Stepped(GetValue(Item.exp)))
        ELSE Failed(UndefinedSymbol)
DefinedTwice ==
  /\ Passing /\ scan.phase = "first" /\ scan.at <= Len(items)
  /\ Item.t \in {"set", "plain", "skip"} /\ Known(Item.name)
  /\ Failed("unique name")
----------------------------------------------------------------------------
(* Structures, in the last pass; the end of a pass.                        *)

DeclareStructure ==
  /\ On("struct")
  /\ CASE ~MustResolve -> scan' = Moved /\ UNCHANGED <<symbols, published, layouts>>
       [] MustResolve /\ ~Defined(Item.exp) -> Failed(UndefinedSymbol)
       [] OTHER -> /\ layouts' = Append(layouts, <<Item.name, GetValue(Item.exp)>>)
                   /\ scan' = Moved
                   /\ UNCHANGED <<symbols, published>>

\* a slip: the blocks are read once before the objects are linked
AfterPassHurried ==
  CASE scan.phase = "third" -> "must"
    [] scan.phase = "must" -> "done"
    [] OTHER -> "link"

AfterPass ==
  CASE scan.phase = "first" /\ scan.unresolved -> "again"
    [] scan.phase = "third" -> "must"
    [] scan.phase = "must" -> "done"
    [] OTHER -> "link"

EndPass ==
  /\ Passing /\ scan.at > Len(items)
  /\ scan' = [AtStart(AfterPass) EXCEPT !.unresolved = scan.unresolved /\ AfterPass = "link"]
  /\ UNCHANGED <<symbols, published, layouts>>
LinkObjects ==
  /\ scan.phase = "link" /\ scan.err = NoError
  /\ scan' = AtStart(IF scan.unresolved THEN "third" ELSE "must")
  /\ UNCHANGED <<symbols, published, layouts>>

ConstantsNext ==
  /\ \/ StartBlock \/ DeclareEnum \/ SetConstant \/ EnumConstant \/ SkipConstant
     \/ VerifyConstant \/ DefinedTwice \/ DeclareStructure \/ EndPass \/ LinkObjects
  /\ UNCHANGED <<items, overrides>>
----------------------------------------------------------------------------
\* a constant of a child object is written with a dot, so none is declared here
Declares(i) == items[i].t \in {"set", "plain", "skip"}
Inputs ==
  /\ Len(items) \in Nat /\ DOMAIN items = 1..Len(items)
  /\ \A i \in DOMAIN items :
       /\ items[i].t \in {"block", "enum", "set", "plain", "skip", "struct"}
       /\ Declares(i) => items[i].name \notin DOMAIN Imported
       /\ \A e \in {items[i].exp, items[i].step} : DOMAIN e.refs = 1..Len(e.refs)
ConstantsSpec == Inputs /\ ConstantsInit /\ [][ConstantsNext]_constants

Done == scan.phase = "done"

\* the enumeration in front of every declaration, and behind the last: it starts again with every
\* block and with every '#'
Fresh == [value |-> 0, step |-> 1]
Behind(item, count) ==
  CASE item.t = "block" -> Fresh
    [] item.t = "enum" -> [value |-> GetValue(item.exp), step |-> IF item.stepped THEN GetValue(item.step) ELSE 1]
    [] item.t = "plain" -> [count EXCEPT !.value = @ + (count.step * 1)]
    [] item.t = "skip" -> [count EXCEPT !.value = @ + (count.step * GetValue(item.exp))]
    [] OTHER -> count
Enumeration[i \in 1..(Len(items) + 1)] == IF i = 1 THEN Fresh ELSE Behind(items[i - 1], Enumeration[i - 1])

Written(i) == IF items[i].t = "set" THEN GetValue(items[i].exp) ELSE Enumeration[i].value
DeclarationsHold ==
  Done => \A i \in DOMAIN items :
            Declares(i) => Known(items[i].name) /\ symbols[items[i].name] = Overridden(items[i].name, Written(i))

\* every structure once, in the order of the source, with constants that are all known
StructuresDeclared ==
  Done => \E at \in [DOMAIN layouts -> DOMAIN items] :
            /\ \A j, k \in DOMAIN layouts : j < k => at[j] < at[k]
            /\ {at[k] : k \in DOMAIN layouts} = {i \in DOMAIN items : items[i].t = "struct"}
            /\ \A k \in DOMAIN layouts : layouts[k] = <<items[at[k]].name, GetValue(items[at[k]].exp)>>

\* however many passes read it
PublishedAsRecorded ==
  /\ \A i, j \in DOMAIN published : published[i][1] = published[j][1] => i = j
  /\ {published[i] : i \in DOMAIN published} = {<<n, symbols[n]>> : n \in DOMAIN symbols}

\* When the constants are compiled, the declarations are true as equations: each constant is known
\* and has, or its parent gave it in place of, the value of its expression or of its place in an
\* enumeration, with the names in them read as they ended up (spinResolver.ts:5216).  That goes for
\* every declaration of a name that has several, and whichever of the passes recorded it (598).
\* Parents see each constant once and with that value; each structure is declared once, in order.
ConstantsDeclared == DeclarationsHold /\ StructuresDeclared /\ PublishedAsRecorded

\* the lines whose names a line needs: its own, or those of its enumeration from '#' on
Distinct == \A i, j \in DOMAIN items : Declares(i) /\ Declares(j) /\ items[i].name = items[j].name => i = j
RunBefore(a) == {j \in 1..(a - 1) : /\ items[j].t \in {"enum", "skip"}
                                   /\ \A b \in (j + 1)..(a - 1) : items[b].t \notin {"block", "enum"}}
Needs(i) == IF items[i].t \in {"set", "struct"} THEN {i} ELSE RunBefore(i + 1)
Expressions(i) == {items[i].exp} \cup (IF items[i].t = "enum" THEN {items[i].step} ELSE {})

\* if every constant is recorded in its pass, is a name known when line j is read in pass n?
KnownAt(name, j, n, passes) ==
  IF name \in DOMAIN Imported THEN n >= 3
  ELSE \E k \in DOMAIN passes : items[k].name = name /\ (passes[k] < n \/ (passes[k] = n /\ k < j))
ReadableAt(j, n, passes) ==
  \A exp \in Expressions(j) : \A x \in DOMAIN exp.refs : KnownAt(exp.refs[x], j, n, passes)
Resolves(passes) ==
  \A i \in DOMAIN items : \A j \in Needs(i) : ReadableAt(j, IF Declares(i) THEN passes[i] ELSE 4, passes)
ResolvedInFour == \E passes \in [{i \in DOMAIN items : Declares(i)} -> 1..4] : Resolves(passes)

\* The four passes are the limit (spinResolver.ts:598): constants that are declared once each are
\* compiled exactly if each can be given one of four passes in which to read it, so that the names
\* it needs are read in an earlier one, or in the same one in front of the line that needs them, or
\* are constants of a child object, which the third pass knows (613).  They are refused
\* because a name is undefined and for nothing else: no pass finds another value than an earlier one.
ChainsOfFour ==
  Distinct => /\ Done => ResolvedInFour
              /\ scan.err # NoError => scan.err = UndefinedSymbol /\ ~ResolvedInFour

\* No pass changes a constant that an earlier one recorded.
ValuesStay == [][\A n \in DOMAIN symbols : n \in DOMAIN symbols' /\ symbols'[n] = symbols[n]]_constants
=============================================================================
