-------------------------- MODULE Constants_proofs ---------------------------
(***************************************************************************)
(* What the passes over the CON blocks come to, for all declarations, all  *)
(* constants of child objects and all overrides of the parent: what is     *)
(* compiled is true as equations, and four passes are the limit of what    *)
(* is compiled.                                                            *)
(***************************************************************************)
EXTENDS Constants, SequenceTheorems, WellFoundedInduction, TLAPS

Phases == {"first", "again", "link", "third", "must", "done"}

(* The passes and the place in them.                                       *)
Shape ==
  /\ DOMAIN scan = {"phase", "at", "valid", "value", "step", "unresolved", "linked", "err"}
  /\ scan.phase \in Phases
  /\ scan.at \in 1..(Len(items) + 1)
  /\ scan.linked = (scan.phase \in {"third", "must", "done"})

(* Every constant is one that the blocks declare, so none has the name of  *)
(* a constant of a child object.                                           *)
OwnSymbols == \A n \in DOMAIN symbols : n \notin DOMAIN Imported

Published == \E S : published \in Seq(S)

(* Every name of an expression has a value that no later declaration can   *)
(* change.                                                                 *)
ExpSettled(exp) == \A i \in DOMAIN exp.refs : Known(exp.refs[i]) \/ exp.refs[i] \in DOMAIN Imported
Settled(i) ==
  /\ items[i].t \in {"set", "skip", "enum", "struct"} => ExpSettled(items[i].exp)
  /\ items[i].t = "enum" /\ items[i].stepped => ExpSettled(items[i].step)

(* What v and s have to be, for the enumeration to run through place i     *)
(* with the values v and the steps s; and what the declaration says then.  *)
Counts(v, s, i) ==
  /\ items[i].t = "block" => v[i + 1] = 0 /\ s[i + 1] = 1
  /\ items[i].t = "enum" => /\ v[i + 1] = GetValue(items[i].exp)
                            /\ s[i + 1] = IF items[i].stepped THEN GetValue(items[i].step) ELSE 1
  /\ items[i].t = "plain" => v[i + 1] = v[i] + (s[i] * 1) /\ s[i + 1] = s[i]
  /\ items[i].t = "skip" => v[i + 1] = v[i] + (s[i] * GetValue(items[i].exp)) /\ s[i + 1] = s[i]
  /\ items[i].t \in {"set", "struct"} => v[i + 1] = v[i] /\ s[i + 1] = s[i]
Declared(i, v) ==
  /\ Known(items[i].name)
  /\ symbols[items[i].name] = Overridden(items[i].name, IF items[i].t = "set" THEN GetValue(items[i].exp) ELSE v[i])

(* The declarations in front of place a hold, v and s being the value and  *)
(* the step of the enumeration there.                                      *)
HoldsAt(v, s, i) == Settled(i) /\ Counts(v, s, i) /\ (Declares(i) => Declared(i, v))
HoldUpTo(v, s, a) == v[1] = 0 /\ s[1] = 1 /\ \A i \in 1..(a - 1) : HoldsAt(v, s, i)
Holding(a) == \E v, s : HoldUpTo(v, s, a) /\ v[a] = scan.value /\ s[a] = scan.step

(* The structures in front of place a are laid out, in order.              *)
LaidAs(at, a) ==
  /\ \A j, k \in DOMAIN layouts : j < k => at[j] < at[k]
  /\ {at[k] : k \in DOMAIN layouts} = {i \in 1..(a - 1) : items[i].t = "struct"}
  /\ \A k \in DOMAIN layouts : layouts[k] = <<items[at[k]].name, GetValue(items[at[k]].exp)>>
Laid(a) ==
  /\ \E S : layouts \in Seq(S)
  /\ \E at \in [DOMAIN layouts -> 1..(a - 1)] : LaidAs(at, a)

MustInv == scan.phase = "must" => scan.valid = TRUE /\ Holding(scan.at) /\ Laid(scan.at)
DoneInv ==
  scan.phase = "done" =>
    /\ \E v, s : HoldUpTo(v, s, Len(items) + 1)
    /\ Laid(Len(items) + 1)
NoLayouts == scan.phase \notin {"must", "done"} => layouts = <<>>

Base == Inputs /\ Shape /\ OwnSymbols /\ Published /\ PublishedAsRecorded
IInv == Base /\ NoLayouts /\ MustInv /\ DoneInv

-----------------------------------------------------------------------------
(* Steps that leave the constants alone, and steps that record one.        *)

Same == UNCHANGED <<symbols, published>>
Recorded(name) ==
  \E w : /\ symbols' = [n \in DOMAIN symbols \cup {name} |-> IF n = name THEN w ELSE symbols[n]]
         /\ published' = Append(published, <<name, w>>)

(* Any step over one declaration.                                          *)
Over(i) ==
  /\ Passing /\ i = scan.at /\ i <= Len(items)
  /\ DOMAIN scan' = DOMAIN scan /\ scan'.phase = scan.phase /\ scan'.linked = scan.linked
  /\ UNCHANGED <<items, overrides>>
  /\ Same \/ (Declares(i) /\ ~Known(items[i].name) /\ Recorded(items[i].name))
Moves(i) == Over(i) /\ scan'.at = i + 1
Fails(i) == Over(i) /\ Same /\ UNCHANGED layouts /\ \E e : scan' = [scan EXCEPT !.err = e]

Steps ==
  StartBlock \/ DeclareEnum \/ SetConstant \/ EnumConstant \/ SkipConstant \/ VerifyConstant \/ DefinedTwice
    \/ DeclareStructure

(* A step over a declaration leads to the one behind it, in the same pass. *)
LEMMA PassingFacts ==
  ASSUME Base, Passing, scan.at <= Len(items), UNCHANGED <<items, overrides>>
  PROVE  /\ scan.at \in DOMAIN items /\ scan.at \in Nat
         /\ DOMAIN Moved = DOMAIN scan /\ Moved.at = scan.at + 1
         /\ Moved.phase = scan.phase /\ Moved.linked = scan.linked
         /\ Moved.value = scan.value /\ Moved.step = scan.step /\ Moved.valid = scan.valid
  BY DEF Base, Inputs, Shape, Moved

(* A step that reports an error changes nothing else.                      *)
LEMMA FailedFails ==
  ASSUME Base, Passing, scan.at <= Len(items), UNCHANGED <<items, overrides>>, NEW e, Failed(e)
  PROVE  Fails(scan.at)
<1>1. scan' = [scan EXCEPT !.err = e] /\ UNCHANGED <<symbols, published, layouts>>
  BY DEF Failed
<1>2. DOMAIN scan' = DOMAIN scan /\ scan'.phase = scan.phase /\ scan'.linked = scan.linked
  BY <1>1 DEF Base, Shape
<1> QED
  BY <1>1, <1>2 DEF Fails, Over, Same

(* Recording a constant adds one name to the symbols and one entry to what *)
(* is published.                                                           *)
LEMMA RecordRecords ==
  ASSUME NEW name, NEW v, RecordCONSymbolValue(name, v)
  PROVE  Recorded(name) /\ UNCHANGED layouts
  BY DEF RecordCONSymbolValue, Recorded

(* What a step of the last pass does with the declaration it reads.        *)
NewCount(i) ==
  /\ items[i].t = "block" => scan'.value = 0 /\ scan'.step = 1
  /\ items[i].t = "enum" => /\ scan'.value = GetValue(items[i].exp)
                            /\ scan'.step = IF items[i].stepped THEN GetValue(items[i].step) ELSE 1
  /\ items[i].t = "plain" => scan'.value = scan.value + (scan.step * 1) /\ scan'.step = scan.step
  /\ items[i].t = "skip" => /\ scan'.value = scan.value + (scan.step * GetValue(items[i].exp))
                            /\ scan'.step = scan.step
  /\ items[i].t \in {"set", "struct"} => scan'.value = scan.value /\ scan'.step = scan.step
NewConstant(i) ==
  Declares(i) => /\ items[i].name \in DOMAIN symbols'
                 /\ symbols'[items[i].name]
                      = Overridden(items[i].name, IF items[i].t = "set" THEN GetValue(items[i].exp) ELSE scan.value)
NewLayout(i) ==
  IF items[i].t = "struct" THEN layouts' = Append(layouts, <<items[i].name, GetValue(items[i].exp)>>)
  ELSE UNCHANGED layouts
MustStep(i) == scan'.valid = TRUE /\ Settled(i) /\ NewCount(i) /\ NewConstant(i) /\ NewLayout(i)

Good(i) == Moves(i) /\ IF scan.phase = "must" THEN MustStep(i) ELSE UNCHANGED layouts

(* The names of an expression that has a value now are known for good.     *)
LEMMA DefinedSettled == \A exp : Defined(exp) => ExpSettled(exp)
  BY DEF Defined, ExpSettled, Known

(* A new CON block starts the enumeration again at 0 in steps of 1.        *)
LEMMA BlockGood ==
  ASSUME Base, StartBlock, UNCHANGED <<items, overrides>>
  PROVE  Good(scan.at)
<1>1. Passing /\ scan.at <= Len(items) /\ items[scan.at].t = "block" /\ UNCHANGED <<symbols, published, layouts>>
  BY DEF StartBlock, On, Item
<1>2. /\ DOMAIN scan' = DOMAIN scan /\ scan'.phase = scan.phase /\ scan'.linked = scan.linked
      /\ scan'.at = scan.at + 1 /\ scan'.valid = TRUE /\ scan'.value = 0 /\ scan'.step = 1
  BY <1>1, PassingFacts DEF StartBlock, Base, Shape
<1>3. Moves(scan.at)
  BY <1>1, <1>2 DEF Moves, Over, Same
<1>4. MustStep(scan.at)
  BY <1>1, <1>2 DEF MustStep, Settled, NewCount, NewConstant, NewLayout, Declares
<1> QED
  BY <1>1, <1>3, <1>4 DEF Good

(* A #start[step] line takes its values from its expressions, or fails.    *)
LEMMA EnumGood ==
  ASSUME Base, DeclareEnum, UNCHANGED <<items, overrides>>, scan.phase = "must" => scan.valid = TRUE
  PROVE  Fails(scan.at) \/ Good(scan.at)
<1> DEFINE start == Defined(Item.exp)
           stepped == Defined(Item.step)
           opened == [Moved EXCEPT !.valid = start /\ stepped, !.unresolved = @ \/ ~start \/ ~stepped]
           valued == IF start THEN [opened EXCEPT !.value = GetValue(Item.exp), !.step = 1] ELSE opened
<1>1. Passing /\ scan.at <= Len(items) /\ items[scan.at].t = "enum" /\ Item = items[scan.at]
  BY DEF DeclareEnum, On, Item
<1>2. CASE MustResolve /\ (~start \/ ~stepped)
  BY <1>1, <1>2, FailedFails DEF DeclareEnum
<1>3. CASE ~(MustResolve /\ (~start \/ ~stepped))
  <2>1. /\ scan' = IF stepped /\ Item.stepped THEN [valued EXCEPT !.step = GetValue(Item.step)] ELSE valued
        /\ UNCHANGED <<symbols, published, layouts>>
    BY <1>3 DEF DeclareEnum
  <2>2. /\ DOMAIN opened = DOMAIN scan /\ opened.phase = scan.phase /\ opened.linked = scan.linked
        /\ opened.at = scan.at + 1 /\ opened.valid = (start /\ stepped)
    BY <1>1, PassingFacts DEF Base, Shape
  <2>3. /\ DOMAIN valued = DOMAIN scan /\ valued.phase = scan.phase /\ valued.linked = scan.linked
        /\ valued.at = scan.at + 1 /\ valued.valid = (start /\ stepped)
        /\ start => valued.value = GetValue(Item.exp) /\ valued.step = 1
    BY <2>2 DEF Base, Shape
  <2> HIDE DEF valued
  <2>4. /\ DOMAIN scan' = DOMAIN scan /\ scan'.phase = scan.phase /\ scan'.linked = scan.linked
        /\ scan'.at = scan.at + 1 /\ scan'.valid = (start /\ stepped)
    BY <2>1, <2>3 DEF Base, Shape
  <2>5. start /\ stepped =>
          /\ scan'.value = GetValue(Item.exp)
          /\ scan'.step = IF Item.stepped THEN GetValue(Item.step) ELSE 1
    BY <2>1, <2>3 DEF Base, Shape
  <2>6. Moves(scan.at)
    BY <1>1, <2>1, <2>4 DEF Moves, Over, Same
  <2>7. ASSUME scan.phase = "must" PROVE MustStep(scan.at)
    <3>1. start /\ stepped
      BY <1>3, <2>7 DEF MustResolve
    <3>2. Settled(scan.at)
      BY <1>1, <3>1, DefinedSettled DEF Settled
    <3> QED
      BY <1>1, <2>1, <2>4, <2>5, <3>1, <3>2 DEF MustStep, NewCount, NewConstant, NewLayout, Declares
  <2> QED
    BY <2>1, <2>6, <2>7 DEF Good
<1> QED
  BY <1>2, <1>3

(* A line whose expression has no value yet is skipped, or in the last     *)
(* pass fails.                                                             *)
LEMMA UndefinedSkips ==
  ASSUME Base, Passing, scan.at <= Len(items), UNCHANGED <<items, overrides>>, NEW e, Undefined(e)
  PROVE  Fails(scan.at) \/ Good(scan.at)
<1>1. CASE MustResolve
  BY <1>1, FailedFails DEF Undefined
<1>2. CASE ~MustResolve
  <2>1. scan' = [Moved EXCEPT !.unresolved = TRUE, !.valid = @ /\ e] /\ UNCHANGED <<symbols, published, layouts>>
    BY <1>2 DEF Undefined
  <2>2. /\ DOMAIN scan' = DOMAIN scan /\ scan'.phase = scan.phase /\ scan'.linked = scan.linked
        /\ scan'.at = scan.at + 1
    BY <2>1, PassingFacts DEF Base, Shape
  <2> QED
    BY <1>2, <2>1, <2>2 DEF Good, Moves, Over, Same, MustResolve
<1> QED
  BY <1>1, <1>2

(* A constant is recorded with its own value or with that of its parent.   *)
LEMMA RecordValue ==
  ASSUME NEW name, NEW v, RecordCONSymbolValue(name, v)
  PROVE  name \in DOMAIN symbols' /\ symbols'[name] = Overridden(name, v)
  BY DEF RecordCONSymbolValue, Known

(* The line a constant is read from.                                       *)
LEMMA ConstantFacts ==
  ASSUME NEW kind, Constant(kind)
  PROVE  Passing /\ scan.at <= Len(items) /\ items[scan.at].t = kind /\ Item = items[scan.at]
  BY DEF Constant, On, Item

(* A line of an enumeration moves the count on by n steps and changes      *)
(* nothing else of the pass.                                               *)
LEMMA SteppedFacts ==
  ASSUME Base, Passing, scan.at <= Len(items), UNCHANGED <<items, overrides>>, NEW n
  PROVE  /\ DOMAIN Stepped(n) = DOMAIN scan /\ Stepped(n).at = scan.at + 1
         /\ Stepped(n).phase = scan.phase /\ Stepped(n).linked = scan.linked /\ Stepped(n).valid = scan.valid
         /\ Stepped(n).value = scan.value + (scan.step * n) /\ Stepped(n).step = scan.step
  BY PassingFacts DEF Stepped, Base, Shape

(* name = expression records the value of the expression, or fails.        *)
LEMMA SetGood ==
  ASSUME Base, SetConstant, UNCHANGED <<items, overrides>>, scan.phase = "must" => scan.valid = TRUE
  PROVE  Fails(scan.at) \/ Good(scan.at)
<1>1. /\ Passing /\ scan.at <= Len(items) /\ items[scan.at].t = "set" /\ Item = items[scan.at]
      /\ ~Known(items[scan.at].name)
  BY ConstantFacts DEF SetConstant
<1>2. CASE ~Defined(Item.exp)
  BY <1>1, <1>2, UndefinedSkips DEF SetConstant
<1>3. CASE Defined(Item.exp)
  <2>1. RecordCONSymbolValue(Item.name, GetValue(Item.exp)) /\ scan' = Moved
    BY <1>3 DEF SetConstant
  <2>2. /\ Recorded(Item.name) /\ UNCHANGED layouts
        /\ Item.name \in DOMAIN symbols' /\ symbols'[Item.name] = Overridden(Item.name, GetValue(Item.exp))
    BY <2>1, RecordRecords, RecordValue
  <2>3. Moves(scan.at)
    BY <1>1, <2>1, <2>2, PassingFacts DEF Moves, Over, Declares
  <2>4. ASSUME scan.phase = "must" PROVE MustStep(scan.at)
    <3>1. Settled(scan.at)
      BY <1>1, <1>3, DefinedSettled DEF Settled
    <3>2. scan'.valid = TRUE /\ scan'.value = scan.value /\ scan'.step = scan.step
      BY <1>1, <2>1, <2>4, PassingFacts
    <3> QED
      BY <1>1, <2>2, <3>1, <3>2 DEF MustStep, NewCount, NewConstant, NewLayout, Declares
  <2> QED
    BY <2>2, <2>3, <2>4 DEF Good
<1> QED
  BY <1>2, <1>3

(* A plain name records the count, and the count goes one step on.         *)
LEMMA PlainGood ==
  ASSUME Base, EnumConstant, UNCHANGED <<items, overrides>>, scan.phase = "must" => scan.valid = TRUE
  PROVE  Fails(scan.at) \/ Good(scan.at)
<1>1. /\ Passing /\ scan.at <= Len(items) /\ items[scan.at].t = "plain" /\ Item = items[scan.at]
      /\ ~Known(items[scan.at].name)
  BY ConstantFacts DEF EnumConstant
<1>2. CASE ~scan.valid
  <2>1. scan' = Moved /\ UNCHANGED <<symbols, published, layouts>>
    BY <1>2 DEF EnumConstant
  <2>2. scan.phase # "must"
    BY <1>2
  <2> QED
    BY <1>1, <2>1, <2>2, PassingFacts DEF Good, Moves, Over, Same
<1>3. CASE scan.valid
  <2>1. RecordCONSymbolValue(Item.name, scan.value) /\ scan' = Stepped(1)
    BY <1>3 DEF EnumConstant
  <2>2. /\ Recorded(Item.name) /\ UNCHANGED layouts
        /\ Item.name \in DOMAIN symbols' /\ symbols'[Item.name] = Overridden(Item.name, scan.value)
    BY <2>1, RecordRecords, RecordValue
  <2>3. /\ DOMAIN scan' = DOMAIN scan /\ scan'.at = scan.at + 1
        /\ scan'.phase = scan.phase /\ scan'.linked = scan.linked /\ scan'.valid = scan.valid
        /\ scan'.value = scan.value + (scan.step * 1) /\ scan'.step = scan.step
    BY <1>1, <2>1, SteppedFacts
  <2>4. Moves(scan.at)
    BY <1>1, <2>2, <2>3 DEF Moves, Over, Declares
  <2>5. ASSUME scan.phase = "must" PROVE MustStep(scan.at)
    <3>1. Settled(scan.at)
      BY <1>1 DEF Settled
    <3> QED
      BY <1>1, <2>2, <2>3, <2>5, <3>1 DEF MustStep, NewCount, NewConstant, NewLayout, Declares
  <2> QED
    BY <2>2, <2>4, <2>5 DEF Good
<1> QED
  BY <1>2, <1>3

(* name[n] records the count, and the count goes n steps on.               *)
LEMMA SkipGood ==
  ASSUME Base, SkipConstant, UNCHANGED <<items, overrides>>, scan.phase = "must" => scan.valid = TRUE
  PROVE  Fails(scan.at) \/ Good(scan.at)
<1>1. /\ Passing /\ scan.at <= Len(items) /\ items[scan.at].t = "skip" /\ Item = items[scan.at]
      /\ ~Known(items[scan.at].name)
  BY ConstantFacts DEF SkipConstant
<1>2. CASE ~Defined(Item.exp)
  <2>1. Undefined(FALSE)
    BY <1>2 DEF SkipConstant
  <2> QED
    BY <1>1, <2>1, UndefinedSkips
<1>3. CASE Defined(Item.exp) /\ ~scan.valid
  <2>1. scan' = [Moved EXCEPT !.unresolved = TRUE] /\ UNCHANGED <<symbols, published, layouts>>
    BY <1>3 DEF SkipConstant
  <2>2. /\ DOMAIN scan' = DOMAIN scan /\ scan'.phase = scan.phase /\ scan'.linked = scan.linked
        /\ scan'.at = scan.at + 1
    BY <1>1, <2>1, PassingFacts DEF Base, Shape
  <2> QED
    BY <1>1, <1>3, <2>1, <2>2 DEF Good, Moves, Over, Same
<1>4. CASE Defined(Item.exp) /\ scan.valid
  <2>1. RecordCONSymbolValue(Item.name, scan.value) /\ scan' = Stepped(GetValue(Item.exp))
    BY <1>4 DEF SkipConstant
  <2>2. /\ Recorded(Item.name) /\ UNCHANGED layouts
        /\ Item.name \in DOMAIN symbols' /\ symbols'[Item.name] = Overridden(Item.name, scan.value)
    BY <2>1, RecordRecords, RecordValue
  <2>3. /\ DOMAIN scan' = DOMAIN scan /\ scan'.at = scan.at + 1
        /\ scan'.phase = scan.phase /\ scan'.linked = scan.linked /\ scan'.valid = scan.valid
        /\ scan'.value = scan.value + (scan.step * GetValue(Item.exp)) /\ scan'.step = scan.step
    BY <1>1, <2>1, SteppedFacts
  <2>4. Moves(scan.at)
    BY <1>1, <2>2, <2>3 DEF Moves, Over, Declares
  <2>5. ASSUME scan.phase = "must" PROVE MustStep(scan.at)
    <3>1. Settled(scan.at)
      BY <1>1, <1>4, DefinedSettled DEF Settled
    <3> QED
      BY <1>1, <2>2, <2>3, <2>5, <3>1 DEF MustStep, NewCount, NewConstant, NewLayout, Declares
  <2> QED
    BY <2>2, <2>4, <2>5 DEF Good
<1> QED
  BY <1>2, <1>3, <1>4

(* A constant met again in a later pass has the value it had, or the       *)
(* compile fails.                                                          *)
LEMMA SameValueVerified ==
  ASSUME Base, Passing, scan.at <= Len(items), UNCHANGED <<items, overrides>>, Declares(scan.at),
         Known(items[scan.at].name), NEW v, NEW moved, VerifySameValue(items[scan.at].name, v, moved)
  PROVE  \/ Fails(scan.at)
         \/ /\ scan' = moved /\ UNCHANGED <<symbols, published, layouts>>
            /\ symbols[items[scan.at].name] = Overridden(items[scan.at].name, v)
<1>1. CASE symbols[items[scan.at].name] # Overridden(items[scan.at].name, v)
  BY <1>1, FailedFails DEF VerifySameValue
<1>2. CASE symbols[items[scan.at].name] = Overridden(items[scan.at].name, v)
  BY <1>2 DEF VerifySameValue
<1> QED
  BY <1>1, <1>2

(* Verifying a constant that is recorded already moves the enumeration on  *)
(* as recording it did.                                                    *)
LEMMA VerifyGood ==
  ASSUME Base, VerifyConstant, UNCHANGED <<items, overrides>>, scan.phase = "must" => scan.valid = TRUE
  PROVE  Fails(scan.at) \/ Good(scan.at)
<1> DEFINE name == items[scan.at].name
<1>1. CASE Verifiable("set")
  <2>1. /\ Passing /\ scan.at <= Len(items) /\ items[scan.at].t = "set" /\ Item = items[scan.at]
        /\ Known(name)
    BY <1>1, ConstantFacts DEF Verifiable
  <2>2. CASE ~Defined(Item.exp)
    <3>1. Failed(UndefinedSymbol)
      BY <2>1, <2>2 DEF VerifyConstant, Verifiable, Constant, On
    <3> QED
      BY <2>1, <3>1, FailedFails
  <2>3. CASE Defined(Item.exp)
    <3>1. VerifySameValue(name, GetValue(Item.exp), Moved)
      BY <2>1, <2>3 DEF VerifyConstant, Verifiable, Constant, On
    <3>2. SUFFICES ASSUME ~Fails(scan.at) PROVE Good(scan.at)
      OBVIOUS
    <3>3. /\ scan' = Moved /\ UNCHANGED <<symbols, published, layouts>>
          /\ symbols[name] = Overridden(name, GetValue(Item.exp))
      BY <2>1, <3>1, <3>2, SameValueVerified DEF Declares
    <3>4. Moves(scan.at)
      BY <2>1, <3>3, PassingFacts DEF Moves, Over, Same
    <3>5. ASSUME scan.phase = "must" PROVE MustStep(scan.at)
      <4>1. Settled(scan.at)
        BY <2>1, <2>3, DefinedSettled DEF Settled
      <4>2. scan'.valid = TRUE /\ scan'.value = scan.value /\ scan'.step = scan.step
        BY <2>1, <3>3, <3>5, PassingFacts
      <4>3. name \in DOMAIN symbols'
        BY <2>1, <3>3 DEF Known
      <4> QED
        BY <2>1, <3>3, <4>1, <4>2, <4>3 DEF MustStep, NewCount, NewConstant, NewLayout, Declares
    <3> QED
      BY <3>3, <3>4, <3>5 DEF Good
  <2> QED
    BY <2>2, <2>3
<1>2. CASE Verifiable("plain")
  <2>1. /\ Passing /\ scan.at <= Len(items) /\ items[scan.at].t = "plain" /\ Item = items[scan.at]
        /\ Known(name)
    BY <1>2, ConstantFacts DEF Verifiable
  <2>2. VerifySameValue(name, scan.value, Stepped(1))
    BY <2>1 DEF VerifyConstant, Verifiable, Constant, On
  <2>3. SUFFICES ASSUME ~Fails(scan.at) PROVE Good(scan.at)
    OBVIOUS
  <2>4. /\ scan' = Stepped(1) /\ UNCHANGED <<symbols, published, layouts>>
        /\ symbols[name] = Overridden(name, scan.value)
    BY <2>1, <2>2, <2>3, SameValueVerified DEF Declares
  <2>5. /\ DOMAIN scan' = DOMAIN scan /\ scan'.at = scan.at + 1
        /\ scan'.phase = scan.phase /\ scan'.linked = scan.linked /\ scan'.valid = scan.valid
        /\ scan'.value = scan.value + (scan.step * 1) /\ scan'.step = scan.step
    BY <2>1, <2>4, SteppedFacts
  <2>6. Moves(scan.at)
    BY <2>1, <2>4, <2>5 DEF Moves, Over, Same
  <2>7. ASSUME scan.phase = "must" PROVE MustStep(scan.at)
    <3>1. Settled(scan.at) /\ name \in DOMAIN symbols'
      BY <2>1, <2>4 DEF Settled, Known
    <3> QED
      BY <2>1, <2>4, <2>5, <2>7, <3>1 DEF MustStep, NewCount, NewConstant, NewLayout, Declares
  <2> QED
    BY <2>4, <2>6, <2>7 DEF Good
<1>3. CASE Verifiable("skip")
  <2>1. /\ Passing /\ scan.at <= Len(items) /\ items[scan.at].t = "skip" /\ Item = items[scan.at]
        /\ Known(name)
    BY <1>3, ConstantFacts DEF Verifiable
  <2>2. CASE ~Defined(Item.exp)
    <3>1. Failed(UndefinedSymbol)
      BY <2>1, <2>2 DEF VerifyConstant, Verifiable, Constant, On
    <3> QED
      BY <2>1, <3>1, FailedFails
  <2>3. CASE Defined(Item.exp)
    <3>1. VerifySameValue(name, scan.value, Stepped(GetValue(Item.exp)))
      BY <2>1, <2>3 DEF VerifyConstant, Verifiable, Constant, On
    <3>2. SUFFICES ASSUME ~Fails(scan.at) PROVE Good(scan.at)
      OBVIOUS
    <3>3. /\ scan' = Stepped(GetValue(Item.exp)) /\ UNCHANGED <<symbols, published, layouts>>
          /\ symbols[name] = Overridden(name, scan.value)
      BY <2>1, <3>1, <3>2, SameValueVerified DEF Declares
    <3>4. /\ DOMAIN scan' = DOMAIN scan /\ scan'.at = scan.at + 1
          /\ scan'.phase = scan.phase /\ scan'.linked = scan.linked /\ scan'.valid = scan.valid
          /\ scan'.value = scan.value + (scan.step * GetValue(Item.exp)) /\ scan'.step = scan.step
      BY <2>1, <3>3, SteppedFacts
    <3>5. Moves(scan.at)
      BY <2>1, <3>3, <3>4 DEF Moves, Over, Same
    <3>6. ASSUME scan.phase = "must" PROVE MustStep(scan.at)
      <4>1. Settled(scan.at) /\ name \in DOMAIN symbols'
        BY <2>1, <2>3, <3>3, DefinedSettled DEF Settled, Known
      <4> QED
        BY <2>1, <3>3, <3>4, <3>6, <4>1 DEF MustStep, NewCount, NewConstant, NewLayout, Declares
    <3> QED
      BY <3>3, <3>5, <3>6 DEF Good
  <2> QED
    BY <2>2, <2>3
<1> QED
  BY <1>1, <1>2, <1>3 DEF VerifyConstant

(* A structure is laid out in the last pass, behind those laid out before  *)
(* it.                                                                     *)
LEMMA StructureGood ==
  ASSUME Base, DeclareStructure, UNCHANGED <<items, overrides>>, scan.phase = "must" => scan.valid = TRUE
  PROVE  Fails(scan.at) \/ Good(scan.at)
<1>1. Passing /\ scan.at <= Len(items) /\ items[scan.at].t = "struct" /\ Item = items[scan.at]
  BY DEF DeclareStructure, On, Item
<1>2. CASE ~MustResolve
  <2>1. scan' = Moved /\ UNCHANGED <<symbols, published, layouts>>
    BY <1>2 DEF DeclareStructure
  <2> QED
    BY <1>1, <1>2, <2>1, PassingFacts DEF Good, Moves, Over, Same, MustResolve
<1>3. CASE MustResolve /\ ~Defined(Item.exp)
  <2>1. Failed(UndefinedSymbol)
    BY <1>3 DEF DeclareStructure
  <2> QED
    BY <1>1, <2>1, FailedFails
<1>4. CASE MustResolve /\ Defined(Item.exp)
  <2>1. /\ layouts' = Append(layouts, <<Item.name, GetValue(Item.exp)>>)
        /\ scan' = Moved /\ UNCHANGED <<symbols, published>>
    BY <1>4 DEF DeclareStructure
  <2>2. Moves(scan.at)
    BY <1>1, <2>1, PassingFacts DEF Moves, Over, Same
  <2>3. Settled(scan.at)
    BY <1>1, <1>4, DefinedSettled DEF Settled
  <2>4. scan.phase = "must" /\ scan'.valid = TRUE /\ scan'.value = scan.value /\ scan'.step = scan.step
    BY <1>1, <1>4, <2>1, PassingFacts DEF MustResolve
  <2>5. MustStep(scan.at)
    BY <1>1, <2>1, <2>3, <2>4 DEF MustStep, NewCount, NewConstant, NewLayout, Declares
  <2> QED
    BY <2>2, <2>4, <2>5 DEF Good
<1> QED
  BY <1>2, <1>3, <1>4

(* A name that is defined twice fails.                                     *)
LEMMA TwiceFails ==
  ASSUME Base, DefinedTwice, UNCHANGED <<items, overrides>>
  PROVE  Fails(scan.at)
  BY FailedFails DEF DefinedTwice

(* Every step over a declaration fails or, in the last pass, makes that    *)
(* declaration true.                                                       *)
LEMMA StepsGood ==
  ASSUME Base, Steps, UNCHANGED <<items, overrides>>, scan.phase = "must" => scan.valid = TRUE
  PROVE  Fails(scan.at) \/ Good(scan.at)
  BY BlockGood, EnumGood, SetGood, PlainGood, SkipGood, VerifyGood, TwiceFails, StructureGood DEF Steps

-----------------------------------------------------------------------------
(* A value that is settled stays what it is.                               *)

Kept ==
  /\ \A n \in DOMAIN symbols : n \in DOMAIN symbols' /\ symbols'[n] = symbols[n]
  /\ \A n \in DOMAIN symbols' : n \in DOMAIN symbols \/ n \notin DOMAIN Imported
  /\ UNCHANGED <<items, overrides>>

(* No step over a declaration changes or hides a constant that is known.   *)
LEMMA OverKeeps ==
  ASSUME Base, Over(scan.at)
  PROVE  Kept
<1>1. scan.at \in DOMAIN items
  BY DEF Over, Base, Inputs, Shape
<1>2. CASE Same
  BY <1>2 DEF Over, Same, Kept
<1>3. CASE Declares(scan.at) /\ ~Known(items[scan.at].name) /\ Recorded(items[scan.at].name)
  <2>1. items[scan.at].name \notin DOMAIN Imported /\ items[scan.at].name \notin DOMAIN symbols
    BY <1>1, <1>3 DEF Base, Inputs, Known
  <2>2. PICK w : symbols' = [n \in DOMAIN symbols \cup {items[scan.at].name} |->
                               IF n = items[scan.at].name THEN w ELSE symbols[n]]
    BY <1>3 DEF Recorded
  <2> QED
    BY <2>1, <2>2 DEF Over, Kept
<1> QED
  BY <1>2, <1>3 DEF Over

(* A name that is known keeps its value.                                   *)
LEMMA ValueOfStays ==
  ASSUME Kept, NEW name, Known(name) \/ name \in DOMAIN Imported
  PROVE  ValueOf(name)' = ValueOf(name) /\ (Known(name)' \/ name \in DOMAIN Imported)
  BY DEF Kept, Known, ValueOf

(* An expression of known names keeps its value.                           *)
LEMMA GetValueStays ==
  ASSUME Kept, NEW exp, ExpSettled(exp), DOMAIN exp.refs = 1..Len(exp.refs)
  PROVE  GetValue(exp)' = GetValue(exp) /\ ExpSettled(exp)'
<1>1. \A i \in DOMAIN exp.refs : ValueOf(exp.refs[i])' = ValueOf(exp.refs[i])
  BY ValueOfStays DEF ExpSettled
<1>2. [i \in DOMAIN exp.refs |-> ValueOf(exp.refs[i])]' = [i \in DOMAIN exp.refs |-> ValueOf(exp.refs[i])]
  BY <1>1
<1>3. Len(exp.refs) = 1 => ValueOf(exp.refs[1])' = ValueOf(exp.refs[1])
  BY <1>1
<1>4. GetValue(exp)' = GetValue(exp)
  BY <1>2, <1>3 DEF GetValue
<1>5. ExpSettled(exp)'
  BY ValueOfStays DEF ExpSettled
<1> QED
  BY <1>4, <1>5

(* A declaration that is true stays true.                                  *)
LEMMA HoldsStays ==
  ASSUME Kept, Base, NEW i \in DOMAIN items, NEW v, NEW s, HoldsAt(v, s, i)
  PROVE  HoldsAt(v, s, i)'
<1>1. PICK e : e = items[i].exp
  OBVIOUS
<1>2. PICK t : t = items[i].step
  OBVIOUS
<1>3. e = items'[i].exp /\ t = items'[i].step /\ items' = items /\ overrides' = overrides
  BY <1>1, <1>2 DEF Kept
<1>4. DOMAIN e.refs = 1..Len(e.refs) /\ DOMAIN t.refs = 1..Len(t.refs)
  BY <1>1, <1>2 DEF Base, Inputs
<1>5. ExpSettled(e) => GetValue(e)' = GetValue(e) /\ ExpSettled(e)'
  BY <1>4, GetValueStays
<1>6. ExpSettled(t) => GetValue(t)' = GetValue(t) /\ ExpSettled(t)'
  BY <1>4, GetValueStays
<1>7. Settled(i)'
  BY <1>1, <1>2, <1>3, <1>5, <1>6 DEF HoldsAt, Settled
<1>8. Counts(v, s, i)'
  BY <1>1, <1>2, <1>3, <1>5, <1>6 DEF HoldsAt, Settled, Counts
<1>9. Declares(i)' => Declared(i, v)'
  <2>1. items[i].name \in DOMAIN symbols => symbols'[items[i].name] = symbols[items[i].name]
                                           /\ items[i].name \in DOMAIN symbols'
    BY DEF Kept
  <2> QED
    BY <1>1, <1>3, <1>5, <2>1 DEF HoldsAt, Settled, Declared, Declares, Known, Overridden
<1> QED
  BY <1>7, <1>8, <1>9 DEF HoldsAt

-----------------------------------------------------------------------------
(* What holds in front of every place.                                     *)

LEMMA HoldsLocally ==
  ASSUME NEW i \in Nat, NEW v, NEW s, NEW w, NEW r, HoldsAt(v, s, i),
         w[i] = v[i], w[i + 1] = v[i + 1], r[i] = s[i], r[i + 1] = s[i + 1]
  PROVE  HoldsAt(w, r, i)
  BY DEF HoldsAt, Counts, Declared

(* The declaration that a step of the last pass goes over is true behind   *)
(* it.                                                                     *)
LEMMA NewHolds ==
  ASSUME Base, Over(scan.at), MustStep(scan.at), NEW a, a = scan.at, NEW w, NEW r,
         w[a] = scan.value, w[a + 1] = scan'.value, r[a] = scan.step, r[a + 1] = scan'.step
  PROVE  HoldsAt(w, r, a)'
<1>1. a \in DOMAIN items /\ Kept
  BY OverKeeps DEF Base, Inputs, Shape, Over
<1>2. PICK e : e = items[a].exp
  OBVIOUS
<1>3. PICK t : t = items[a].step
  OBVIOUS
<1>4. e = items'[a].exp /\ t = items'[a].step /\ items' = items /\ overrides' = overrides
  BY <1>1, <1>2, <1>3 DEF Kept
<1>5. DOMAIN e.refs = 1..Len(e.refs) /\ DOMAIN t.refs = 1..Len(t.refs)
  BY <1>1, <1>2, <1>3 DEF Base, Inputs
<1>6. ExpSettled(e) => GetValue(e)' = GetValue(e) /\ ExpSettled(e)'
  BY <1>1, <1>5, GetValueStays
<1>7. ExpSettled(t) => GetValue(t)' = GetValue(t) /\ ExpSettled(t)'
  BY <1>1, <1>5, GetValueStays
<1>8. Settled(a)'
  BY <1>2, <1>3, <1>4, <1>6, <1>7 DEF MustStep, Settled
<1>9. Counts(w, r, a)'
  BY <1>2, <1>3, <1>4, <1>6, <1>7 DEF MustStep, Settled, NewCount, Counts
<1>10. Declares(a)' => Declared(a, w)'
  BY <1>2, <1>4, <1>6 DEF MustStep, Settled, NewConstant, Declared, Declares, Known, Overridden
<1> QED
  BY <1>8, <1>9, <1>10 DEF HoldsAt

(* With each step of the last pass, one more declaration is true.          *)
LEMMA Advances ==
  ASSUME Base, scan.phase = "must", Good(scan.at), Holding(scan.at)
  PROVE  Holding(scan.at)'
<1>1. PICK a : a = scan.at
  OBVIOUS
<1>2. a \in Nat \ {0} /\ Over(scan.at) /\ MustStep(scan.at) /\ scan'.at = a + 1 /\ 1..a \subseteq DOMAIN items
  BY <1>1 DEF Good, Moves, Over, Base, Inputs, Shape
<1>3. PICK v, s : HoldUpTo(v, s, a) /\ v[a] = scan.value /\ s[a] = scan.step
  BY <1>1 DEF Holding
<1>4. PICK x : x = scan'.value
  OBVIOUS
<1>5. PICK y : y = scan'.step
  OBVIOUS
<1> DEFINE w == [j \in 1..(a + 1) |-> IF j <= a THEN v[j] ELSE x]
           r == [j \in 1..(a + 1) |-> IF j <= a THEN s[j] ELSE y]
<1>6. w[1] = 0 /\ r[1] = 1 /\ w[a] = scan.value /\ r[a] = scan.step /\ w[a + 1] = x /\ r[a + 1] = y
  BY <1>2, <1>3 DEF HoldUpTo
<1>7. ASSUME NEW i \in 1..(a - 1) PROVE HoldsAt(w, r, i)'
  <2>1. i \in Nat /\ i \in DOMAIN items /\ w[i] = v[i] /\ w[i + 1] = v[i + 1] /\ r[i] = s[i] /\ r[i + 1] = s[i + 1]
    BY <1>2
  <2>2. HoldsAt(v, s, i)
    BY <1>3 DEF HoldUpTo
  <2> HIDE DEF w, r
  <2>3. HoldsAt(w, r, i)
    BY <2>1, <2>2, HoldsLocally
  <2> QED
    BY <1>2, <2>1, <2>3, OverKeeps, HoldsStays
<1> HIDE DEF w, r
<1>8. HoldsAt(w, r, a)'
  BY <1>1, <1>2, <1>4, <1>5, <1>6, NewHolds
<1>9. HoldUpTo(w, r, a + 1)'
  <2>1. ASSUME NEW i \in 1..a PROVE HoldsAt(w, r, i)'
    <3>1. CASE i = a
      BY <1>8, <3>1
    <3>2. CASE i # a
      BY <1>2, <1>7, <3>2
    <3> QED
      BY <3>1, <3>2
  <2>2. (a + 1) - 1 = a
    BY <1>2
  <2> QED
    BY <1>6, <2>1, <2>2 DEF HoldUpTo
<1> QED
  BY <1>2, <1>4, <1>5, <1>6, <1>9 DEF Holding

(* What structures are laid out to stays true while no other is laid out.  *)
LEMMA LaidStays ==
  ASSUME Kept, Base, UNCHANGED layouts, NEW a \in 1..(Len(items) + 1), NEW at \in [DOMAIN layouts -> 1..(a - 1)],
         LaidAs(at, a), \A i \in 1..(a - 1) : Settled(i)
  PROVE  LaidAs(at, a)'
<1>1. layouts' = layouts /\ items' = items
  BY DEF Kept
<1>2. ASSUME NEW k \in DOMAIN layouts PROVE layouts'[k] = <<items'[at[k]].name, GetValue(items[at[k]].exp)'>>
  <2>1. PICK i : i = at[k]
    OBVIOUS
  <2>2. i \in 1..(a - 1) /\ i \in DOMAIN items /\ items[i].t = "struct"
    <3>1. i \in 1..(a - 1)
      BY <2>1
    <3>2. i \in {j \in 1..(a - 1) : items[j].t = "struct"}
      BY <2>1 DEF LaidAs
    <3> QED
      BY <3>1, <3>2 DEF Base, Inputs
  <2>3. PICK e : e = items[i].exp
    OBVIOUS
  <2>4. ExpSettled(e) /\ DOMAIN e.refs = 1..Len(e.refs)
    BY <2>2, <2>3 DEF Settled, Base, Inputs
  <2>5. GetValue(e)' = GetValue(e)
    BY <2>4, GetValueStays
  <2>6. layouts[k] = <<items[i].name, GetValue(e)>>
    BY <2>1, <2>3 DEF LaidAs
  <2> QED
    BY <1>1, <2>1, <2>3, <2>5, <2>6
<1> QED
  BY <1>1, <1>2 DEF LaidAs

(* Appending to a sequence keeps what is in it.                            *)
LEMMA Longer ==
  ASSUME NEW S, NEW q \in Seq(S), NEW e
  PROVE  /\ Append(q, e) \in Seq(S \cup {e})
         /\ DOMAIN Append(q, e) = 1..(Len(q) + 1)
         /\ \A k \in 1..Len(q) : Append(q, e)[k] = q[k]
         /\ Append(q, e)[Len(q) + 1] = e
         /\ Len(q) \in Nat /\ DOMAIN q = 1..Len(q)
<1>1. q \in Seq(S \cup {e})
  OBVIOUS
<1> QED
  BY <1>1

(* With each step of the last pass over a structure, one more is laid out, *)
(* in order.                                                               *)
LEMMA LaidAdvances ==
  ASSUME Base, scan.phase = "must", Good(scan.at), Holding(scan.at), Laid(scan.at)
  PROVE  Laid(scan.at)'
<1>1. PICK a : a = scan.at
  OBVIOUS
<1>2. /\ a \in Nat \ {0} /\ Over(scan.at) /\ MustStep(scan.at) /\ scan'.at = a + 1 /\ a \in DOMAIN items
      /\ a \in 1..(Len(items) + 1) /\ Len(items) \in Nat
  BY <1>1 DEF Good, Moves, Over, Base, Inputs, Shape
<1>3. PICK at \in [DOMAIN layouts -> 1..(a - 1)] : LaidAs(at, a)
  BY <1>1 DEF Laid
<1>4. PICK S : layouts \in Seq(S)
  BY DEF Laid
<1>5. Kept /\ items' = items
  BY <1>2, OverKeeps DEF Kept
<1>6. \A i \in 1..(a - 1) : Settled(i)
  BY <1>1 DEF Holding, HoldUpTo, HoldsAt
<1>7. CASE items[a].t # "struct"
  <2>1. layouts' = layouts
    BY <1>1, <1>2, <1>7 DEF MustStep, NewLayout
  <2>2. LaidAs(at, a)'
    BY <1>2, <1>3, <1>5, <1>6, <2>1, LaidStays
  <2>3. {i \in 1..a : items'[i].t = "struct"} = {i \in 1..(a - 1) : items'[i].t = "struct"}
    BY <1>2, <1>5, <1>7
  <2>4. LaidAs(at, a + 1)'
    BY <1>2, <2>2, <2>3 DEF LaidAs
  <2>5. at \in [DOMAIN layouts' -> 1..((a + 1) - 1)]
    BY <1>2, <2>1
  <2> QED
    BY <1>2, <1>4, <2>1, <2>4, <2>5 DEF Laid
<1>8. CASE items[a].t = "struct"
  <2>1. PICK e : e = <<items[a].name, GetValue(items[a].exp)>>
    OBVIOUS
  <2>2. layouts' = Append(layouts, e)
    BY <1>1, <1>2, <1>8, <2>1 DEF MustStep, NewLayout
  <2>3. /\ layouts' \in Seq(S \cup {e}) /\ DOMAIN layouts' = 1..(Len(layouts) + 1)
        /\ \A k \in 1..Len(layouts) : layouts'[k] = layouts[k]
        /\ layouts'[Len(layouts) + 1] = e
        /\ Len(layouts) \in Nat /\ DOMAIN layouts = 1..Len(layouts)
    BY <1>4, <2>2, Longer
  <2>a. PICK n : n = Len(layouts)
    OBVIOUS
  <2> DEFINE to == [k \in 1..(n + 1) |-> IF k <= n THEN at[k] ELSE a]
  <2>4. /\ \A k \in 1..n : to[k] = at[k] /\ at[k] \in 1..(a - 1)
        /\ to[n + 1] = a
    BY <2>3, <2>a
  <2>5. to \in [DOMAIN layouts' -> 1..((a + 1) - 1)]
    BY <1>2, <2>3, <2>4, <2>a
  <2> HIDE DEF to
  <2>6. \A j, k \in DOMAIN layouts' : j < k => to[j] < to[k]
    <3> SUFFICES ASSUME NEW j \in 1..(n + 1), NEW k \in 1..(n + 1), j < k PROVE to[j] < to[k]
      BY <2>3, <2>a
    <3>1. j \in 1..n
      BY <2>3, <2>a
    <3>2. CASE k \in 1..n
      BY <1>3, <2>3, <2>4, <2>a, <3>1, <3>2 DEF LaidAs
    <3>3. CASE k = n + 1
      BY <1>2, <2>4, <3>1, <3>3
    <3> QED
      BY <2>3, <2>a, <3>2, <3>3
  <2>7. {to[k] : k \in DOMAIN layouts'} = {i \in 1..a : items'[i].t = "struct"}
    <3>1. {at[k] : k \in 1..n} = {i \in 1..(a - 1) : items[i].t = "struct"}
      BY <1>3, <2>3, <2>a DEF LaidAs
    <3>2. {to[k] : k \in DOMAIN layouts'} = {at[k] : k \in 1..n} \cup {a}
      <4>1. DOMAIN layouts' = 1..n \cup {n + 1}
        BY <2>3, <2>a
      <4> QED
        BY <2>4, <4>1
    <3>3. {i \in 1..a : items'[i].t = "struct"} = {i \in 1..(a - 1) : items[i].t = "struct"} \cup {a}
      BY <1>2, <1>5, <1>8
    <3> QED
      BY <3>1, <3>2, <3>3
  <2>8. ASSUME NEW k \in DOMAIN layouts' PROVE layouts'[k] = <<items'[to[k]].name, GetValue(items[to[k]].exp)'>>
    <3>1. CASE k \in 1..n
      <4>1. PICK i : i = at[k]
        OBVIOUS
      <4>2. i \in 1..(a - 1) /\ i \in DOMAIN items /\ items[i].t = "struct"
        <5>1. i \in 1..(a - 1)
          BY <2>3, <2>4, <2>a, <3>1, <4>1
        <5>2. i \in {j \in 1..(a - 1) : items[j].t = "struct"}
          BY <1>3, <2>3, <2>a, <3>1, <4>1 DEF LaidAs
        <5> QED
          BY <1>2, <5>1, <5>2 DEF Base, Inputs
      <4>3. PICK x : x = items[i].exp
        OBVIOUS
      <4>4. ExpSettled(x) /\ DOMAIN x.refs = 1..Len(x.refs)
        BY <1>6, <4>2, <4>3 DEF Settled, Base, Inputs
      <4>5. GetValue(x)' = GetValue(x)
        BY <1>5, <4>4, GetValueStays
      <4>6. layouts[k] = <<items[i].name, GetValue(x)>>
        BY <1>3, <2>3, <2>a, <3>1, <4>1, <4>3 DEF LaidAs
      <4> QED
        BY <1>5, <2>3, <2>4, <2>a, <3>1, <4>1, <4>3, <4>5, <4>6
    <3>2. CASE k = n + 1
      <4>1. PICK x : x = items[a].exp
        OBVIOUS
      <4>2. ExpSettled(x) /\ DOMAIN x.refs = 1..Len(x.refs)
        BY <1>1, <1>2, <1>8, <4>1 DEF MustStep, Settled, Base, Inputs
      <4>3. GetValue(x)' = GetValue(x)
        BY <1>5, <4>2, GetValueStays
      <4> QED
        BY <1>5, <2>1, <2>3, <2>4, <2>a, <3>2, <4>1, <4>3
    <3> QED
      BY <2>3, <2>a, <3>1, <3>2
  <2>9. LaidAs(to, a + 1)'
    <3>1. (a + 1) - 1 = a
      BY <1>2
    <3> QED
      BY <2>6, <2>7, <2>8, <3>1 DEF LaidAs
  <2> QED
    BY <1>2, <2>3, <2>5, <2>9 DEF Laid
<1> QED
  BY <1>7, <1>8

-----------------------------------------------------------------------------
(* What every step keeps.                                                  *)

LEMMA PublishedStays ==
  ASSUME Base, NEW name, name \notin DOMAIN symbols, Recorded(name)
  PROVE  Published' /\ PublishedAsRecorded'
<1>1. PICK w : /\ symbols' = [n \in DOMAIN symbols \cup {name} |-> IF n = name THEN w ELSE symbols[n]]
               /\ published' = Append(published, <<name, w>>)
  BY DEF Recorded
<1>2. PICK S : published \in Seq(S)
  BY DEF Base, Published
<1> DEFINE n == Len(published)
<1>3. /\ published' \in Seq(S \cup {<<name, w>>}) /\ DOMAIN published' = 1..(n + 1)
      /\ \A k \in 1..n : published'[k] = published[k]
      /\ published'[n + 1] = <<name, w>>
      /\ n \in Nat /\ DOMAIN published = 1..n
  BY <1>1, <1>2, Longer
<1>4. {published[i] : i \in 1..n} = {<<m, symbols[m]>> : m \in DOMAIN symbols}
  BY <1>3 DEF Base, PublishedAsRecorded
<1>5. \A i \in 1..n : published[i][1] # name
  <2> SUFFICES ASSUME NEW i \in 1..n PROVE published[i][1] # name
    OBVIOUS
  <2>1. published[i] \in {<<m, symbols[m]>> : m \in DOMAIN symbols}
    BY <1>4
  <2> QED
    BY <2>1
<1>6. \A i, j \in DOMAIN published' : published'[i][1] = published'[j][1] => i = j
  BY <1>3, <1>5 DEF Base, PublishedAsRecorded
<1>7. {published'[i] : i \in DOMAIN published'} = {published[i] : i \in 1..n} \cup {<<name, w>>}
  <2>1. DOMAIN published' = 1..n \cup {n + 1}
    BY <1>3
  <2> QED
    BY <1>3, <2>1
<1>8. {<<m, symbols'[m]>> : m \in DOMAIN symbols'} = {<<m, symbols[m]>> : m \in DOMAIN symbols} \cup {<<name, w>>}
  <2>1. DOMAIN symbols' = DOMAIN symbols \cup {name} /\ symbols'[name] = w
    BY <1>1
  <2>2. \A m \in DOMAIN symbols : symbols'[m] = symbols[m]
    BY <1>1
  <2> QED
    BY <2>1, <2>2
<1>9. PublishedAsRecorded'
  BY <1>4, <1>6, <1>7, <1>8 DEF PublishedAsRecorded
<1> QED
  BY <1>3, <1>9 DEF Published

(* Steps over declarations keep the shape of the pass and the tables.      *)
LEMMA OverBase ==
  ASSUME Base, Over(scan.at), scan'.at \in {scan.at, scan.at + 1}
  PROVE  Base'
<1>1. Inputs'
  BY DEF Over, Base, Inputs, Declares
<1>2. Shape'
  BY DEF Over, Base, Shape, Inputs
<1>3. OwnSymbols'
  BY OverKeeps DEF Kept, Base, OwnSymbols
<1>4. Published' /\ PublishedAsRecorded'
  <2>1. CASE Same
    BY <2>1 DEF Same, Base, Published, PublishedAsRecorded
  <2>2. CASE ~Known(items[scan.at].name) /\ Recorded(items[scan.at].name)
    BY <2>2, PublishedStays DEF Known
  <2> QED
    BY <2>1, <2>2 DEF Over
<1> QED
  BY <1>1, <1>2, <1>3, <1>4 DEF Base

(* A pass begins in front of the first declaration.                        *)
LEMMA StartFacts ==
  ASSUME NEW phase
  PROVE  /\ DOMAIN AtStart(phase) = {"phase", "at", "valid", "value", "step", "unresolved", "linked", "err"}
         /\ AtStart(phase).phase = phase /\ AtStart(phase).at = 1 /\ AtStart(phase).valid = TRUE
         /\ AtStart(phase).value = 0 /\ AtStart(phase).step = 1 /\ AtStart(phase).err = NoError
         /\ AtStart(phase).linked = (phase \in {"third", "must", "done"})
  BY DEF AtStart

Begins(phase) ==
  /\ DOMAIN scan' = {"phase", "at", "valid", "value", "step", "unresolved", "linked", "err"}
  /\ scan'.phase = phase /\ scan'.at = 1 /\ scan'.valid = TRUE /\ scan'.value = 0 /\ scan'.step = 1
  /\ scan'.linked = (phase \in {"third", "must", "done"})
  /\ UNCHANGED <<items, overrides, symbols, published, layouts>>

(* So do steps that begin a pass.                                          *)
LEMMA BeginsBase ==
  ASSUME Base, NEW phase \in Phases, Begins(phase)
  PROVE  Base'
<1>1. Inputs'
  BY DEF Begins, Base, Inputs, Declares
<1>2. Shape'
  BY DEF Begins, Base, Shape, Inputs
<1>3. OwnSymbols' /\ Published' /\ PublishedAsRecorded'
  BY DEF Begins, Base, OwnSymbols, Published, PublishedAsRecorded
<1> QED
  BY <1>1, <1>2, <1>3 DEF Base

(* In front of the first declaration there is nothing to hold.             *)
LEMMA NothingHolds ==
  ASSUME layouts = <<>>, scan.at = 1, scan.value = 0, scan.step = 1
  PROVE  Holding(scan.at) /\ Laid(scan.at)
<1>1. Holding(1)
  <2> DEFINE v == [j \in 1..1 |-> 0]
             s == [j \in 1..1 |-> 1]
  <2>1. v[1] = 0 /\ s[1] = 1
    OBVIOUS
  <2> HIDE DEF v, s
  <2>2. HoldUpTo(v, s, 1)
    BY <2>1 DEF HoldUpTo
  <2> QED
    BY <2>1, <2>2 DEF Holding
<1>2. Laid(1)
  <2>1. layouts \in Seq({}) /\ DOMAIN layouts = {}
    OBVIOUS
  <2>2. PICK at : at = [k \in DOMAIN layouts |-> 0]
    OBVIOUS
  <2>3. at \in [DOMAIN layouts -> 1..(1 - 1)]
    BY <2>1, <2>2
  <2>4. LaidAs(at, 1)
    BY <2>1 DEF LaidAs
  <2> QED
    BY <2>1, <2>3, <2>4 DEF Laid
<1> QED
  BY <1>1, <1>2

(* A pass that begins has the invariant.                                   *)
LEMMA BeginsIInv ==
  ASSUME Base, layouts = <<>>, NEW phase \in Phases \ {"done"}, Begins(phase)
  PROVE  IInv'
<1>1. Base'
  BY BeginsBase
<1>2. layouts' = <<>> /\ scan'.at = 1 /\ scan'.value = 0 /\ scan'.step = 1 /\ scan'.phase # "done" /\ scan'.valid = TRUE
  BY DEF Begins
<1>3. (layouts = <<>> /\ scan.at = 1 /\ scan.value = 0 /\ scan.step = 1 => Holding(scan.at) /\ Laid(scan.at))'
  BY NothingHolds, PTL
<1> QED
  BY <1>1, <1>2, <1>3 DEF IInv, NoLayouts, MustInv, DoneInv

(* So does the first one.                                                  *)
LEMMA InitIInv == ASSUME Inputs, ConstantsInit PROVE IInv
<1>1. scan = AtStart("first") /\ symbols = <<>> /\ published = <<>> /\ layouts = <<>>
  BY DEF ConstantsInit
<1>2. Shape
  <2>1. /\ DOMAIN scan = {"phase", "at", "valid", "value", "step", "unresolved", "linked", "err"}
        /\ scan.phase = "first" /\ scan.at = 1 /\ scan.linked = ("first" \in {"third", "must", "done"})
    BY <1>1, StartFacts
  <2>2. 1 \in 1..(Len(items) + 1)
    BY DEF Inputs
  <2> QED
    BY <2>1, <2>2 DEF Shape, Phases
<1>3. OwnSymbols /\ Published /\ PublishedAsRecorded
  <2>1. published \in Seq({}) /\ DOMAIN published = {} /\ DOMAIN symbols = {}
    BY <1>1
  <2> QED
    BY <2>1 DEF OwnSymbols, Published, PublishedAsRecorded
<1>4. scan.phase = "first"
  BY <1>1, StartFacts
<1> QED
  BY <1>1, <1>2, <1>3, <1>4 DEF IInv, Base, NoLayouts, MustInv, DoneInv

(* Nothing that is read changes.                                           *)
Still == UNCHANGED <<items, overrides, symbols, layouts>>

(* Declarations that are true stay true in a step that leaves the          *)
(* constants alone;                                                        *)
LEMMA StillHolds ==
  ASSUME Still, NEW v, NEW s, NEW a, HoldUpTo(v, s, a)
  PROVE  HoldUpTo(v, s, a)'
  BY DEF Still, HoldUpTo, HoldsAt, Settled, ExpSettled, Counts, Declares, Declared, Known, Overridden, GetValue, ValueOf

(* so do structures;                                                       *)
LEMMA StillLaid ==
  ASSUME Still, NEW a, Laid(a)
  PROVE  Laid(a)'
<1>1. PICK at \in [DOMAIN layouts -> 1..(a - 1)] : LaidAs(at, a)
  BY DEF Laid
<1>2. LaidAs(at, a)'
  BY <1>1 DEF Still, LaidAs, GetValue, ValueOf, Known
<1> QED
  BY <1>1, <1>2 DEF Still, Laid

(* so does what is said of the last pass;                                  *)
LEMMA StillMust ==
  ASSUME Still, MustInv, scan'.phase = scan.phase, scan'.at = scan.at, scan'.valid = scan.valid,
         scan'.value = scan.value, scan'.step = scan.step
  PROVE  MustInv'
<1>1. SUFFICES ASSUME scan.phase = "must" PROVE MustInv'
  BY DEF MustInv
<1>2. PICK a : a = scan.at
  OBVIOUS
<1>3. PICK v, s : HoldUpTo(v, s, a) /\ v[a] = scan.value /\ s[a] = scan.step
  BY <1>1, <1>2 DEF MustInv, Holding
<1>4. HoldUpTo(v, s, a)'
  BY <1>3, StillHolds
<1>5. Holding(scan.at)'
  BY <1>2, <1>3, <1>4 DEF Holding
<1>6. Laid(a)'
  BY <1>1, <1>2, StillLaid DEF MustInv
<1>7. Laid(scan.at)'
  BY <1>2, <1>6
<1> QED
  BY <1>1, <1>5, <1>7 DEF MustInv

(* and what is said of the end.                                            *)
LEMMA StillDone ==
  ASSUME Still, DoneInv, scan'.phase = scan.phase
  PROVE  DoneInv'
<1>1. SUFFICES ASSUME scan.phase = "done" PROVE DoneInv'
  BY DEF DoneInv
<1>2. PICK a : a = Len(items) + 1
  OBVIOUS
<1>3. PICK v, s : HoldUpTo(v, s, a)
  BY <1>1, <1>2 DEF DoneInv
<1>4. HoldUpTo(v, s, a)' /\ Laid(a)'
  BY <1>1, <1>2, <1>3, StillHolds, StillLaid DEF DoneInv
<1>5. Len(items') + 1 = a
  BY <1>2 DEF Still
<1> QED
  BY <1>4, <1>5 DEF DoneInv

(* A step that fails keeps the invariant.                                  *)
LEMMA FailsIInv ==
  ASSUME IInv, Fails(scan.at)
  PROVE  IInv'
<1>1. PICK e : scan' = [scan EXCEPT !.err = e]
  BY DEF Fails
<1>2. /\ scan'.phase = scan.phase /\ scan'.at = scan.at /\ scan'.valid = scan.valid
      /\ scan'.value = scan.value /\ scan'.step = scan.step
  BY <1>1 DEF IInv, Base, Shape
<1>3. Still /\ scan.phase # "done"
  BY DEF Fails, Same, Over, Passing, Still
<1>4. Base'
  BY <1>2, OverBase DEF IInv, Fails
<1>5. MustInv'
  BY <1>2, <1>3, StillMust DEF IInv
<1>6. NoLayouts' /\ DoneInv'
  BY <1>2, <1>3 DEF IInv, NoLayouts, DoneInv, Still
<1> QED
  BY <1>4, <1>5, <1>6 DEF IInv

(* So does a step over a declaration that does not.                        *)
LEMMA GoodIInv ==
  ASSUME IInv, Good(scan.at)
  PROVE  IInv'
<1>1. scan'.phase = scan.phase /\ scan.phase # "done" /\ scan'.at = scan.at + 1
  BY DEF Good, Moves, Over, Passing
<1>2. Base'
  BY <1>1, OverBase DEF IInv, Good, Moves
<1>3. CASE scan.phase = "must"
  <2>1. scan'.valid = TRUE
    BY <1>3 DEF Good, MustStep
  <2>2. Holding(scan.at)'
    BY <1>3, Advances DEF IInv, MustInv
  <2>3. Laid(scan.at)'
    BY <1>3, LaidAdvances DEF IInv, MustInv
  <2>4. MustInv'
    BY <2>1, <2>2, <2>3 DEF MustInv
  <2> QED
    BY <1>1, <1>2, <1>3, <2>4 DEF IInv, NoLayouts, DoneInv
<1>4. CASE scan.phase # "must"
  BY <1>1, <1>2, <1>4 DEF Good, IInv, NoLayouts, MustInv, DoneInv
<1> QED
  BY <1>3, <1>4

(* The end of a pass: of the last one in front of nothing more.            *)
LEMMA EndIInv ==
  ASSUME IInv, EndPass, UNCHANGED <<items, overrides>>
  PROVE  IInv'
<1>1. PICK after : after = AfterPass
  OBVIOUS
<1>2. /\ after \in Phases \ {"first", "third"} /\ (after = "done" <=> scan.phase = "must")
      /\ Passing /\ scan.at = Len(items) + 1
  <2>1. Passing /\ scan.at = Len(items) + 1
    BY DEF EndPass, IInv, Base, Shape, Inputs
  <2> QED
    BY <1>1, <2>1 DEF AfterPass, Passing, Phases
<1>3. Begins(after)
  <2>1. /\ scan' = [AtStart(after) EXCEPT !.unresolved = scan.unresolved /\ AfterPass = "link"]
        /\ UNCHANGED <<symbols, published, layouts>>
    BY <1>1 DEF EndPass
  <2>2. /\ DOMAIN scan' = DOMAIN AtStart(after) /\ scan'.phase = AtStart(after).phase
        /\ scan'.at = AtStart(after).at /\ scan'.valid = AtStart(after).valid
        /\ scan'.value = AtStart(after).value /\ scan'.step = AtStart(after).step
        /\ scan'.linked = AtStart(after).linked
    BY <2>1, StartFacts
  <2>3. /\ DOMAIN AtStart(after) = {"phase", "at", "valid", "value", "step", "unresolved", "linked", "err"}
        /\ AtStart(after).phase = after /\ AtStart(after).at = 1 /\ AtStart(after).valid = TRUE
        /\ AtStart(after).value = 0 /\ AtStart(after).step = 1
        /\ AtStart(after).linked = (after \in {"third", "must", "done"})
    BY StartFacts
  <2> QED
    BY <2>1, <2>2, <2>3 DEF Begins
<1>4. CASE after # "done"
  <2>1. layouts = <<>>
    BY <1>2, <1>4 DEF IInv, NoLayouts, Passing
  <2> QED
    BY <1>2, <1>3, <1>4, <2>1, BeginsIInv DEF IInv
<1>5. CASE after = "done"
  <2>1. Base'
    BY <1>2, <1>3, BeginsBase DEF IInv
  <2>2. Still /\ scan'.phase = "done"
    BY <1>3, <1>5 DEF Still, Begins
  <2>3. PICK a : a = Len(items) + 1
    OBVIOUS
  <2>4. PICK v, s : HoldUpTo(v, s, a)
    BY <1>2, <1>5, <2>3 DEF IInv, MustInv, Holding
  <2>5. Laid(a)
    BY <1>2, <1>5, <2>3 DEF IInv, MustInv
  <2>6. HoldUpTo(v, s, a)' /\ Laid(a)' /\ Len(items') + 1 = a
    BY <2>2, <2>3, <2>4, <2>5, StillHolds, StillLaid DEF Still
  <2>7. DoneInv'
    BY <2>6 DEF DoneInv
  <2> QED
    BY <2>1, <2>2, <2>7 DEF IInv, NoLayouts, MustInv
<1> QED
  BY <1>4, <1>5

(* When the child objects are linked, the third or the last pass begins.   *)
LEMMA LinkBegins ==
  ASSUME LinkObjects, UNCHANGED <<items, overrides>>
  PROVE  \E phase \in {"third", "must"} : Begins(phase)
<1>1. PICK phase : phase = IF scan.unresolved THEN "third" ELSE "must"
  OBVIOUS
<1>2. scan' = AtStart(phase) /\ UNCHANGED <<symbols, published, layouts>>
  BY <1>1 DEF LinkObjects
<1>3. Begins(phase)
  BY <1>2, StartFacts DEF Begins
<1> QED
  BY <1>1, <1>3

(* That keeps the invariant.                                               *)
LEMMA LinkIInv ==
  ASSUME IInv, LinkObjects, UNCHANGED <<items, overrides>>
  PROVE  IInv'
<1>1. layouts = <<>> /\ Base
  BY DEF LinkObjects, IInv, NoLayouts
<1>2. PICK phase \in {"third", "must"} : Begins(phase)
  BY LinkBegins
<1> QED
  BY <1>1, <1>2, BeginsIInv DEF Phases

(* Every step keeps the invariant.                                         *)
LEMMA NextIInv == ASSUME IInv, [ConstantsNext]_constants PROVE IInv'
<1>1. CASE Steps /\ UNCHANGED <<items, overrides>>
  <2>1. Fails(scan.at) \/ Good(scan.at)
    BY <1>1, StepsGood DEF IInv, MustInv
  <2> QED
    BY <2>1, FailsIInv, GoodIInv
<1>2. CASE EndPass /\ UNCHANGED <<items, overrides>>
  BY <1>2, EndIInv
<1>3. CASE LinkObjects /\ UNCHANGED <<items, overrides>>
  BY <1>3, LinkIInv
<1>4. CASE UNCHANGED constants
  <2>1. Still /\ UNCHANGED <<scan, published>>
    BY <1>4 DEF constants, Still
  <2>2. Base'
    BY <2>1 DEF IInv, Still, Base, Inputs, Declares, Shape, OwnSymbols, Published, PublishedAsRecorded
  <2>3. MustInv' /\ DoneInv'
    BY <2>1, StillMust, StillDone DEF IInv
  <2> QED
    BY <2>1, <2>2, <2>3 DEF IInv, NoLayouts, Still
<1> QED
  BY <1>1, <1>2, <1>3, <1>4 DEF ConstantsNext, Steps

(* The invariant holds of every state of every compile.                    *)
LEMMA Invariance == ConstantsSpec => []IInv
  BY InitIInv, NextIInv, PTL DEF ConstantsSpec

-----------------------------------------------------------------------------

(* The enumeration is the only one that starts as it does and counts as it *)
(* does: where another first differs, it differs already in front of it.   *)
LEMMA Least ==
  ASSUME NEW T \in SUBSET Nat, T # {}
  PROVE  \E n \in T : \A m \in T : n <= m
<1>1. PICK n \in T : \A m \in T : <<m, n>> \notin OpToRel(<, Nat)
  BY NatLessThanWellFounded, WFMin
<1>2. \A m \in T : m \in Nat /\ n \in Nat /\ ~(m < n)
  BY <1>1 DEF OpToRel
<1>3. \A m \in T : n <= m
  BY <1>2, SMT
<1> QED
  BY <1>3

Continues(e) ==
  e = [i \in 1..(Len(items) + 1) |-> IF i = 1 THEN Fresh ELSE Behind(items[i - 1], e[i - 1])]

(* A function with the equations of the enumeration is there, so the one   *)
(* that the property names has them.                                       *)
LEMMA EnumerationContinues ==
  ASSUME NEW w, Continues(w)
  PROVE  Continues(Enumeration)
<1>1. Enumeration = CHOOSE e : Continues(e)
  BY DEF Enumeration, Continues
<1> QED
  BY <1>1

(* The enumeration that the property names is the one that the last pass   *)
(* counted along.                                                          *)
LEMMA EnumerationIs ==
  ASSUME Inputs, NEW v, NEW s, v[1] = 0, s[1] = 1, \A i \in DOMAIN items : Counts(v, s, i)
  PROVE  \A i \in 1..(Len(items) + 1) : Enumeration[i].value = v[i]
<1> DEFINE D == 1..(Len(items) + 1)
           w == [i \in D |-> [value |-> v[i], step |-> s[i]]]
<1>1. Len(items) \in Nat /\ DOMAIN items = 1..Len(items)
  BY DEF Inputs
<1>2. \A i \in D : w[i] = [value |-> v[i], step |-> s[i]]
  OBVIOUS
<1>3. w[1] = Fresh
  BY <1>1, <1>2 DEF Fresh
<1>4. ASSUME NEW i \in D, i # 1 PROVE Behind(items[i - 1], w[i - 1]) = w[i]
  <2>1. PICK j : j = i - 1
    OBVIOUS
  <2>2. j \in DOMAIN items /\ j \in D /\ i = j + 1
    BY <1>1, <1>4, <2>1
  <2>3. w[j] = [value |-> v[j], step |-> s[j]] /\ w[i] = [value |-> v[j + 1], step |-> s[j + 1]]
    BY <1>2, <2>2
  <2>4. Counts(v, s, j)
    BY <2>2
  <2>5. items[j].t \in {"block", "enum", "set", "plain", "skip", "struct"}
    BY <2>2 DEF Inputs
  <2> HIDE DEF w
  <2>6. Behind(items[j], w[j]) = w[i]
    <3>1. CASE items[j].t = "block"
      BY <2>3, <2>4, <3>1 DEF Behind, Counts, Fresh
    <3>2. CASE items[j].t = "enum"
      BY <2>3, <2>4, <3>2 DEF Behind, Counts
    <3>3. CASE items[j].t = "plain"
      BY <2>3, <2>4, <3>3 DEF Behind, Counts
    <3>4. CASE items[j].t = "skip"
      BY <2>3, <2>4, <3>4 DEF Behind, Counts
    <3>5. CASE items[j].t \in {"set", "struct"}
      BY <2>3, <2>4, <3>5 DEF Behind, Counts
    <3> QED
      BY <2>5, <3>1, <3>2, <3>3, <3>4, <3>5
  <2> QED
    BY <2>1, <2>6
<1>5. Continues(w)
  BY <1>3, <1>4 DEF Continues
<1>6. Continues(Enumeration)
  BY <1>5, EnumerationContinues
<1> HIDE DEF w
<1>7. ASSUME NEW k \in D, Enumeration[k] # w[k] PROVE FALSE
  <2> DEFINE T == {i \in D : Enumeration[i] # w[i]}
  <2>1. T \in SUBSET Nat /\ T # {}
    BY <1>1, <1>7
  <2>2. PICK n \in T : \A m \in T : n <= m
    BY <2>1, Least
  <2>3. n # 1
    BY <1>1, <1>3, <1>6, <2>2 DEF Continues
  <2>4. n - 1 \in D /\ n \in D /\ n - 1 \in Nat /\ n \in Nat
    BY <1>1, <2>2, <2>3
  <2>5. n - 1 \notin T
    BY <2>2, <2>4
  <2>6. Enumeration[n - 1] = w[n - 1]
    BY <2>4, <2>5
  <2>7. Enumeration[n] = Behind(items[n - 1], Enumeration[n - 1])
    BY <1>6, <2>3, <2>4 DEF Continues
  <2>8. Enumeration[n] = w[n]
    BY <1>4, <2>3, <2>4, <2>6, <2>7
  <2> QED
    BY <2>2, <2>8
<1>8. ASSUME NEW k \in D PROVE Enumeration[k].value = v[k]
  <2>1. Enumeration[k] = w[k] /\ w[k] = [value |-> v[k], step |-> s[k]]
    BY <1>2, <1>7
  <2> QED
    BY <2>1
<1> QED
  BY <1>8

(* At the end, the invariant says that the declarations are true,          *)
LEMMA DoneDeclarations == IInv => DeclarationsHold
<1>1. SUFFICES ASSUME IInv, Done, NEW i \in DOMAIN items, Declares(i)
               PROVE  Known(items[i].name) /\ symbols[items[i].name] = Overridden(items[i].name, Written(i))
  BY DEF DeclarationsHold
<1>2. PICK v, s : HoldUpTo(v, s, Len(items) + 1)
  BY <1>1 DEF Done, IInv, DoneInv
<1>3. Inputs /\ DOMAIN items = 1..((Len(items) + 1) - 1) /\ i \in 1..(Len(items) + 1)
  BY <1>1 DEF IInv, Base, Inputs
<1>4. Enumeration[i].value = v[i]
  <2>1. v[1] = 0 /\ s[1] = 1 /\ \A j \in DOMAIN items : Counts(v, s, j)
    BY <1>2, <1>3 DEF HoldUpTo, HoldsAt
  <2> QED
    BY <1>3, <2>1, EnumerationIs
<1>5. Declared(i, v)
  BY <1>1, <1>2, <1>3 DEF HoldUpTo, HoldsAt
<1> QED
  BY <1>4, <1>5 DEF Declared, Written

(* and that the structures are laid out once and in order.                 *)
LEMMA DoneStructures == IInv => StructuresDeclared
<1>1. SUFFICES ASSUME IInv, Done PROVE StructuresDeclared
  BY DEF StructuresDeclared
<1>2. Laid(Len(items) + 1) /\ DOMAIN items = 1..((Len(items) + 1) - 1)
  BY <1>1 DEF Done, IInv, DoneInv, Base, Inputs
<1>3. PICK at \in [DOMAIN layouts -> DOMAIN items] : LaidAs(at, Len(items) + 1)
  BY <1>2 DEF Laid
<1> QED
  BY <1>2, <1>3 DEF StructuresDeclared, LaidAs

\* For all declarations, constants of child objects and overrides: when the constants are compiled,
\* every declaration is true as an equation between the values that the names ended up with, every
\* structure is laid out once in the order of the source, and parents see each constant once.  The
\* last pass verifies what an earlier one recorded, and a name an expression needs is known, or is of
\* a child object, when the expression is read: so nothing the last pass saw changes behind it.
THEOREM DeclarationsAreTrue == ConstantsSpec => []ConstantsDeclared
<1>1. IInv => ConstantsDeclared
  BY DoneDeclarations, DoneStructures DEF IInv, Base, ConstantsDeclared
<1> QED
  BY <1>1, Invariance, PTL

\* No step of any pass changes the value of a constant that is recorded, or forgets the constant.
THEOREM ValuesNeverChange == ConstantsSpec => ValuesStay
<1>1. ASSUME IInv, [ConstantsNext]_constants
      PROVE  [\A n \in DOMAIN symbols : n \in DOMAIN symbols' /\ symbols'[n] = symbols[n]]_constants
  <2>1. CASE Steps /\ UNCHANGED <<items, overrides>>
    <3>1. Over(scan.at)
      BY <1>1, <2>1, StepsGood DEF IInv, MustInv, Fails, Good, Moves
    <3> QED
      BY <1>1, <3>1, OverKeeps DEF IInv, Kept
  <2>2. CASE EndPass \/ LinkObjects
    BY <2>2 DEF EndPass, LinkObjects
  <2> QED
    BY <1>1, <2>1, <2>2 DEF ConstantsNext, Steps
<1> QED
  BY <1>1, Invariance, PTL DEF ConstantsSpec, ValuesStay

-----------------------------------------------------------------------------
(* What a step reads, in whichever pass: a line whose names are known, or  *)
(* one to come back to.                                                    *)

Flags == scan.valid \in BOOLEAN /\ scan.unresolved \in BOOLEAN

\* the names that line i itself uses are known
Ready(i) == items[i].t \in {"enum", "set", "skip", "struct"} => \A exp \in Expressions(i) : Defined(exp)

ValidNext(i) ==
  /\ items[i].t = "block" => scan'.valid = TRUE
  /\ items[i].t = "enum" => (scan'.valid <=> Ready(i))
  /\ items[i].t = "skip" => (scan'.valid <=> scan.valid /\ Ready(i))
  /\ items[i].t \in {"set", "plain", "struct"} => scan'.valid = scan.valid
ValueHere(i) == IF items[i].t = "set" THEN GetValue(items[i].exp) ELSE scan.value
Recordable(i) ==
  \/ items[i].t = "set" /\ Ready(i)
  \/ items[i].t = "plain" /\ scan.valid
  \/ items[i].t = "skip" /\ Ready(i) /\ scan.valid
New(i) == Declares(i) /\ ~Known(items[i].name) /\ Recordable(i)
Records(i) == IF New(i) THEN RecordCONSymbolValue(items[i].name, ValueHere(i)) ELSE Same
Resolving(i) ==
  scan'.unresolved = FALSE => scan.unresolved = FALSE /\ (items[i].t \in {"enum", "set", "skip"} => Ready(i))

At(i) == Passing /\ i = scan.at /\ i \in DOMAIN items /\ UNCHANGED <<items, overrides>>
Reads(i) ==
  /\ At(i)
  /\ scan'.at = i + 1 /\ scan'.phase = scan.phase /\ scan'.linked = scan.linked /\ scan'.err = scan.err
  /\ Flags'
  /\ ValidNext(i) /\ Records(i) /\ Resolving(i)
  /\ scan'.valid = TRUE => NewCount(i)
  /\ scan.phase = "must" => Ready(i)

(* The two ways to fail: a name is undefined that has to be known, or a    *)
(* name is declared again or with another value.                           *)
Stays ==
  /\ UNCHANGED <<items, overrides, symbols, published>>
  /\ scan'.at = scan.at /\ scan'.phase = scan.phase /\ scan'.linked = scan.linked /\ scan'.valid = scan.valid
  /\ scan'.unresolved = scan.unresolved /\ scan'.value = scan.value /\ scan'.step = scan.step
Lacks(i) ==
  /\ At(i) /\ Stays /\ scan'.err = UndefinedSymbol
  /\ ~Ready(i) /\ (scan.phase = "must" \/ (Declares(i) /\ Known(items[i].name)))
Clashes(i) ==
  /\ At(i) /\ Stays /\ Declares(i) /\ Known(items[i].name)
  /\ \/ scan.phase = "first"
     \/ Ready(i) /\ symbols[items[i].name] # Overridden(items[i].name, ValueHere(i))

Reading == Base /\ Flags /\ (scan.phase = "must" => scan.valid = TRUE) /\ UNCHANGED <<items, overrides>>

(* Moving on changes the place only.                                       *)
LEMMA MovedFacts ==
  ASSUME Reading, Passing, scan.at <= Len(items)
  PROVE  /\ At(scan.at)
         /\ DOMAIN Moved = DOMAIN scan /\ Moved.at = scan.at + 1 /\ Moved.phase = scan.phase
         /\ Moved.linked = scan.linked /\ Moved.err = scan.err /\ Moved.valid = scan.valid
         /\ Moved.unresolved = scan.unresolved /\ Moved.value = scan.value /\ Moved.step = scan.step
  BY DEF Reading, Base, Inputs, Shape, Moved, At

(* Failing changes the error only.                                         *)
LEMMA FailedStays ==
  ASSUME Reading, Passing, scan.at <= Len(items), NEW e, Failed(e)
  PROVE  At(scan.at) /\ Stays /\ scan'.err = e
  BY DEF Reading, Base, Inputs, Shape, Failed, Stays, At

(* A new block.                                                            *)
LEMMA BlockReads ==
  ASSUME Reading, StartBlock
  PROVE  Reads(scan.at)
<1>1. /\ Passing /\ scan.at <= Len(items) /\ items[scan.at].t = "block" /\ UNCHANGED <<symbols, published>>
      /\ scan' = [Moved EXCEPT !.valid = TRUE, !.value = 0, !.step = 1]
  BY DEF StartBlock, On, Item
<1>2. /\ scan'.at = scan.at + 1 /\ scan'.phase = scan.phase /\ scan'.linked = scan.linked /\ scan'.err = scan.err
      /\ scan'.valid = TRUE /\ scan'.value = 0 /\ scan'.step = 1 /\ scan'.unresolved = scan.unresolved
  BY <1>1, MovedFacts DEF Reading, Base, Shape
<1>3. Flags' /\ ~New(scan.at)
  BY <1>1, <1>2 DEF Reading, Flags, New, Declares
<1> QED
  BY <1>1, <1>2, <1>3, MovedFacts
     DEF Reads, ValidNext, Records, Same, Resolving, NewCount, Ready

(* The names of a '#' line are those of its two expressions, those of any  *)
(* other line those of the one it has.                                     *)
LEMMA ReadyIs ==
  ASSUME NEW i
  PROVE  /\ items[i].t = "enum" => (Ready(i) <=> Defined(items[i].exp) /\ Defined(items[i].step))
         /\ items[i].t \in {"set", "skip", "struct"} => (Ready(i) <=> Defined(items[i].exp))
         /\ items[i].t \in {"block", "plain"} => Ready(i)
<1>1. CASE items[i].t = "enum"
  <2>1. Expressions(i) = {items[i].exp, items[i].step}
    BY <1>1 DEF Expressions
  <2> QED
    BY <1>1, <2>1 DEF Ready
<1>2. CASE items[i].t # "enum"
  <2>1. Expressions(i) = {items[i].exp}
    BY <1>2 DEF Expressions
  <2> QED
    BY <1>2, <2>1 DEF Ready
<1> QED
  BY <1>1, <1>2

(* A '#' line.                                                             *)
LEMMA EnumReads ==
  ASSUME Reading, DeclareEnum
  PROVE  Reads(scan.at) \/ Lacks(scan.at)
<1> DEFINE start == Defined(Item.exp)
           stepped == Defined(Item.step)
           opened == [Moved EXCEPT !.valid = start /\ stepped, !.unresolved = @ \/ ~start \/ ~stepped]
           valued == IF start THEN [opened EXCEPT !.value = GetValue(Item.exp), !.step = 1] ELSE opened
<1>1. Passing /\ scan.at <= Len(items) /\ items[scan.at].t = "enum" /\ Item = items[scan.at]
  BY DEF DeclareEnum, On, Item
<1>2. Ready(scan.at) <=> start /\ stepped
  BY <1>1, ReadyIs
<1>3. CASE MustResolve /\ (~start \/ ~stepped)
  <2>1. Failed(UndefinedSymbol)
    BY <1>3 DEF DeclareEnum
  <2> QED
    BY <1>1, <1>2, <1>3, <2>1, FailedStays DEF Lacks, MustResolve
<1>4. CASE ~(MustResolve /\ (~start \/ ~stepped))
  <2>1. /\ scan' = IF stepped /\ Item.stepped THEN [valued EXCEPT !.step = GetValue(Item.step)] ELSE valued
        /\ UNCHANGED <<symbols, published>>
    BY <1>4 DEF DeclareEnum
  <2>2. /\ DOMAIN opened = DOMAIN scan /\ opened.phase = scan.phase /\ opened.linked = scan.linked
        /\ opened.at = scan.at + 1 /\ opened.valid = (start /\ stepped) /\ opened.err = scan.err
        /\ opened.unresolved = (scan.unresolved \/ ~start \/ ~stepped)
    BY <1>1, MovedFacts DEF Reading, Base, Shape
  <2> HIDE DEF opened
  <2>3. /\ DOMAIN valued = DOMAIN scan /\ valued.phase = scan.phase /\ valued.linked = scan.linked
        /\ valued.at = scan.at + 1 /\ valued.valid = (start /\ stepped) /\ valued.err = scan.err
        /\ valued.unresolved = (scan.unresolved \/ ~start \/ ~stepped)
        /\ start => valued.value = GetValue(Item.exp) /\ valued.step = 1
    BY <2>2 DEF Reading, Base, Shape
  <2> HIDE DEF valued
  <2>4. /\ scan'.phase = scan.phase /\ scan'.linked = scan.linked /\ scan'.err = scan.err
        /\ scan'.at = scan.at + 1 /\ scan'.valid = (start /\ stepped)
        /\ scan'.unresolved = (scan.unresolved \/ ~start \/ ~stepped)
    BY <2>1, <2>3 DEF Reading, Base, Shape
  <2>5. start /\ stepped =>
          /\ scan'.value = GetValue(Item.exp)
          /\ scan'.step = IF Item.stepped THEN GetValue(Item.step) ELSE 1
    BY <2>1, <2>3 DEF Reading, Base, Shape
  <2> HIDE DEF start, stepped
  <2>6. Flags' /\ ~New(scan.at)
    BY <1>1, <2>4 DEF Reading, Flags, New, Declares
  <2>7. scan.phase = "must" => Ready(scan.at)
    BY <1>2, <1>4 DEF MustResolve
  <2>8. ValidNext(scan.at) /\ Records(scan.at)
    BY <1>1, <1>2, <2>1, <2>4, <2>6 DEF ValidNext, Records, Same
  <2>9. Resolving(scan.at)
    BY <1>1, <1>2, <2>4 DEF Resolving, Reading, Flags
  <2>10. scan'.valid = TRUE => NewCount(scan.at)
    BY <1>1, <2>4, <2>5 DEF NewCount
  <2>11. At(scan.at)
    BY <1>1, MovedFacts
  <2> QED
    BY <2>4, <2>6, <2>7, <2>8, <2>9, <2>10, <2>11 DEF Reads
<1> QED
  BY <1>3, <1>4

(* The line a constant is read from.                                       *)
LEMMA LineFacts ==
  ASSUME Reading, NEW kind, Constant(kind)
  PROVE  /\ Passing /\ scan.at <= Len(items) /\ At(scan.at)
         /\ items[scan.at].t = kind /\ Item = items[scan.at]
         /\ scan.phase = "first" => ~Known(items[scan.at].name)
<1>1. Passing /\ scan.at <= Len(items) /\ items[scan.at].t = kind /\ Item = items[scan.at]
  BY DEF Constant, On, Item
<1>2. scan.phase = "first" => ~Known(items[scan.at].name)
  BY <1>1 DEF Constant
<1> QED
  BY <1>1, <1>2, MovedFacts

(* A line whose expression has no value yet is passed over, or, in the     *)
(* last pass, its names are missed.                                        *)
LEMMA UndefinedReads ==
  ASSUME Reading, Passing, scan.at <= Len(items), NEW e \in BOOLEAN, Undefined(e)
  PROVE  \/ At(scan.at) /\ Stays /\ scan'.err = UndefinedSymbol /\ scan.phase = "must"
         \/ /\ scan.phase # "must" /\ Same
            /\ scan'.at = scan.at + 1 /\ scan'.phase = scan.phase /\ scan'.linked = scan.linked /\ scan'.err = scan.err
            /\ (scan'.valid <=> scan.valid /\ e) /\ scan'.valid \in BOOLEAN /\ scan'.unresolved = TRUE
            /\ scan'.value = scan.value /\ scan'.step = scan.step
<1>1. CASE MustResolve
  <2>1. Failed(UndefinedSymbol)
    BY <1>1 DEF Undefined
  <2> QED
    BY <1>1, <2>1, FailedStays DEF MustResolve
<1>2. CASE ~MustResolve
  <2>1. scan' = [Moved EXCEPT !.unresolved = TRUE, !.valid = @ /\ e] /\ UNCHANGED <<symbols, published, layouts>>
    BY <1>2 DEF Undefined
  <2> QED
    BY <1>2, <2>1, MovedFacts DEF Reading, Base, Shape, MustResolve, Same, Flags
<1> QED
  BY <1>1, <1>2

(* name = expression.                                                      *)
LEMMA SetReads ==
  ASSUME Reading, SetConstant
  PROVE  Reads(scan.at) \/ Lacks(scan.at)
<1>1. /\ Passing /\ scan.at <= Len(items) /\ items[scan.at].t = "set" /\ Item = items[scan.at]
      /\ ~Known(items[scan.at].name) /\ At(scan.at) /\ Declares(scan.at)
  BY LineFacts DEF SetConstant, Declares
<1>2. Ready(scan.at) <=> Defined(Item.exp)
  BY <1>1, ReadyIs
<1>3. CASE ~Defined(Item.exp)
  <2>1. Undefined(TRUE)
    BY <1>3 DEF SetConstant
  <2>2. ~Ready(scan.at) /\ ~New(scan.at)
    BY <1>1, <1>2, <1>3 DEF New, Recordable
  <2>3. CASE Stays /\ scan'.err = UndefinedSymbol /\ scan.phase = "must"
    BY <1>1, <2>2, <2>3 DEF Lacks
  <2>4. CASE ~(Stays /\ scan'.err = UndefinedSymbol /\ scan.phase = "must")
    <3>1. /\ scan.phase # "must" /\ Same
          /\ scan'.at = scan.at + 1 /\ scan'.phase = scan.phase /\ scan'.linked = scan.linked /\ scan'.err = scan.err
          /\ (scan'.valid <=> scan.valid) /\ scan'.valid \in BOOLEAN /\ scan'.unresolved = TRUE
          /\ scan'.value = scan.value /\ scan'.step = scan.step
      BY <1>1, <2>1, <2>4, UndefinedReads
    <3> QED
      BY <1>1, <2>2, <3>1 DEF Reads, Flags, ValidNext, Records, Resolving, NewCount, Reading
  <2> QED
    BY <2>3, <2>4
<1>4. CASE Defined(Item.exp)
  <2>1. RecordCONSymbolValue(Item.name, GetValue(Item.exp)) /\ scan' = Moved
    BY <1>4 DEF SetConstant
  <2>2. New(scan.at) /\ ValueHere(scan.at) = GetValue(Item.exp)
    BY <1>1, <1>2, <1>4 DEF New, Recordable, ValueHere
  <2>3. Records(scan.at)
    BY <1>1, <2>1, <2>2 DEF Records
  <2> QED
    BY <1>1, <1>2, <1>4, <2>1, <2>3, MovedFacts DEF Reads, Flags, ValidNext, Resolving, NewCount, Reading
<1> QED
  BY <1>3, <1>4

(* A line of an enumeration moves the count on by n steps.                 *)
LEMMA SteppedReads ==
  ASSUME Reading, Passing, scan.at <= Len(items), NEW n
  PROVE  /\ Stepped(n).at = scan.at + 1 /\ Stepped(n).phase = scan.phase /\ Stepped(n).linked = scan.linked
         /\ Stepped(n).err = scan.err /\ Stepped(n).valid = scan.valid /\ Stepped(n).unresolved = scan.unresolved
         /\ Stepped(n).value = scan.value + (scan.step * n) /\ Stepped(n).step = scan.step
  BY MovedFacts DEF Stepped, Reading, Base, Shape

(* A plain name.                                                           *)
LEMMA PlainReads ==
  ASSUME Reading, EnumConstant
  PROVE  Reads(scan.at)
<1>1. /\ Passing /\ scan.at <= Len(items) /\ items[scan.at].t = "plain" /\ Item = items[scan.at]
      /\ ~Known(items[scan.at].name) /\ At(scan.at) /\ Declares(scan.at) /\ Ready(scan.at)
  BY LineFacts, ReadyIs DEF EnumConstant, Declares
<1>2. CASE ~scan.valid
  <2>1. scan' = Moved /\ Same
    BY <1>2 DEF EnumConstant, Same
  <2>2. ~New(scan.at)
    BY <1>1, <1>2 DEF New, Recordable
  <2> QED
    BY <1>1, <1>2, <2>1, <2>2, MovedFacts DEF Reads, Flags, ValidNext, Records, Resolving, Reading
<1>3. CASE scan.valid
  <2>1. RecordCONSymbolValue(Item.name, scan.value) /\ scan' = Stepped(1)
    BY <1>3 DEF EnumConstant
  <2>2. New(scan.at) /\ ValueHere(scan.at) = scan.value
    BY <1>1, <1>3 DEF New, Recordable, ValueHere
  <2>3. Records(scan.at)
    BY <1>1, <2>1, <2>2 DEF Records
  <2> QED
    BY <1>1, <1>3, <2>1, <2>3, SteppedReads DEF Reads, Flags, ValidNext, Resolving, NewCount, Reading
<1> QED
  BY <1>2, <1>3

(* name[n].                                                                *)
LEMMA SkipReads ==
  ASSUME Reading, SkipConstant
  PROVE  Reads(scan.at) \/ Lacks(scan.at)
<1>1. /\ Passing /\ scan.at <= Len(items) /\ items[scan.at].t = "skip" /\ Item = items[scan.at]
      /\ ~Known(items[scan.at].name) /\ At(scan.at) /\ Declares(scan.at)
  BY LineFacts DEF SkipConstant, Declares
<1>2. Ready(scan.at) <=> Defined(Item.exp)
  BY <1>1, ReadyIs
<1>3. CASE ~Defined(Item.exp)
  <2>1. Undefined(FALSE)
    BY <1>3 DEF SkipConstant
  <2>2. ~Ready(scan.at) /\ ~New(scan.at)
    BY <1>1, <1>2, <1>3 DEF New, Recordable
  <2>3. CASE Stays /\ scan'.err = UndefinedSymbol /\ scan.phase = "must"
    BY <1>1, <2>2, <2>3 DEF Lacks
  <2>4. CASE ~(Stays /\ scan'.err = UndefinedSymbol /\ scan.phase = "must")
    <3>1. /\ scan.phase # "must" /\ Same
          /\ scan'.at = scan.at + 1 /\ scan'.phase = scan.phase /\ scan'.linked = scan.linked /\ scan'.err = scan.err
          /\ ~scan'.valid /\ scan'.valid \in BOOLEAN /\ scan'.unresolved = TRUE
      BY <1>1, <2>1, <2>4, UndefinedReads
    <3> QED
      BY <1>1, <2>2, <3>1 DEF Reads, Flags, ValidNext, Records, Resolving, NewCount, Reading
  <2> QED
    BY <2>3, <2>4
<1>4. CASE Defined(Item.exp) /\ ~scan.valid
  <2>1. scan' = [Moved EXCEPT !.unresolved = TRUE] /\ Same
    BY <1>4 DEF SkipConstant, Same
  <2>2. ~New(scan.at) /\ Ready(scan.at)
    BY <1>1, <1>2, <1>4 DEF New, Recordable
  <2>3. /\ scan'.at = scan.at + 1 /\ scan'.phase = scan.phase /\ scan'.linked = scan.linked /\ scan'.err = scan.err
        /\ scan'.valid = scan.valid /\ scan'.unresolved = TRUE
    BY <1>1, <2>1, MovedFacts DEF Reading, Base, Shape
  <2> QED
    BY <1>1, <1>4, <2>1, <2>2, <2>3 DEF Reads, Flags, ValidNext, Records, Resolving, Reading
<1>5. CASE Defined(Item.exp) /\ scan.valid
  <2>1. RecordCONSymbolValue(Item.name, scan.value) /\ scan' = Stepped(GetValue(Item.exp))
    BY <1>5 DEF SkipConstant
  <2>2. New(scan.at) /\ ValueHere(scan.at) = scan.value /\ Ready(scan.at)
    BY <1>1, <1>2, <1>5 DEF New, Recordable, ValueHere
  <2>3. Records(scan.at)
    BY <1>1, <2>1, <2>2 DEF Records
  <2> QED
    BY <1>1, <1>5, <2>1, <2>2, <2>3, SteppedReads DEF Reads, Flags, ValidNext, Resolving, NewCount, Reading
<1> QED
  BY <1>3, <1>4, <1>5

(* Verifying goes on if the value is the one that was recorded.            *)
LEMMA VerifiedOrClashes ==
  ASSUME Reading, At(scan.at), scan.at <= Len(items), Declares(scan.at), Known(items[scan.at].name), Ready(scan.at),
         NEW moved, VerifySameValue(items[scan.at].name, ValueHere(scan.at), moved)
  PROVE  Clashes(scan.at) \/ (scan' = moved /\ Same)
<1>1. CASE symbols[items[scan.at].name] # Overridden(items[scan.at].name, ValueHere(scan.at))
  <2>1. PICK e : Failed(e)
    BY <1>1 DEF VerifySameValue
  <2> QED
    BY <1>1, <2>1, FailedStays DEF Clashes, At
<1>2. CASE symbols[items[scan.at].name] = Overridden(items[scan.at].name, ValueHere(scan.at))
  BY <1>2 DEF VerifySameValue, Same
<1> QED
  BY <1>1, <1>2

(* A constant that is met again.                                           *)
LEMMA VerifyReads ==
  ASSUME Reading, VerifyConstant
  PROVE  Reads(scan.at) \/ Lacks(scan.at) \/ Clashes(scan.at)
<1>1. CASE Verifiable("set")
  <2>1. /\ Passing /\ scan.at <= Len(items) /\ items[scan.at].t = "set" /\ Item = items[scan.at]
        /\ Known(items[scan.at].name) /\ At(scan.at) /\ Declares(scan.at)
    BY <1>1, LineFacts DEF Verifiable, Declares
  <2>2. (Ready(scan.at) <=> Defined(Item.exp)) /\ ~New(scan.at)
    BY <2>1, ReadyIs DEF New
  <2>3. CASE ~Defined(Item.exp)
    <3>1. Failed(UndefinedSymbol)
      BY <2>1, <2>3 DEF VerifyConstant, Verifiable, Constant, On
    <3> QED
      BY <2>1, <2>2, <2>3, <3>1, FailedStays DEF Lacks
  <2>4. CASE Defined(Item.exp)
    <3>1. VerifySameValue(items[scan.at].name, GetValue(Item.exp), Moved)
      BY <2>1, <2>4 DEF VerifyConstant, Verifiable, Constant, On
    <3>2. ValueHere(scan.at) = GetValue(Item.exp)
      BY <2>1 DEF ValueHere
    <3>3. SUFFICES ASSUME ~Clashes(scan.at) PROVE Reads(scan.at)
      OBVIOUS
    <3>4. scan' = Moved /\ Same
      BY <2>1, <2>2, <2>4, <3>1, <3>2, <3>3, VerifiedOrClashes
    <3> QED
      BY <2>1, <2>2, <2>4, <3>4, MovedFacts DEF Reads, Flags, ValidNext, Records, Resolving, NewCount, Reading
  <2> QED
    BY <2>3, <2>4
<1>2. CASE Verifiable("plain")
  <2>1. /\ Passing /\ scan.at <= Len(items) /\ items[scan.at].t = "plain" /\ Item = items[scan.at]
        /\ Known(items[scan.at].name) /\ At(scan.at) /\ Declares(scan.at)
    BY <1>2, LineFacts DEF Verifiable, Declares
  <2>2. Ready(scan.at) /\ ~New(scan.at) /\ ValueHere(scan.at) = scan.value
    BY <2>1, ReadyIs DEF New, ValueHere
  <2>3. VerifySameValue(items[scan.at].name, scan.value, Stepped(1))
    BY <2>1 DEF VerifyConstant, Verifiable, Constant, On
  <2>4. SUFFICES ASSUME ~Clashes(scan.at) PROVE Reads(scan.at)
    OBVIOUS
  <2>5. scan' = Stepped(1) /\ Same
    BY <2>1, <2>2, <2>3, <2>4, VerifiedOrClashes
  <2> QED
    BY <2>1, <2>2, <2>5, SteppedReads DEF Reads, Flags, ValidNext, Records, Resolving, NewCount, Reading
<1>3. CASE Verifiable("skip")
  <2>1. /\ Passing /\ scan.at <= Len(items) /\ items[scan.at].t = "skip" /\ Item = items[scan.at]
        /\ Known(items[scan.at].name) /\ At(scan.at) /\ Declares(scan.at)
    BY <1>3, LineFacts DEF Verifiable, Declares
  <2>2. (Ready(scan.at) <=> Defined(Item.exp)) /\ ~New(scan.at) /\ ValueHere(scan.at) = scan.value
    BY <2>1, ReadyIs DEF New, ValueHere
  <2>3. CASE ~Defined(Item.exp)
    <3>1. Failed(UndefinedSymbol)
      BY <2>1, <2>3 DEF VerifyConstant, Verifiable, Constant, On
    <3> QED
      BY <2>1, <2>2, <2>3, <3>1, FailedStays DEF Lacks
  <2>4. CASE Defined(Item.exp)
    <3>1. VerifySameValue(items[scan.at].name, scan.value, Stepped(GetValue(Item.exp)))
      BY <2>1, <2>4 DEF VerifyConstant, Verifiable, Constant, On
    <3>3. SUFFICES ASSUME ~Clashes(scan.at) PROVE Reads(scan.at)
      OBVIOUS
    <3>4. scan' = Stepped(GetValue(Item.exp)) /\ Same
      BY <2>1, <2>2, <2>4, <3>1, <3>3, VerifiedOrClashes
    <3> QED
      BY <2>1, <2>2, <2>4, <3>4, SteppedReads DEF Reads, Flags, ValidNext, Records, Resolving, NewCount, Reading
  <2> QED
    BY <2>3, <2>4
<1> QED
  BY <1>1, <1>2, <1>3 DEF VerifyConstant

(* A structure.                                                            *)
LEMMA StructureReads ==
  ASSUME Reading, DeclareStructure
  PROVE  Reads(scan.at) \/ Lacks(scan.at)
<1>1. Passing /\ scan.at <= Len(items) /\ items[scan.at].t = "struct" /\ Item = items[scan.at]
  BY DEF DeclareStructure, On, Item
<1>2. (Ready(scan.at) <=> Defined(Item.exp)) /\ ~New(scan.at) /\ At(scan.at)
  BY <1>1, ReadyIs, MovedFacts DEF New, Declares
<1>3. CASE MustResolve /\ ~Defined(Item.exp)
  <2>1. Failed(UndefinedSymbol)
    BY <1>3 DEF DeclareStructure
  <2> QED
    BY <1>1, <1>2, <1>3, <2>1, FailedStays DEF Lacks, MustResolve
<1>4. CASE ~(MustResolve /\ ~Defined(Item.exp))
  <2>1. scan' = Moved /\ Same
    BY <1>4 DEF DeclareStructure, Same
  <2>2. scan.phase = "must" => Ready(scan.at)
    BY <1>2, <1>4 DEF MustResolve
  <2> QED
    BY <1>1, <1>2, <2>1, <2>2, MovedFacts DEF Reads, Flags, ValidNext, Records, Resolving, NewCount, Reading
<1> QED
  BY <1>3, <1>4

(* A name declared twice, in the first pass.                               *)
LEMMA TwiceClashes ==
  ASSUME Reading, DefinedTwice
  PROVE  Clashes(scan.at)
<1>1. /\ Passing /\ scan.phase = "first" /\ scan.at <= Len(items) /\ Declares(scan.at)
      /\ Known(items[scan.at].name)
  BY DEF DefinedTwice, Item, Declares
<1>2. PICK e : Failed(e)
  BY DEF DefinedTwice
<1> QED
  BY <1>1, <1>2, FailedStays DEF Clashes

(* Every step over a line reads it, or fails in one of the two ways.       *)
LEMMA StepsRead ==
  ASSUME Reading, Steps
  PROVE  Reads(scan.at) \/ Lacks(scan.at) \/ Clashes(scan.at)
  BY BlockReads, EnumReads, SetReads, PlainReads, SkipReads, VerifyReads, StructureReads, TwiceClashes DEF Steps

-----------------------------------------------------------------------------
(* The run of an enumeration, and what it counts.                          *)

(* The lines that count in front of a place, from one place to the next.   *)
LEMMA RunNext ==
  ASSUME Inputs, NEW a \in DOMAIN items
  PROVE  /\ items[a].t = "block" => RunBefore(a + 1) = {}
         /\ items[a].t = "enum" => RunBefore(a + 1) = {a}
         /\ items[a].t = "skip" => RunBefore(a + 1) = RunBefore(a) \cup {a}
         /\ items[a].t \in {"set", "plain", "struct"} => RunBefore(a + 1) = RunBefore(a)
<1>1. a \in Nat \ {0} /\ (a + 1) - 1 = a /\ 1..a = 1..(a - 1) \cup {a}
  BY DEF Inputs
<1> DEFINE Open(j, b) == \A x \in (j + 1)..b : items[x].t \notin {"block", "enum"}
<1>2. RunBefore(a + 1) = {j \in 1..a : items[j].t \in {"enum", "skip"} /\ Open(j, a)}
  BY <1>1 DEF RunBefore
<1>3. RunBefore(a) = {j \in 1..(a - 1) : items[j].t \in {"enum", "skip"} /\ Open(j, a - 1)}
  BY DEF RunBefore
<1>4. ASSUME NEW j \in 1..(a - 1) PROVE Open(j, a) <=> Open(j, a - 1) /\ items[a].t \notin {"block", "enum"}
  <2>1. (j + 1)..a = ((j + 1)..(a - 1)) \cup {a}
    BY <1>1
  <2> QED
    BY <2>1
<1>5. Open(a, a)
  BY <1>1
<1> HIDE DEF Open
<1> QED
  BY <1>1, <1>2, <1>3, <1>4, <1>5

(* In front of the first line nothing counts.                              *)
LEMMA RunFirst == RunBefore(1) = {}
  BY DEF RunBefore

(* The lines that a line needs: its own, unless it is a plain name, and    *)
(* those that count in front of it, if it counts.                          *)
LEMMA NeedsIs ==
  ASSUME Inputs, NEW a \in DOMAIN items
  PROVE  /\ items[a].t \in {"set", "struct", "enum"} => Needs(a) = {a}
         /\ items[a].t = "skip" => Needs(a) = RunBefore(a) \cup {a}
         /\ items[a].t = "plain" => Needs(a) = RunBefore(a)
         /\ items[a].t = "block" => Needs(a) = {}
  BY RunNext DEF Needs

(* All the values an enumeration has along the blocks.                     *)
Counting(v, s) == v[1] = 0 /\ s[1] = 1 /\ \A i \in DOMAIN items : Counts(v, s, i)

(* One declaration says what counts behind it.                             *)
NextValue(i, m, n) ==
  CASE items[i].t = "block" -> 0
    [] items[i].t = "enum" -> GetValue(items[i].exp)
    [] items[i].t = "plain" -> m + (n * 1)
    [] items[i].t = "skip" -> m + (n * GetValue(items[i].exp))
    [] OTHER -> m
NextStep(i, n) ==
  CASE items[i].t = "block" -> 1
    [] items[i].t = "enum" -> IF items[i].stepped THEN GetValue(items[i].step) ELSE 1
    [] OTHER -> n

(* The enumeration is counted along a line that counts.                    *)
LEMMA CountGoesOn ==
  ASSUME Inputs, NEW i \in DOMAIN items, NEW v, NEW s,
         v[i + 1] = NextValue(i, v[i], s[i]), s[i + 1] = NextStep(i, s[i])
  PROVE  Counts(v, s, i)
<1>1. CASE items[i].t = "block"
  BY <1>1 DEF Counts, NextValue, NextStep
<1>2. CASE items[i].t = "enum"
  BY <1>2 DEF Counts, NextValue, NextStep
<1>3. CASE items[i].t = "plain"
  BY <1>3 DEF Counts, NextValue, NextStep
<1>4. CASE items[i].t = "skip"
  BY <1>4 DEF Counts, NextValue, NextStep
<1>5. CASE items[i].t \in {"set", "struct"}
  BY <1>5 DEF Counts, NextValue, NextStep
<1> QED
  BY <1>1, <1>2, <1>3, <1>4, <1>5 DEF Inputs

(* There always is such an enumeration.                                    *)
LEMMA CountExists == ASSUME Inputs PROVE \E v, s : Counting(v, s)
<1> DEFINE Upto(v, s, n) == v[1] = 0 /\ s[1] = 1 /\ \A i \in 1..n : Counts(v, s, i)
           T == {n \in 0..Len(items) : ~\E v, s : Upto(v, s, n)}
<1>1. Len(items) \in Nat /\ DOMAIN items = 1..Len(items)
  BY DEF Inputs
<1>2. T = {}
  <2>1. SUFFICES ASSUME T # {} PROVE FALSE
    OBVIOUS
  <2>2. T \in SUBSET Nat
    BY <1>1
  <2>3. PICK n \in T : \A m \in T : n <= m
    BY <2>1, <2>2, Least
  <2>4. n # 0
    <3> DEFINE v == [j \in 1..1 |-> 0]
               s == [j \in 1..1 |-> 1]
    <3>1. v[1] = 0 /\ s[1] = 1
      OBVIOUS
    <3> HIDE DEF v, s
    <3>2. Upto(v, s, 0)
      BY <3>1
    <3> QED
      BY <2>3, <3>2
  <2>5. n \in Nat \ {0} /\ n - 1 \in 0..Len(items) /\ n \in DOMAIN items /\ 1..n = 1..(n - 1) \cup {n}
    BY <1>1, <2>3, <2>4
  <2>6. PICK p : p = n - 1
    OBVIOUS
  <2>a. p \in Nat /\ p \in 0..Len(items) /\ n \in Nat /\ ~(n <= p)
    BY <2>5, <2>6
  <2>b. p \notin T
    BY <2>3, <2>a
  <2>7. PICK v, s : Upto(v, s, n - 1)
    BY <2>6, <2>a, <2>b
  <2>8. PICK x, y : x = NextValue(n, v[n], s[n]) /\ y = NextStep(n, s[n])
    OBVIOUS
  <2> DEFINE w == [j \in 1..(n + 1) |-> IF j <= n THEN v[j] ELSE x]
             r == [j \in 1..(n + 1) |-> IF j <= n THEN s[j] ELSE y]
  <2>9. /\ \A j \in 1..n : w[j] = v[j] /\ r[j] = s[j]
        /\ w[n + 1] = x /\ r[n + 1] = y
    BY <2>5
  <2> HIDE DEF w, r
  <2>10. w[1] = 0 /\ r[1] = 1
    BY <2>5, <2>7, <2>9
  <2>11. ASSUME NEW i \in 1..(n - 1) PROVE Counts(w, r, i)
    <3>1. i \in 1..n /\ i + 1 \in 1..n
      BY <2>5
    <3>2. w[i] = v[i] /\ w[i + 1] = v[i + 1] /\ r[i] = s[i] /\ r[i + 1] = s[i + 1]
      BY <2>9, <3>1
    <3>3. Counts(v, s, i)
      BY <2>7
    <3> QED
      BY <3>2, <3>3 DEF Counts
  <2>12. Counts(w, r, n)
    <3>1. w[n] = v[n] /\ r[n] = s[n]
      BY <2>5, <2>9
    <3> QED
      BY <2>5, <2>8, <2>9, <3>1, CountGoesOn
  <2>13. Upto(w, r, n)
    BY <2>5, <2>10, <2>11, <2>12
  <2> QED
    BY <2>3, <2>13
<1>3. PICK v, s : Upto(v, s, Len(items))
  BY <1>1, <1>2
<1> QED
  BY <1>1, <1>3 DEF Counting

(* What it counts in front of a place does not change once the names are   *)
(* known of all the lines that count there.                                *)
LEMMA CountStays ==
  ASSUME Kept, Base, NEW v, NEW s, NEW w, NEW r, Counting(w, r), Counting(v, s)',
         NEW a \in 1..(Len(items) + 1), \A j \in RunBefore(a) : Ready(j)
  PROVE  v[a] = w[a] /\ s[a] = r[a]
<1> DEFINE Good2(i) == v[i] = w[i] /\ s[i] = r[i]
           T == {i \in 1..(Len(items) + 1) : (\A j \in RunBefore(i) : Ready(j)) /\ ~Good2(i)}
<1>1. Len(items) \in Nat /\ DOMAIN items = 1..Len(items) /\ items' = items
  BY DEF Base, Inputs, Kept
<1>2. SUFFICES ASSUME T # {} PROVE FALSE
  OBVIOUS
<1>3. T \in SUBSET Nat
  BY <1>1
<1>4. PICK n \in T : \A m \in T : n <= m
  BY <1>2, <1>3, Least
<1>5. v[1] = 0 /\ s[1] = 1 /\ w[1] = 0 /\ r[1] = 1
  BY DEF Counting
<1>6. n # 1
  BY <1>4, <1>5
<1>7. PICK m : m = n - 1
  OBVIOUS
<1>8. m \in DOMAIN items /\ n = m + 1 /\ m \in 1..(Len(items) + 1) /\ m \in Nat /\ n \in Nat /\ ~(n <= m)
  BY <1>1, <1>4, <1>6, <1>7
<1>9. (\A j \in RunBefore(m) : Ready(j)) => Good2(m)
  BY <1>4, <1>8
<1>10. Counts(w, r, m) /\ Counts(v, s, m)'
  BY <1>1, <1>8 DEF Counting
<1>11. \A j \in RunBefore(m + 1) : Ready(j)
  BY <1>4, <1>8
<1>12. ~Good2(m + 1)
  BY <1>4, <1>8
<1> HIDE DEF T
<1>13. Inputs /\ items[m].t \in {"block", "enum", "set", "plain", "skip", "struct"}
  BY <1>8 DEF Base, Inputs
<1>14. PICK e : e = items[m].exp
  OBVIOUS
<1>15. PICK t : t = items[m].step
  OBVIOUS
<1>16. e = items'[m].exp /\ t = items'[m].step /\ DOMAIN e.refs = 1..Len(e.refs) /\ DOMAIN t.refs = 1..Len(t.refs)
  BY <1>1, <1>8, <1>14, <1>15 DEF Base, Inputs
<1>17. CASE items[m].t = "block"
  BY <1>1, <1>10, <1>12, <1>17 DEF Counts
<1>18. CASE items[m].t = "enum"
  <2>1. Ready(m)
    BY <1>8, <1>11, <1>13, <1>18, RunNext
  <2>2. ExpSettled(e) /\ ExpSettled(t)
    BY <1>14, <1>15, <1>18, <2>1, ReadyIs, DefinedSettled
  <2>3. GetValue(e)' = GetValue(e) /\ GetValue(t)' = GetValue(t)
    BY <1>16, <2>2, GetValueStays
  <2> QED
    BY <1>1, <1>10, <1>12, <1>14, <1>15, <1>16, <1>18, <2>3 DEF Counts
<1>19. CASE items[m].t = "skip"
  <2>1. Ready(m) /\ \A j \in RunBefore(m) : Ready(j)
    BY <1>8, <1>11, <1>13, <1>19, RunNext
  <2>2. ExpSettled(e)
    BY <1>14, <1>19, <2>1, ReadyIs, DefinedSettled
  <2>3. GetValue(e)' = GetValue(e)
    BY <1>16, <2>2, GetValueStays
  <2> QED
    BY <1>1, <1>9, <1>10, <1>12, <1>14, <1>16, <1>19, <2>1, <2>3 DEF Counts
<1>20. CASE items[m].t \in {"set", "plain", "struct"}
  <2>1. \A j \in RunBefore(m) : Ready(j)
    BY <1>8, <1>11, <1>13, <1>20, RunNext
  <2> QED
    BY <1>1, <1>9, <1>10, <1>12, <1>20, <2>1 DEF Counts
<1> QED
  BY <1>13, <1>17, <1>18, <1>19, <1>20

-----------------------------------------------------------------------------
(* The passes in which constants are read.                                 *)

(* The number of the pass that runs, or that comes next.                   *)
PassNo ==
  CASE scan.phase = "first" -> 1
    [] scan.phase = "again" -> 2
    [] scan.phase \in {"link", "third"} -> 3
    [] scan.phase = "must" -> 4
    [] OTHER -> 5

\* was line k read, in its pass, before line a in pass n?
Early(f, k, n, a) == f[k] < n \/ (f[k] = n /\ k < a)
RunReadable(a, n, f) == \A j \in RunBefore(a) : ReadableAt(j, n, f)
Fits(i, n, f) == \A j \in Needs(i) : ReadableAt(j, n, f)
KnownLines == {k \in DOMAIN items : Declares(k) /\ Known(items[k].name)}

(* The passes as numbers; constants of child objects are linked from the   *)
(* third on.                                                               *)
LEMMA PassNoIs ==
  ASSUME Base
  PROVE  /\ PassNo \in 1..5
         /\ scan.phase = "first" => PassNo = 1
         /\ scan.phase = "again" => PassNo = 2
         /\ scan.phase \in {"link", "third"} => PassNo = 3
         /\ scan.phase = "must" => PassNo = 4
         /\ scan.phase = "done" => PassNo = 5
         /\ Passing => (scan.linked <=> PassNo >= 3)
         /\ PassNo < 3 => ~scan.linked
         /\ PassNo > 3 => scan.linked
         /\ PassNo = 3 /\ ~scan.linked => scan.phase = "link"
<1>1. scan.phase \in Phases /\ (scan.linked <=> scan.phase \in {"third", "must", "done"})
  BY DEF Base, Shape
<1>2. Passing => scan.phase # "link"
  BY DEF Passing
<1> QED
  BY <1>1, <1>2 DEF PassNo, Phases

(* What is readable in a pass is so in every later one;                    *)
LEMMA ReadableLater ==
  ASSUME NEW j, NEW m \in Int, NEW n \in Int, m <= n, NEW f, \A k \in DOMAIN f : f[k] \in 1..4, DOMAIN f \subseteq Int,
         ReadableAt(j, m, f)
  PROVE  ReadableAt(j, n, f)
<1>1. ASSUME NEW name, KnownAt(name, j, m, f) PROVE KnownAt(name, j, n, f)
  <2>1. CASE name \in DOMAIN Imported
    BY <1>1, <2>1 DEF KnownAt
  <2>2. CASE name \notin DOMAIN Imported
    <3>1. PICK k \in DOMAIN f : items[k].name = name /\ (f[k] < m \/ (f[k] = m /\ k < j))
      BY <1>1, <2>2 DEF KnownAt
    <3>2. f[k] < n \/ (f[k] = n /\ k < j)
      BY <3>1
    <3> QED
      BY <2>2, <3>1, <3>2 DEF KnownAt
  <2> QED
    BY <2>1, <2>2
<1> QED
  BY <1>1 DEF ReadableAt

(* it is the same with more constants read,                                *)
LEMMA ReadableMore ==
  ASSUME NEW j, NEW n, NEW f, NEW g, DOMAIN f \subseteq DOMAIN g, \A k \in DOMAIN f : g[k] = f[k], ReadableAt(j, n, f)
  PROVE  ReadableAt(j, n, g)
  BY DEF ReadableAt, KnownAt

(* unless they are read behind it.                                         *)
LEMMA ReadableBefore ==
  ASSUME NEW j \in Int, NEW n \in Int, NEW f, NEW g, NEW a \in Int, DOMAIN g = DOMAIN f \cup {a}, \A k \in DOMAIN f : g[k] = f[k],
         g[a] = n, j <= a, ReadableAt(j, n, g)
  PROVE  ReadableAt(j, n, f)
<1>1. ASSUME NEW name, KnownAt(name, j, n, g) PROVE KnownAt(name, j, n, f)
  <2>1. CASE name \in DOMAIN Imported
    BY <1>1, <2>1 DEF KnownAt
  <2>2. CASE name \notin DOMAIN Imported
    <3>1. PICK k \in DOMAIN g : items[k].name = name /\ (g[k] < n \/ (g[k] = n /\ k < j))
      BY <1>1, <2>2 DEF KnownAt
    <3>2. k # a
      BY <3>1
    <3> QED
      BY <2>2, <3>1, <3>2 DEF KnownAt
  <2> QED
    BY <2>1, <2>2
<1> QED
  BY <1>1 DEF ReadableAt

(* A line is ready in a pass if its names are known that are read before   *)
(* it,                                                                     *)
LEMMA ReadableReady ==
  ASSUME NEW j, NEW n, NEW f, \A k \in DOMAIN f : Early(f, k, n, j) => Known(items[k].name), n >= 3 => scan.linked,
         ReadableAt(j, n, f)
  PROVE  Ready(j)
<1>1. ASSUME NEW exp \in Expressions(j) PROVE Defined(exp)
  <2>1. ASSUME NEW x \in DOMAIN exp.refs PROVE Known(exp.refs[x]) \/ (scan.linked /\ exp.refs[x] \in DOMAIN Imported)
    <3>1. PICK name : name = exp.refs[x]
      OBVIOUS
    <3>2. KnownAt(name, j, n, f)
      BY <1>1, <2>1, <3>1 DEF ReadableAt
    <3> QED
      BY <3>1, <3>2 DEF KnownAt, Early
  <2> QED
    BY <2>1 DEF Defined
<1> QED
  BY <1>1 DEF Ready

Counted == {"enum", "set", "skip", "struct"}

(* and only if no others are known.                                        *)
LEMMA ReadyReadable ==
  ASSUME Base, NEW j, NEW n, NEW f, \A k \in DOMAIN items : Declares(k) /\ Known(items[k].name) => k \in DOMAIN f /\ Early(f, k, n, j),
         scan.linked => n >= 3,
         \A name \in DOMAIN symbols : \E k \in DOMAIN items : Declares(k) /\ items[k].name = name,
         Ready(j), items[j].t \in Counted
  PROVE  ReadableAt(j, n, f)
<1>1. ASSUME NEW exp \in Expressions(j), NEW x \in DOMAIN exp.refs PROVE KnownAt(exp.refs[x], j, n, f)
  <2>1. PICK name : name = exp.refs[x]
    OBVIOUS
  <2>2. Known(name) \/ (scan.linked /\ name \in DOMAIN Imported)
    BY <1>1, <2>1 DEF Ready, Counted, Defined
  <2>3. CASE Known(name)
    <3>1. PICK k \in DOMAIN items : Declares(k) /\ items[k].name = name
      BY <2>3 DEF Known
    <3>2. name \notin DOMAIN Imported
      BY <2>3 DEF Known, Base, OwnSymbols
    <3>3. k \in DOMAIN f /\ Early(f, k, n, j)
      BY <2>3, <3>1
    <3> QED
      BY <2>1, <3>1, <3>2, <3>3 DEF KnownAt, Early
  <2>4. CASE scan.linked /\ name \in DOMAIN Imported
    BY <2>1, <2>4 DEF KnownAt
  <2> QED
    BY <2>2, <2>3, <2>4
<1> QED
  BY <1>1 DEF ReadableAt

(* Nothing of this changes with the steps: the declarations are given.     *)
LEMMA SameLines ==
  ASSUME items' = items
  PROVE  /\ \A i : Declares(i)' <=> Declares(i)
         /\ \A i : Needs(i)' = Needs(i)
         /\ \A i : RunBefore(i)' = RunBefore(i)
         /\ \A j, n, f : ReadableAt(j, n, f)' <=> ReadableAt(j, n, f)
         /\ \A i, n, f : Fits(i, n, f)' <=> Fits(i, n, f)
         /\ \A a, n, f : RunReadable(a, n, f)' <=> RunReadable(a, n, f)
<1>1. \A i : Declares(i)' <=> Declares(i)
  BY DEF Declares
<1>2. \A i : RunBefore(i)' = RunBefore(i)
  BY DEF RunBefore
<1>3. \A i : Needs(i)' = Needs(i)
  <2> TAKE i
  <2>1. PICK m : m = i + 1
    OBVIOUS
  <2>2. RunBefore(m)' = RunBefore(m)
    BY <1>2
  <2> QED
    BY <2>1, <2>2 DEF Needs
<1>4. \A i : Expressions(i)' = Expressions(i)
  BY DEF Expressions
<1>5. \A name, j, n, f : KnownAt(name, j, n, f)' <=> KnownAt(name, j, n, f)
  BY DEF KnownAt
<1>6. \A j, n, f : ReadableAt(j, n, f)' <=> ReadableAt(j, n, f)
  BY <1>4, <1>5 DEF ReadableAt
<1> QED
  BY <1>1, <1>2, <1>3, <1>6 DEF Fits, RunReadable

-----------------------------------------------------------------------------
(* Every constant that is known has been read in one of the passes, with   *)
(* the names it needs read before it.                                      *)

NamesDeclared == \A name \in DOMAIN symbols : \E k \in DOMAIN items : Declares(k) /\ items[k].name = name

LineDone(i, f) == IF Declares(i) THEN i \in DOMAIN f ELSE Fits(i, 4, f)
NumberedBy(f) ==
  /\ DOMAIN f = KnownLines
  /\ \A k \in DOMAIN f : f[k] \in 1..4 /\ Early(f, k, PassNo, scan.at) /\ Fits(k, f[k], f)
  /\ scan.valid <=> RunReadable(scan.at, PassNo, f)
  /\ scan.phase = "link" => scan.at = 1
  /\ scan.phase = "must" => \A i \in 1..(scan.at - 1) : LineDone(i, f)
  /\ scan.phase = "done" => \A i \in DOMAIN items : LineDone(i, f)

(* A line is ready if what it needs was read before it.                    *)
LEMMA ReadyIff ==
  ASSUME Base, NamesDeclared, NEW f, NumberedBy(f), Passing
  PROVE  ReadableAt(scan.at, PassNo, f) => Ready(scan.at)
<1>1. PICK a : a = scan.at
  OBVIOUS
<1>2. PICK n : n = PassNo
  OBVIOUS
<1>3. n >= 3 => scan.linked
  BY <1>2, PassNoIs
<1>4. \A k \in DOMAIN f : Known(items[k].name)
  BY DEF NumberedBy, KnownLines
<1> QED
  BY <1>1, <1>2, <1>3, <1>4, ReadableReady

(* And if it is ready, what it needs was read.                             *)
LEMMA ReadyThen ==
  ASSUME Base, NamesDeclared, NEW f, NumberedBy(f), Passing, Ready(scan.at), items[scan.at].t \in Counted
  PROVE  ReadableAt(scan.at, PassNo, f)
<1>1. PICK a : a = scan.at
  OBVIOUS
<1>2. PICK n : n = PassNo
  OBVIOUS
<1>3. scan.linked => n >= 3
  BY <1>2, PassNoIs
<1>4. \A k \in DOMAIN items : Declares(k) /\ Known(items[k].name) => k \in DOMAIN f /\ Early(f, k, n, a)
  BY <1>1, <1>2 DEF NumberedBy, KnownLines
<1>5. ReadableAt(a, n, f)
  BY <1>1, <1>3, <1>4, ReadyReadable DEF NamesDeclared
<1> QED
  BY <1>1, <1>2, <1>5

(* All lines that a known constant needs are ready.                        *)
LEMMA NeedsReady ==
  ASSUME Base, NEW f, NumberedBy(f), NEW k \in DOMAIN f, NEW j \in Needs(k)
  PROVE  Ready(j)
<1>1. PICK m : m = f[k]
  OBVIOUS
<1>2. PICK n : n = PassNo
  OBVIOUS
<1>3. PICK a : a = scan.at
  OBVIOUS
<1>4. m \in 1..4 /\ (m < n \/ (m = n /\ k < a)) /\ ReadableAt(j, m, f)
  BY <1>1, <1>2, <1>3 DEF NumberedBy, Early, Fits
<1>5. /\ n \in 1..5 /\ (n > 3 => scan.linked) /\ (n = 3 /\ ~scan.linked => scan.phase = "link")
      /\ k \in Nat \ {0}
  BY <1>2, PassNoIs DEF NumberedBy, KnownLines, Base, Inputs
<1>6. m >= 3 => scan.linked
  <2>1. SUFFICES ASSUME m >= 3, n = 3, scan.phase = "link" PROVE FALSE
    BY <1>4, <1>5
  <2>2. m = 3 /\ k < a /\ a = 1
    BY <1>3, <1>4, <2>1 DEF NumberedBy
  <2> QED
    BY <1>5, <2>2
<1>7. \A x \in DOMAIN f : Known(items[x].name)
  BY DEF NumberedBy, KnownLines
<1> QED
  BY <1>4, <1>6, <1>7, ReadableReady

(* A line that is passed over leaves the numbers as they are; one that     *)
(* is recorded has that of the pass.                                       *)
LEMMA NumbersGoOn ==
  ASSUME Base, NamesDeclared, Flags, Distinct, scan.phase = "must" => scan.valid = TRUE, NEW f, NumberedBy(f), Reads(scan.at)
  PROVE  \E g : NumberedBy(g)'
<1>1. PICK a : a = scan.at
  OBVIOUS
<1>2. PICK n : n = PassNo
  OBVIOUS
<1>3. /\ a \in DOMAIN items /\ a \in Nat \ {0} /\ DOMAIN items \subseteq Nat /\ Inputs /\ items' = items
      /\ Passing /\ scan'.at = a + 1 /\ scan'.phase = scan.phase /\ DOMAIN items = 1..Len(items)
  BY <1>1 DEF Reads, At, Base, Inputs
<1>4. n \in 1..4
  BY <1>2, <1>3, PassNoIs DEF Passing
<1>5. PassNo' = n
  BY <1>2, <1>3 DEF PassNo
<1> DEFINE g == IF New(a) THEN [k \in DOMAIN f \cup {a} |-> IF k = a THEN n ELSE f[k]] ELSE f
<1>6. DOMAIN f = KnownLines /\ \A k \in DOMAIN f : k \in DOMAIN items /\ Declares(k) /\ Known(items[k].name)
  BY DEF NumberedBy, KnownLines
<1>7. New(a) => a \notin DOMAIN f
  BY <1>6 DEF New
<1>8. /\ DOMAIN f \subseteq DOMAIN g /\ \A k \in DOMAIN f : g[k] = f[k]
      /\ New(a) => DOMAIN g = DOMAIN f \cup {a} /\ g[a] = n
      /\ ~New(a) => g = f
  BY <1>7
<1> HIDE DEF g
<1>9. /\ \A j, m : ReadableAt(j, m, f) => ReadableAt(j, m, g)
      /\ \A i, m : Fits(i, m, f) => Fits(i, m, g)
  <2>1. \A j, m : ReadableAt(j, m, f) => ReadableAt(j, m, g)
    BY <1>8, ReadableMore
  <2> QED
    BY <2>1 DEF Fits
<1>10. \A j \in 1..a : ReadableAt(j, n, g) <=> ReadableAt(j, n, f)
  <2>1. CASE New(a)
    BY <1>3, <1>4, <1>8, <1>9, <2>1, ReadableBefore
  <2>2. CASE ~New(a)
    BY <1>8, <2>2
  <2> QED
    BY <2>1, <2>2
<1>11. items[a].t \in Counted => (Ready(a) <=> ReadableAt(a, n, f))
  BY <1>1, <1>2, <1>3, ReadyIff, ReadyThen
<1>12. scan.valid <=> RunReadable(a, n, f)
  BY <1>1, <1>2 DEF NumberedBy
<1>13. RunBefore(a) \subseteq 1..a /\ RunBefore(a + 1) \subseteq 1..a
  BY <1>3 DEF RunBefore
<1>14. items[a].t \in {"block", "enum", "set", "plain", "skip", "struct"}
  BY <1>3 DEF Inputs
<1>15. KnownLines' = DOMAIN g
  <2>1. KnownLines' = {k \in DOMAIN items : Declares(k) /\ items[k].name \in DOMAIN symbols'}
    BY <1>3, SameLines DEF KnownLines, Known
  <2>2. CASE New(a)
    <3>1. DOMAIN symbols' = DOMAIN symbols \cup {items[a].name}
      BY <1>1, <2>2 DEF Reads, Records, RecordCONSymbolValue
    <3>2. \A k \in DOMAIN items : Declares(k) /\ items[k].name = items[a].name => k = a
      BY <1>3, <2>2 DEF Distinct, New
    <3>3. Declares(a)
      BY <2>2 DEF New
    <3> QED
      BY <1>3, <1>6, <1>8, <2>1, <2>2, <3>1, <3>2, <3>3 DEF KnownLines, Known
  <2>3. CASE ~New(a)
    <3>1. symbols' = symbols
      BY <1>1, <2>3 DEF Reads, Records, Same
    <3> QED
      BY <1>6, <1>8, <2>1, <2>3, <3>1 DEF KnownLines, Known
  <2> QED
    BY <2>2, <2>3
<1>16. ASSUME New(a) PROVE Fits(a, n, g)
  <2>1. CASE items[a].t = "set"
    <3>1. Needs(a) = {a} /\ Ready(a)
      BY <1>3, <1>16, <2>1, NeedsIs DEF New, Recordable
    <3>2. ReadableAt(a, n, g)
      BY <1>9, <1>11, <2>1, <3>1 DEF Counted
    <3> QED
      BY <3>1, <3>2 DEF Fits
  <2>2. CASE items[a].t = "plain"
    <3>1. Needs(a) = RunBefore(a) /\ scan.valid
      BY <1>3, <1>16, <2>2, NeedsIs DEF New, Recordable
    <3> QED
      BY <1>9, <1>12, <3>1 DEF Fits, RunReadable
  <2>3. CASE items[a].t = "skip"
    <3>1. Needs(a) = RunBefore(a) \cup {a} /\ scan.valid /\ Ready(a)
      BY <1>3, <1>16, <2>3, NeedsIs DEF New, Recordable
    <3>2. ReadableAt(a, n, g)
      BY <1>9, <1>11, <2>3, <3>1 DEF Counted
    <3> QED
      BY <1>9, <1>12, <3>1, <3>2 DEF Fits, RunReadable
  <2> QED
    BY <1>16, <2>1, <2>2, <2>3 DEF New, Recordable
<1>17. ASSUME NEW k \in DOMAIN g PROVE g[k] \in 1..4 /\ Early(g, k, n, a + 1) /\ Fits(k, g[k], g)
  <2>1. CASE k \in DOMAIN f
    <3>1. g[k] = f[k] /\ f[k] \in 1..4 /\ Early(f, k, n, a) /\ Fits(k, f[k], f) /\ k \in Nat
      BY <1>1, <1>2, <1>3, <1>6, <1>8, <2>1 DEF NumberedBy
    <3>2. Early(g, k, n, a + 1)
      BY <1>3, <3>1 DEF Early
    <3> QED
      BY <1>9, <3>1, <3>2
  <2>2. CASE k \notin DOMAIN f
    <3>1. New(a) /\ k = a /\ g[k] = n
      BY <1>8, <1>17, <2>2
    <3> QED
      BY <1>3, <1>4, <1>16, <3>1 DEF Early
  <2> QED
    BY <2>1, <2>2
<1>18. scan'.valid <=> RunReadable(a + 1, n, g)
  <2>1. RunReadable(a, n, g) <=> scan.valid
    BY <1>10, <1>12, <1>13 DEF RunReadable
  <2>2. ValidNext(a) /\ Flags'
    BY <1>1 DEF Reads
  <2>3. CASE items[a].t = "block"
    BY <1>3, <2>2, <2>3, RunNext DEF ValidNext, RunReadable
  <2>4. CASE items[a].t = "enum"
    <3>1. RunBefore(a + 1) = {a} /\ (ReadableAt(a, n, g) <=> Ready(a))
      BY <1>3, <1>10, <1>11, <2>4, RunNext DEF Counted
    <3> QED
      BY <2>2, <2>4, <3>1 DEF ValidNext, RunReadable
  <2>5. CASE items[a].t = "skip"
    <3>1. RunBefore(a + 1) = RunBefore(a) \cup {a} /\ (ReadableAt(a, n, g) <=> Ready(a))
      BY <1>3, <1>10, <1>11, <2>5, RunNext DEF Counted
    <3> QED
      BY <2>1, <2>2, <2>5, <3>1 DEF ValidNext, RunReadable
  <2>6. CASE items[a].t \in {"set", "plain", "struct"}
    <3>1. RunBefore(a + 1) = RunBefore(a)
      BY <1>3, <2>6, RunNext
    <3> QED
      BY <2>1, <2>2, <2>6, <3>1 DEF ValidNext, RunReadable
  <2> QED
    BY <1>14, <2>3, <2>4, <2>5, <2>6
<1>19. ASSUME scan.phase = "must", NEW i \in 1..a PROVE LineDone(i, g)
  <2>1. CASE i # a
    <3>1. i \in 1..(a - 1)
      BY <1>3, <2>1
    <3>2. LineDone(i, f)
      BY <1>1, <1>19, <3>1 DEF NumberedBy
    <3> QED
      BY <1>8, <1>9, <3>2 DEF LineDone
  <2>2. CASE i = a
    <3>1. Ready(a) /\ scan.valid /\ n = 4
      BY <1>1, <1>2, <1>19, PassNoIs DEF Reads
    <3>2. CASE Declares(a)
      <4>1. Recordable(a)
        BY <3>1, <3>2 DEF Recordable, Declares
      <4>2. CASE Known(items[a].name)
        BY <1>3, <1>6, <1>8, <2>2, <3>2, <4>2 DEF KnownLines, LineDone
      <4>3. CASE ~Known(items[a].name)
        BY <1>8, <2>2, <3>2, <4>1, <4>3 DEF New, LineDone
      <4> QED
        BY <4>2, <4>3
    <3>3. CASE ~Declares(a)
      <4>1. CASE items[a].t = "block"
        <5>1. Needs(a) = {}
          BY <1>3, <4>1, NeedsIs
        <5> QED
          BY <2>2, <3>3, <5>1 DEF LineDone, Fits
      <4>2. CASE items[a].t \in {"enum", "struct"}
        <5>1. Needs(a) = {a}
          BY <1>3, <4>2, NeedsIs
        <5>2. ReadableAt(a, 4, g)
          BY <1>9, <1>11, <3>1, <4>2 DEF Counted
        <5> QED
          BY <2>2, <3>3, <5>1, <5>2 DEF LineDone, Fits
      <4> QED
        BY <1>14, <3>3, <4>1, <4>2 DEF Declares
    <3> QED
      BY <3>2, <3>3
  <2> QED
    BY <2>1, <2>2
<1>20. \A i, h : LineDone(i, h)' <=> LineDone(i, h)
  BY <1>3, SameLines DEF LineDone
<1>21. PICK h : h = g
  OBVIOUS
<1>22. (scan.phase = "must" => \A i \in 1..((a + 1) - 1) : LineDone(i, h)') /\ scan.phase \notin {"done", "link"}
  BY <1>3, <1>19, <1>20, <1>21 DEF Passing
<1>23. \A k \in DOMAIN h : h[k] \in 1..4 /\ Early(h, k, n, a + 1) /\ Fits(k, h[k], h)'
  BY <1>3, <1>17, <1>21, SameLines
<1>24. scan'.valid <=> RunReadable(a + 1, n, h)'
  BY <1>3, <1>18, <1>21, SameLines
<1> QED
  BY <1>3, <1>5, <1>15, <1>22, <1>23, <1>24, <1>21 DEF NumberedBy, Early

-----------------------------------------------------------------------------
(* No pass finds another value than an earlier one.                        *)

(* Every constant that is known has the value of its line, and while the   *)
(* enumeration can be counted, it is counted right.                        *)
HasValue(k, v) ==
  symbols[items[k].name] = Overridden(items[k].name, IF items[k].t = "set" THEN GetValue(items[k].exp) ELSE v[k])
Valued ==
  \A v, s : Counting(v, s) =>
    /\ \A k \in KnownLines : HasValue(k, v)
    /\ scan.valid = TRUE => v[scan.at] = scan.value /\ s[scan.at] = scan.step

(* Reading a line keeps the constants there are.                           *)
LEMMA ReadsKeeps ==
  ASSUME Base, Reads(scan.at)
  PROVE  Kept
<1>1. PICK a : a = scan.at
  OBVIOUS
<1>2. a \in DOMAIN items /\ UNCHANGED <<items, overrides>>
  BY <1>1 DEF Reads, At
<1>3. CASE New(a)
  <2>1. RecordCONSymbolValue(items[a].name, ValueHere(a))
    BY <1>1, <1>3 DEF Reads, Records
  <2>2. PICK name : name = items[a].name
    OBVIOUS
  <2>3. name \notin DOMAIN Imported /\ name \notin DOMAIN symbols
    BY <1>2, <1>3, <2>2 DEF Base, Inputs, New, Known
  <2>4. PICK x : symbols' = [n \in DOMAIN symbols \cup {name} |-> IF n = name THEN x ELSE symbols[n]]
    BY <2>1, <2>2 DEF RecordCONSymbolValue
  <2> QED
    BY <1>2, <2>3, <2>4 DEF Kept
<1>4. CASE ~New(a)
  BY <1>1, <1>2, <1>4 DEF Reads, Records, Same, Kept
<1> QED
  BY <1>3, <1>4

(* While the enumeration can be counted, the names of its lines are known. *)
LEMMA RunReady ==
  ASSUME Base, NEW f, NumberedBy(f), Passing, scan.valid
  PROVE  \A j \in RunBefore(scan.at) : Ready(j)
<1>1. PICK n : n = PassNo
  OBVIOUS
<1>2. n >= 3 => scan.linked
  BY <1>1, PassNoIs
<1>3. \A k \in DOMAIN f : Known(items[k].name)
  BY DEF NumberedBy, KnownLines
<1>4. \A j \in RunBefore(scan.at) : ReadableAt(j, n, f)
  BY <1>1 DEF NumberedBy, RunReadable
<1> QED
  BY <1>2, <1>3, <1>4, ReadableReady

(* The expression of a line that is ready keeps its value.                 *)
LEMMA ExpStays ==
  ASSUME Base, Kept, NEW i \in DOMAIN items, Ready(i)
  PROVE  /\ items[i].t \in {"enum", "set", "skip", "struct"} => GetValue(items[i].exp)' = GetValue(items[i].exp)
         /\ items[i].t = "enum" => GetValue(items[i].step)' = GetValue(items[i].step)
<1>1. PICK e : e = items[i].exp
  OBVIOUS
<1>2. PICK t : t = items[i].step
  OBVIOUS
<1>3. e = items'[i].exp /\ t = items'[i].step /\ DOMAIN e.refs = 1..Len(e.refs) /\ DOMAIN t.refs = 1..Len(t.refs)
  BY <1>1, <1>2 DEF Kept, Base, Inputs
<1>4. items[i].t \in {"enum", "set", "skip", "struct"} => ExpSettled(e)
  BY <1>1, ReadyIs, DefinedSettled
<1>5. items[i].t = "enum" => ExpSettled(t)
  BY <1>2, ReadyIs, DefinedSettled
<1>6. items[i].t \in {"enum", "set", "skip", "struct"} => GetValue(e)' = GetValue(e)
  BY <1>3, <1>4, GetValueStays
<1>7. items[i].t = "enum" => GetValue(t)' = GetValue(t)
  BY <1>3, <1>5, GetValueStays
<1> QED
  BY <1>1, <1>2, <1>3, <1>6, <1>7

(* So do the values of the constants, and the count.                       *)
LEMMA ValuedGoesOn ==
  ASSUME Base, NamesDeclared, Flags, Distinct, NEW f, NumberedBy(f), Valued, Reads(scan.at)
  PROVE  Valued'
<1>1. PICK a : a = scan.at
  OBVIOUS
<1>2. /\ a \in DOMAIN items /\ a \in 1..(Len(items) + 1) /\ Inputs /\ items' = items /\ overrides' = overrides
      /\ Passing /\ scan'.at = a + 1 /\ DOMAIN items = 1..Len(items) /\ Len(items) \in Nat
  BY <1>1 DEF Reads, At, Base, Inputs
<1>3. Kept
  BY ReadsKeeps
<1>4. SUFFICES ASSUME NEW v, NEW s, Counting(v, s)'
      PROVE  /\ \A k \in KnownLines' : HasValue(k, v)'
             /\ scan'.valid = TRUE => v[a + 1] = scan'.value /\ s[a + 1] = scan'.step
  BY <1>2 DEF Valued
<1>5. PICK w, r : Counting(w, r)
  BY <1>2, CountExists
<1>6. /\ \A k \in KnownLines : HasValue(k, w)
      /\ scan.valid = TRUE => w[a] = scan.value /\ r[a] = scan.step
  BY <1>1, <1>5 DEF Valued
<1>7. scan.valid = TRUE => v[a] = scan.value /\ s[a] = scan.step
  <2>1. SUFFICES ASSUME scan.valid = TRUE PROVE v[a] = w[a] /\ s[a] = r[a]
    BY <1>6
  <2>2. \A j \in RunBefore(a) : Ready(j)
    BY <1>1, <1>2, <2>1, RunReady
  <2> QED
    BY <1>2, <1>3, <1>4, <1>5, <2>2, CountStays
<1>8. ASSUME NEW k \in KnownLines PROVE items[k].t = "set" \/ v[k] = w[k]
  <2>1. SUFFICES ASSUME items[k].t # "set" PROVE v[k] = w[k]
    OBVIOUS
  <2>2. k \in DOMAIN f /\ k \in DOMAIN items /\ items[k].t \in {"plain", "skip"}
    BY <2>1 DEF NumberedBy, KnownLines, Declares
  <2>3. RunBefore(k) \subseteq Needs(k)
    BY <1>2, <2>2, NeedsIs
  <2>4. \A j \in RunBefore(k) : Ready(j)
    BY <2>2, <2>3, NeedsReady
  <2>5. k \in 1..(Len(items) + 1)
    BY <1>2, <2>2
  <2> QED
    BY <1>3, <1>4, <1>5, <2>4, <2>5, CountStays
<1>9. ASSUME NEW k \in KnownLines, items[k].t = "set" PROVE GetValue(items[k].exp)' = GetValue(items[k].exp)
  <2>1. k \in DOMAIN f /\ k \in DOMAIN items
    BY DEF NumberedBy, KnownLines
  <2>2. k \in Needs(k)
    BY <1>2, <1>9, <2>1, NeedsIs
  <2>3. Ready(k)
    BY <2>1, <2>2, NeedsReady
  <2> QED
    BY <1>3, <1>9, <2>1, <2>3, ExpStays
<1>10. \A name, x : Overridden(name, x)' = Overridden(name, x)
  BY <1>2 DEF Overridden
<1>11. ASSUME NEW k \in KnownLines' PROVE HasValue(k, v)'
  <2>1. PICK name : name = items[k].name
    OBVIOUS
  <2>2. k \in DOMAIN items /\ Declares(k) /\ name \in DOMAIN symbols' /\ name = items'[k].name
    BY <1>2, <1>11, <2>1, SameLines DEF KnownLines, Known
  <2>a. PICK e : e = items[k].exp
    OBVIOUS
  <2>3. PICK x : x = IF items[k].t = "set" THEN GetValue(e)' ELSE v[k]
    OBVIOUS
  <2>4. SUFFICES symbols'[name] = Overridden(name, x)
    <3>1. e = items'[k].exp
      BY <1>2, <2>a
    <3> QED
      BY <1>2, <2>1, <2>2, <2>3, <3>1 DEF Overridden, HasValue
  <2>5. CASE k \in KnownLines
    <3>1. x = IF items[k].t = "set" THEN GetValue(items[k].exp) ELSE w[k]
      BY <1>2, <1>8, <1>9, <2>a, <2>3, <2>5
    <3>2. symbols[name] = Overridden(name, x)
      BY <1>6, <2>1, <2>5, <3>1 DEF HasValue
    <3>3. name \in DOMAIN symbols
      BY <2>1, <2>5 DEF KnownLines, Known
    <3> QED
      BY <1>3, <3>2, <3>3 DEF Kept
  <2>6. CASE k \notin KnownLines
    <3>1. ~Known(name)
      BY <2>1, <2>2, <2>6 DEF KnownLines
    <3>2. New(a)
      BY <1>1, <2>2, <3>1 DEF Reads, Records, Same, Known
    <3>3. RecordCONSymbolValue(items[a].name, ValueHere(a))
      BY <1>1, <3>2 DEF Reads, Records
    <3>4. name = items[a].name
      BY <2>2, <3>1, <3>3 DEF RecordCONSymbolValue, Known
    <3>5. k = a
      BY <1>2, <2>1, <2>2, <3>2, <3>4 DEF Distinct, New
    <3>6. symbols'[name] = Overridden(name, ValueHere(a))
      BY <3>3, <3>4, RecordValue
    <3>7. ValueHere(a) = x
      <4>1. CASE items[a].t = "set"
        <5>1. Ready(a)
          BY <3>2, <4>1 DEF New, Recordable
        <5>2. GetValue(items[a].exp)' = GetValue(items[a].exp)
          BY <1>2, <1>3, <4>1, <5>1, ExpStays
        <5> QED
          BY <1>2, <2>a, <2>3, <3>5, <4>1, <5>2 DEF ValueHere
      <4>2. CASE items[a].t # "set"
        <5>1. scan.valid = TRUE
          BY <3>2, <4>2 DEF New, Recordable, Flags
        <5> QED
          BY <1>2, <1>7, <2>3, <3>5, <4>2, <5>1 DEF ValueHere
      <4> QED
        BY <4>1, <4>2
    <3> QED
      BY <3>6, <3>7
  <2> QED
    BY <2>5, <2>6
<1>12. ASSUME scan'.valid = TRUE PROVE v[a + 1] = scan'.value /\ s[a + 1] = scan'.step
  <2>1. ValidNext(a) /\ NewCount(a)
    BY <1>1, <1>12 DEF Reads
  <2>2. Counts(v, s, a)'
    BY <1>2, <1>4 DEF Counting
  <2>3. items[a].t \in {"block", "enum", "set", "plain", "skip", "struct"}
    BY <1>2 DEF Inputs
  <2>4. CASE items[a].t = "block"
    BY <1>2, <2>1, <2>2, <2>4 DEF Counts, NewCount
  <2>5. CASE items[a].t = "enum"
    <3>1. Ready(a)
      BY <1>12, <2>1, <2>5 DEF ValidNext
    <3>2. GetValue(items[a].exp)' = GetValue(items[a].exp) /\ GetValue(items[a].step)' = GetValue(items[a].step)
      BY <1>2, <1>3, <2>5, <3>1, ExpStays
    <3> QED
      BY <1>2, <2>1, <2>2, <2>5, <3>2 DEF Counts, NewCount
  <2>6. CASE items[a].t = "skip"
    <3>1. Ready(a) /\ scan.valid = TRUE
      BY <1>12, <2>1, <2>6 DEF ValidNext, Flags
    <3>2. GetValue(items[a].exp)' = GetValue(items[a].exp)
      BY <1>2, <1>3, <2>6, <3>1, ExpStays
    <3> QED
      BY <1>2, <1>7, <2>1, <2>2, <2>6, <3>1, <3>2 DEF Counts, NewCount
  <2>7. CASE items[a].t \in {"set", "plain", "struct"}
    <3>1. scan.valid = TRUE
      BY <1>12, <2>1, <2>7 DEF ValidNext, Flags
    <3> QED
      BY <1>2, <1>7, <2>1, <2>2, <2>7, <3>1 DEF Counts, NewCount
  <2> QED
    BY <2>3, <2>4, <2>5, <2>6, <2>7
<1> QED
  BY <1>11, <1>12

(* So no constant that is met again has another value.                     *)
LEMMA NoneClashes ==
  ASSUME Base, Flags, Distinct, NEW f, NumberedBy(f), Valued, Clashes(scan.at)
  PROVE  FALSE
<1>1. PICK a : a = scan.at
  OBVIOUS
<1>2. PICK n : n = PassNo
  OBVIOUS
<1>3. a \in DOMAIN items /\ Declares(a) /\ Known(items[a].name) /\ Passing /\ Inputs /\ DOMAIN items \subseteq Int
  BY <1>1 DEF Clashes, At, Base, Inputs
<1>4. a \in DOMAIN f
  BY <1>3 DEF NumberedBy, KnownLines
<1>5. f[a] \in 1..4 /\ f[a] < n /\ Fits(a, f[a], f) /\ n \in 1..5
  BY <1>1, <1>2, <1>3, <1>4, PassNoIs DEF NumberedBy, Early
<1>6. scan.phase # "first"
  BY <1>2, <1>5, PassNoIs
<1>7. Ready(a) /\ symbols[items[a].name] # Overridden(items[a].name, ValueHere(a))
  BY <1>1, <1>6 DEF Clashes
<1>8. PICK w, r : Counting(w, r)
  BY <1>3, CountExists
<1>9. /\ symbols[items[a].name] = Overridden(items[a].name, IF items[a].t = "set" THEN GetValue(items[a].exp) ELSE w[a])
      /\ scan.valid = TRUE => w[a] = scan.value
  BY <1>1, <1>3, <1>8 DEF Valued, HasValue, KnownLines
<1>10. items[a].t # "set"
  BY <1>7, <1>9 DEF ValueHere
<1>11. RunBefore(a) \subseteq Needs(a)
  BY <1>3, <1>10, NeedsIs DEF Declares
<1>12. RunReadable(a, n, f)
  <2>1. \A k \in DOMAIN f : f[k] \in 1..4
    BY DEF NumberedBy
  <2>2. DOMAIN f \subseteq Int
    BY <1>3 DEF NumberedBy, KnownLines
  <2>3. PICK m : m = f[a]
    OBVIOUS
  <2>4. m \in Int /\ n \in Int /\ m <= n
    BY <1>5, <2>3
  <2>5. ASSUME NEW j \in RunBefore(a) PROVE ReadableAt(j, n, f)
    <3>1. ReadableAt(j, m, f)
      BY <1>5, <1>11, <2>3 DEF Fits
    <3> QED
      BY <2>1, <2>2, <2>4, <3>1, ReadableLater
  <2> QED
    BY <2>5 DEF RunReadable
<1>13. scan.valid = TRUE
  BY <1>1, <1>2, <1>12 DEF NumberedBy, Flags
<1> QED
  BY <1>7, <1>9, <1>10, <1>13 DEF ValueHere

-----------------------------------------------------------------------------
(* What a pass cannot read, it comes back to; and whatever can be read in  *)
(* a pass is read in it.                                                   *)

Pending ==
  scan.unresolved = FALSE =>
    /\ scan.valid = TRUE
    /\ \A i \in DOMAIN items : Declares(i) /\ (i < scan.at \/ scan.phase = "link") => Known(items[i].name)

AllPasses == [{i \in DOMAIN items : Declares(i)} -> 1..4]
Complete(R) ==
  /\ scan.err = NoError
  /\ \A k \in DOMAIN R : Early(R, k, PassNo, scan.at) => Known(items[k].name)
  /\ RunReadable(scan.at, PassNo, R) => scan.valid

(* A constant that can be recorded is known behind its line.               *)
LEMMA KnownGrows ==
  ASSUME Base, Reads(scan.at)
  PROVE  Declares(scan.at) /\ Recordable(scan.at) => items[scan.at].name \in DOMAIN symbols'
<1>1. PICK a : a = scan.at
  OBVIOUS
<1>3. ASSUME Declares(a), Recordable(a) PROVE items[a].name \in DOMAIN symbols'
  <2>1. CASE Known(items[a].name)
    BY <2>1, ReadsKeeps DEF Kept, Known
  <2>2. CASE ~Known(items[a].name)
    <3>1. RecordCONSymbolValue(items[a].name, ValueHere(a))
      BY <1>1, <1>3, <2>2 DEF Reads, Records, New
    <3> QED
      BY <3>1, RecordValue
  <2> QED
    BY <2>1, <2>2
<1> QED
  BY <1>1, <1>3

(* As long as nothing is left open, all lines in front have been read.     *)
LEMMA PendingGoesOn ==
  ASSUME Base, Flags, Pending, Reads(scan.at)
  PROVE  Pending'
<1>1. PICK a : a = scan.at
  OBVIOUS
<1>2. /\ a \in DOMAIN items /\ items' = items /\ scan'.at = a + 1 /\ scan'.phase # "link" /\ DOMAIN items \subseteq Int
      /\ items[a].t \in {"block", "enum", "set", "plain", "skip", "struct"} /\ Flags' /\ ValidNext(a)
  BY <1>1 DEF Reads, At, Base, Inputs, Passing
<1>3. SUFFICES ASSUME scan'.unresolved = FALSE
      PROVE  /\ scan'.valid = TRUE
             /\ \A i \in DOMAIN items : Declares(i) /\ i < a + 1 => items[i].name \in DOMAIN symbols'
  BY <1>2, SameLines DEF Pending, Known
<1>4. scan.unresolved = FALSE /\ (items[a].t \in {"enum", "set", "skip"} => Ready(a)) /\ scan.valid = TRUE
  BY <1>1, <1>3 DEF Reads, Resolving, Pending
<1>5. scan'.valid = TRUE
  BY <1>2, <1>4 DEF ValidNext, Flags
<1>6. ASSUME NEW i \in DOMAIN items, Declares(i), i < a + 1 PROVE items[i].name \in DOMAIN symbols'
  <2>1. CASE i = a
    <3>1. Recordable(a)
      BY <1>4, <1>6, <2>1 DEF Recordable, Declares
    <3> QED
      BY <1>1, <1>6, <2>1, <3>1, KnownGrows
  <2>2. CASE i # a
    <3>1. PICK name : name = items[i].name
      OBVIOUS
    <3>2. Known(name)
      BY <1>1, <1>2, <1>4, <1>6, <2>2, <3>1 DEF Pending
    <3> QED
      BY <3>1, <3>2, ReadsKeeps DEF Kept, Known
  <2> QED
    BY <2>1, <2>2
<1> QED
  BY <1>5, <1>6

(* What a line needs stands in front of it, or is the line itself.         *)
LEMMA NeedsBefore ==
  ASSUME Inputs, NEW a \in DOMAIN items
  PROVE  /\ \A j \in Needs(a) : j \in Int /\ j <= a
         /\ \A j \in RunBefore(a) : j \in Int /\ j < a
<1>1. a \in Int /\ \A j \in RunBefore(a) : j \in Int /\ j < a
  BY DEF RunBefore, Inputs
<1> QED
  BY <1>1, NeedsIs DEF Inputs

(* Whatever a numbering of the passes lets be read by now, is ready.       *)
LEMMA CompleteReady ==
  ASSUME Base, NEW R \in AllPasses, Complete(R), Passing, NEW j \in Int, j <= scan.at, ReadableAt(j, PassNo, R)
  PROVE  Ready(j)
<1>1. PICK a : a = scan.at
  OBVIOUS
<1>2. PICK n : n = PassNo
  OBVIOUS
<1>3. n >= 3 => scan.linked
  BY <1>2, PassNoIs
<1>4. DOMAIN R \subseteq Int /\ a \in Int
  BY <1>1 DEF AllPasses, Base, Inputs, Shape
<1>5. \A k \in DOMAIN R : Early(R, k, n, j) => Known(items[k].name)
  BY <1>1, <1>2, <1>4 DEF Complete, Early
<1> QED
  BY <1>2, <1>3, <1>5, ReadableReady

(* So each line is read no later than in its pass.                         *)
LEMMA CompleteGoesOn ==
  ASSUME Base, Flags, NEW R \in AllPasses, Resolves(R), Complete(R), Reads(scan.at)
  PROVE  Complete(R)'
<1>1. PICK a : a = scan.at
  OBVIOUS
<1>2. PICK n : n = PassNo
  OBVIOUS
<1>3. /\ a \in DOMAIN items /\ a \in Int /\ Inputs /\ items' = items /\ Passing
      /\ scan'.at = a + 1 /\ scan'.phase = scan.phase /\ scan'.err = scan.err /\ Flags' /\ ValidNext(a)
  BY <1>1 DEF Reads, At, Base, Inputs
<1>4. PassNo' = n
  BY <1>2, <1>3 DEF PassNo
<1>5. items[a].t \in {"block", "enum", "set", "plain", "skip", "struct"}
  BY <1>3 DEF Inputs
<1>6. ASSUME RunReadable(a, n, R) PROVE scan.valid
  BY <1>1, <1>2, <1>6 DEF Complete
<1>7. ASSUME ReadableAt(a, n, R) PROVE Ready(a)
  BY <1>1, <1>2, <1>3, <1>7, CompleteReady
<1>8. ASSUME NEW k \in DOMAIN R, Early(R, k, n, a + 1) PROVE items[k].name \in DOMAIN symbols'
  <2>1. k \in DOMAIN items /\ Declares(k) /\ R[k] \in 1..4 /\ k \in Int
    BY <1>3 DEF AllPasses, Inputs
  <2>2. CASE Early(R, k, n, a)
    <3>1. PICK name : name = items[k].name
      OBVIOUS
    <3>2. Known(name)
      BY <1>1, <1>2, <2>2, <3>1 DEF Complete
    <3> QED
      BY <3>1, <3>2, ReadsKeeps DEF Kept, Known
  <2>3. CASE ~Early(R, k, n, a)
    <3>1. k = a /\ R[a] = n
      BY <1>3, <1>8, <2>1, <2>3 DEF Early
    <3>2. \A j \in Needs(a) : ReadableAt(j, n, R)
      BY <2>1, <3>1 DEF Resolves
    <3>3. Recordable(a)
      <4>1. CASE items[a].t = "set"
        BY <1>3, <1>7, <3>2, <4>1, NeedsIs DEF Recordable
      <4>2. CASE items[a].t = "plain"
        BY <1>3, <1>6, <3>2, <4>2, NeedsIs DEF Recordable, RunReadable
      <4>3. CASE items[a].t = "skip"
        BY <1>3, <1>6, <1>7, <3>2, <4>3, NeedsIs DEF Recordable, RunReadable
      <4> QED
        BY <2>1, <3>1, <4>1, <4>2, <4>3 DEF Declares
    <3> QED
      BY <1>1, <2>1, <3>1, <3>3, KnownGrows
  <2> QED
    BY <2>2, <2>3
<1>9. ASSUME RunReadable(a + 1, n, R) PROVE scan'.valid
  <2>1. CASE items[a].t = "block"
    BY <1>3, <2>1 DEF ValidNext
  <2>2. CASE items[a].t = "enum"
    BY <1>3, <1>7, <1>9, <2>2, RunNext DEF ValidNext, RunReadable
  <2>3. CASE items[a].t = "skip"
    BY <1>3, <1>6, <1>7, <1>9, <2>3, RunNext DEF ValidNext, RunReadable
  <2>4. CASE items[a].t \in {"set", "plain", "struct"}
    BY <1>3, <1>6, <1>9, <2>4, RunNext DEF ValidNext, RunReadable
  <2> QED
    BY <1>5, <2>1, <2>2, <2>3, <2>4
<1>10. RunReadable(a + 1, n, R)' <=> RunReadable(a + 1, n, R)
  BY <1>3, SameLines
<1>11. scan'.err = NoError
  BY <1>3 DEF Complete
<1> QED
  BY <1>3, <1>4, <1>8, <1>9, <1>10, <1>11 DEF Complete, Known, Early

(* So the names that the last pass needs are known.                        *)
LEMMA NoneLacks ==
  ASSUME Base, NEW f, NumberedBy(f), NEW R \in AllPasses, Resolves(R), Complete(R), Lacks(scan.at)
  PROVE  FALSE
<1>1. PICK a : a = scan.at
  OBVIOUS
<1>2. a \in DOMAIN items /\ a \in Int /\ Inputs /\ Passing /\ ~Ready(a) /\ DOMAIN items \subseteq Int
  BY <1>1 DEF Lacks, At, Base, Inputs
<1>3. items[a].t \in {"enum", "set", "skip", "struct"}
  BY <1>2 DEF Ready
<1>4. a \in Needs(a)
  BY <1>2, <1>3, NeedsIs
<1>5. CASE Declares(a) /\ Known(items[a].name)
  <2>1. a \in DOMAIN f
    BY <1>2, <1>5 DEF NumberedBy, KnownLines
  <2> QED
    BY <1>2, <1>4, <2>1, NeedsReady
<1>6. CASE scan.phase = "must"
  <2>1. PICK m : m = IF Declares(a) THEN R[a] ELSE 4
    OBVIOUS
  <2>2. m \in 1..4 /\ ReadableAt(a, m, R)
    BY <1>2, <1>4, <2>1 DEF Resolves, AllPasses
  <2>3. PassNo = 4
    BY <1>6, PassNoIs
  <2>4. (\A k \in DOMAIN R : R[k] \in 1..4) /\ DOMAIN R \subseteq Int
    BY <1>2 DEF AllPasses
  <2>5. ReadableAt(a, 4, R)
    BY <2>2, <2>4, ReadableLater
  <2> QED
    BY <1>1, <1>2, <2>3, <2>5, CompleteReady
<1> QED
  BY <1>1, <1>5, <1>6 DEF Lacks

-----------------------------------------------------------------------------
(* From one pass to the next.                                              *)

Opens ==
  /\ UNCHANGED <<items, overrides, symbols>>
  /\ scan'.at = 1 /\ scan'.valid = TRUE /\ scan'.value = 0 /\ scan'.step = 1 /\ scan'.err = NoError
  /\ scan'.unresolved \in BOOLEAN
Ends ==
  /\ Opens /\ Passing /\ scan.at = Len(items) + 1
  /\ \/ scan.phase = "first" /\ scan'.phase = "again"
     \/ scan.phase = "first" /\ scan'.phase = "link" /\ scan.unresolved = FALSE
     \/ scan.phase = "again" /\ scan'.phase = "link"
     \/ scan.phase = "third" /\ scan'.phase = "must"
     \/ scan.phase = "must" /\ scan'.phase = "done"
  /\ scan'.unresolved = FALSE => scan'.phase # "link" \/ scan.unresolved = FALSE
Links ==
  /\ Opens /\ scan.phase = "link"
  /\ \/ scan'.phase = "third"
     \/ scan'.phase = "must" /\ scan.unresolved = FALSE

(* The end of a pass.                                                      *)
LEMMA EndEnds ==
  ASSUME Base, Flags, EndPass, UNCHANGED <<items, overrides>>
  PROVE  Ends
<1>1. PICK after : after = AfterPass
  OBVIOUS
<1>2. /\ scan' = [AtStart(after) EXCEPT !.unresolved = scan.unresolved /\ AfterPass = "link"]
      /\ UNCHANGED symbols /\ Passing /\ scan.at = Len(items) + 1
  BY <1>1 DEF EndPass, Base, Inputs, Shape
<1>3. PICK u \in BOOLEAN : u <=> scan.unresolved /\ after = "link"
  OBVIOUS
<1>4. /\ scan'.phase = after /\ scan'.at = 1 /\ scan'.valid = TRUE /\ scan'.value = 0 /\ scan'.step = 1
      /\ scan'.err = NoError
  BY <1>2, StartFacts
<1>5. scan'.unresolved \in BOOLEAN /\ (scan'.unresolved <=> scan.unresolved /\ after = "link")
  BY <1>1, <1>2 DEF AtStart, Flags
<1>6. /\ scan.phase = "first" => after = IF scan.unresolved THEN "again" ELSE "link"
      /\ scan.phase = "again" => after = "link"
      /\ scan.phase = "third" => after = "must"
      /\ scan.phase = "must" => after = "done"
  BY <1>1 DEF AfterPass
<1>7. Opens
  BY <1>2, <1>4, <1>5 DEF Opens
<1> QED
  BY <1>2, <1>4, <1>5, <1>6, <1>7 DEF Ends, Passing, Flags

(* The linking of the child objects.                                       *)
LEMMA LinkLinks ==
  ASSUME Flags, LinkObjects, UNCHANGED <<items, overrides>>
  PROVE  Links
<1>1. PICK phase : phase = IF scan.unresolved THEN "third" ELSE "must"
  OBVIOUS
<1>2. scan' = AtStart(phase) /\ UNCHANGED symbols /\ scan.phase = "link"
  BY <1>1 DEF LinkObjects
<1>3. /\ scan'.phase = phase /\ scan'.at = 1 /\ scan'.valid = TRUE /\ scan'.value = 0 /\ scan'.step = 1
      /\ scan'.err = NoError /\ scan'.unresolved = FALSE
  BY <1>2 DEF AtStart
<1> QED
  BY <1>1, <1>2, <1>3 DEF Links, Opens, Flags

(* The numbers of the passes grow.                                         *)
LEMMA NumbersOpen ==
  ASSUME Base, Flags, NEW f, NumberedBy(f), Ends \/ Links
  PROVE  NumberedBy(f)'
<1>1. /\ items' = items /\ symbols' = symbols /\ scan'.at = 1 /\ scan'.valid = TRUE
      /\ Len(items) \in Nat /\ DOMAIN items = 1..Len(items)
  BY DEF Ends, Links, Opens, Base, Inputs
<1>2. PICK n : n = PassNo
  OBVIOUS
<1>3. PICK m : m = PassNo'
  OBVIOUS
<1>4. KnownLines' = KnownLines
  BY <1>1, SameLines DEF KnownLines, Known
<1>5. DOMAIN f = KnownLines /\ \A k \in DOMAIN f : f[k] \in 1..4 /\ Early(f, k, n, scan.at) /\ Fits(k, f[k], f) /\ k \in Nat \ {0}
  BY <1>1, <1>2 DEF NumberedBy, KnownLines
<1>6. \A k \in DOMAIN f : f[k] < m
  <2>1. CASE Ends
    <3>1. n \in 1..4 /\ m \in 1..5 /\ n < m
      BY <1>2, <1>3, <2>1 DEF Ends, PassNo
    <3>2. \A k \in DOMAIN f : f[k] <= n
      BY <1>5, <3>1 DEF Early
    <3> QED
      BY <1>5, <3>1, <3>2
  <2>2. CASE Links
    <3>1. n = 3 /\ m \in 3..4 /\ scan.at = 1
      BY <1>2, <1>3, <2>2 DEF Links, PassNo, NumberedBy
    <3> QED
      BY <1>5, <3>1 DEF Early
  <2> QED
    BY <2>1, <2>2
<1>7. RunReadable(1, m, f)
  BY RunFirst DEF RunReadable
<1>8. scan'.phase = "done" => \A i \in DOMAIN items : LineDone(i, f)
  BY <1>1 DEF Ends, Links, NumberedBy
<1>9. /\ \A i, h : LineDone(i, h)' <=> LineDone(i, h)
      /\ \A k, x, h : Fits(k, x, h)' <=> Fits(k, x, h)
      /\ \A x, h : RunReadable(1, x, h)' <=> RunReadable(1, x, h)
  BY <1>1, SameLines DEF LineDone
<1>10. \A k \in DOMAIN f : f[k] \in 1..4 /\ Early(f, k, m, 1) /\ Fits(k, f[k], f)'
  BY <1>5, <1>6, <1>9 DEF Early
<1>11. (scan'.valid <=> RunReadable(1, m, f)') /\ (scan'.phase = "must" => \A i \in 1..(1 - 1) : LineDone(i, f)')
  BY <1>1, <1>7, <1>9
<1> QED
  BY <1>1, <1>3, <1>4, <1>5, <1>8, <1>9, <1>10, <1>11 DEF NumberedBy, Early

(* Values of constants are no different where no constant is recorded.     *)
LEMMA StillCounting ==
  ASSUME UNCHANGED <<items, overrides, symbols>>
  PROVE  /\ \A v, s : Counting(v, s)' <=> Counting(v, s)
         /\ \A k, v : HasValue(k, v)' <=> HasValue(k, v)
         /\ KnownLines' = KnownLines
  BY DEF Counting, Counts, HasValue, KnownLines, Known, Declares, Overridden, GetValue, ValueOf

(* The enumeration starts again.                                           *)
LEMMA ValuedOpens ==
  ASSUME Valued, Opens
  PROVE  Valued'
<1>1. UNCHANGED <<items, overrides, symbols>> /\ scan'.at = 1 /\ scan'.value = 0 /\ scan'.step = 1
  BY DEF Opens
<1>2. SUFFICES ASSUME NEW v, NEW s, Counting(v, s)'
      PROVE  (\A k \in KnownLines' : HasValue(k, v)') /\ v[1] = 0 /\ s[1] = 1
  BY <1>1 DEF Valued
<1>3. Counting(v, s)
  BY <1>1, <1>2, StillCounting
<1>4. \A k \in KnownLines' : HasValue(k, v)'
  BY <1>1, <1>3, StillCounting DEF Valued
<1> QED
  BY <1>3, <1>4 DEF Counting

(* A pass that nothing was left open in has read all lines.                *)
LEMMA PendingOpens ==
  ASSUME Base, Pending, Ends \/ Links
  PROVE  Pending'
<1>1. /\ items' = items /\ symbols' = symbols /\ scan'.at = 1 /\ scan'.valid = TRUE
      /\ Len(items) \in Nat /\ DOMAIN items = 1..Len(items)
  BY DEF Ends, Links, Opens, Base, Inputs
<1>2. SUFFICES ASSUME scan'.unresolved = FALSE, scan'.phase = "link", NEW i \in DOMAIN items, Declares(i)
               PROVE  Known(items[i].name)
  <2>1. \A i \in DOMAIN items : ~(i < 1)
    BY <1>1
  <2> QED
    BY <1>1, <2>1, SameLines DEF Pending, Known
<1>3. scan.unresolved = FALSE /\ scan.at = Len(items) + 1
  BY <1>2 DEF Ends, Links
<1>4. i < scan.at
  BY <1>1, <1>2, <1>3
<1> QED
  BY <1>2, <1>3, <1>4 DEF Pending

(* Whatever can be read before a pass is known when it begins.             *)
LEMMA CompleteOpens ==
  ASSUME Base, Pending, NEW R \in AllPasses, Complete(R), Ends \/ Links
  PROVE  Complete(R)'
<1>1. /\ items' = items /\ symbols' = symbols /\ scan'.at = 1 /\ scan'.valid = TRUE /\ scan'.err = NoError
      /\ Len(items) \in Nat /\ DOMAIN items = 1..Len(items)
  BY DEF Ends, Links, Opens, Base, Inputs
<1>2. PICK n : n = PassNo
  OBVIOUS
<1>3. PICK m : m = PassNo'
  OBVIOUS
<1>4. SUFFICES ASSUME NEW k \in DOMAIN R, Early(R, k, m, 1) PROVE Known(items[k].name)
  BY <1>1, <1>3 DEF Complete, Known, Early
<1>5. k \in DOMAIN items /\ Declares(k) /\ R[k] \in 1..4 /\ R[k] < m
  <2>1. k \in DOMAIN items /\ Declares(k) /\ R[k] \in 1..4
    BY DEF AllPasses
  <2> QED
    BY <1>1, <1>4, <2>1 DEF Early
<1>6. CASE scan.unresolved = FALSE /\ (scan.at = Len(items) + 1 \/ scan.phase = "link")
  BY <1>1, <1>5, <1>6 DEF Pending
<1>7. CASE ~(scan.unresolved = FALSE /\ (scan.at = Len(items) + 1 \/ scan.phase = "link"))
  <2>1. Early(R, k, n, scan.at) => Known(items[k].name)
    BY <1>2 DEF Complete
  <2>2. CASE Ends
    <3>1. n \in 1..4 /\ m = n + 1 /\ scan.at = Len(items) + 1
      BY <1>2, <1>3, <1>7, <2>2 DEF Ends, PassNo
    <3>2. R[k] <= n /\ k < scan.at
      BY <1>1, <1>5, <3>1
    <3>3. Early(R, k, n, scan.at)
      BY <1>5, <3>1, <3>2 DEF Early
    <3> QED
      BY <2>1, <3>3
  <2>3. CASE Links
    <3>1. n = 3 /\ m = 3
      BY <1>2, <1>3, <1>7, <2>3 DEF Links, PassNo
    <3>2. Early(R, k, n, scan.at)
      BY <1>5, <3>1 DEF Early
    <3> QED
      BY <2>1, <3>2
  <2> QED
    BY <2>2, <2>3
<1> QED
  BY <1>6, <1>7

-----------------------------------------------------------------------------
(* All of it together.                                                     *)

FourPasses ==
  /\ \E f : NumberedBy(f)
  /\ Valued /\ Pending
  /\ scan.err # NoError => scan.err = UndefinedSymbol
  /\ \A R \in AllPasses : Resolves(R) => Complete(R)
FourInv == IInv /\ Flags /\ NamesDeclared /\ (Distinct => FourPasses)

(* Which declarations there are does not change.                           *)
LEMMA SameDeclarations ==
  ASSUME items' = items
  PROVE  (Distinct' <=> Distinct) /\ AllPasses' = AllPasses /\ \A R : Resolves(R)' <=> Resolves(R)
<1>1. (Distinct' <=> Distinct) /\ AllPasses' = AllPasses
  BY SameLines DEF Distinct, AllPasses
<1>2. ASSUME NEW R PROVE Resolves(R)' <=> Resolves(R)
  BY SameLines DEF Resolves
<1> QED
  BY <1>1, <1>2

(* In front of the first line of the first pass.                           *)
LEMMA FourInit == ASSUME Inputs, ConstantsInit PROVE FourInv
<1>1. IInv
  BY InitIInv
<1>2. /\ scan = AtStart("first") /\ symbols = <<>> /\ DOMAIN symbols = {}
  BY DEF ConstantsInit
<1>3. /\ scan.phase = "first" /\ scan.at = 1 /\ scan.valid = TRUE /\ scan.value = 0 /\ scan.step = 1
      /\ scan.err = NoError /\ scan.unresolved = FALSE
  BY <1>2 DEF AtStart
<1>4. Flags /\ NamesDeclared /\ KnownLines = {} /\ PassNo = 1
  BY <1>2, <1>3 DEF Flags, NamesDeclared, KnownLines, Known, PassNo
<1>5. \A n, f : RunReadable(1, n, f)
  BY RunFirst DEF RunReadable
<1>6. \E f : NumberedBy(f)
  <2> DEFINE f == [k \in {} |-> 1]
  <2>1. DOMAIN f = {}
    OBVIOUS
  <2> HIDE DEF f
  <2>2. NumberedBy(f)
    BY <1>3, <1>4, <1>5, <2>1 DEF NumberedBy
  <2> QED
    BY <2>2
<1>7. Valued
  BY <1>3, <1>4 DEF Valued, Counting
<1>8. Pending
  <2>1. \A i \in DOMAIN items : ~(i < 1)
    BY DEF Inputs
  <2> QED
    BY <1>3, <2>1 DEF Pending
<1>9. ASSUME NEW R \in AllPasses PROVE Complete(R)
  <2>1. ASSUME NEW k \in DOMAIN R PROVE ~Early(R, k, 1, 1)
    <3>1. k \in Nat \ {0} /\ R[k] \in 1..4
      BY DEF AllPasses, Inputs
    <3> QED
      BY <3>1 DEF Early
  <2> QED
    BY <1>3, <1>4, <1>5, <2>1 DEF Complete
<1>10. FourPasses
  BY <1>3, <1>6, <1>7, <1>8, <1>9 DEF FourPasses
<1> QED
  BY <1>1, <1>4, <1>10 DEF FourInv

(* A line is read.                                                         *)
LEMMA FourRead ==
  ASSUME FourInv, IInv', Reads(scan.at)
  PROVE  FourInv'
<1>1. Base /\ Flags /\ NamesDeclared /\ (scan.phase = "must" => scan.valid = TRUE)
  BY DEF FourInv, IInv, MustInv
<1>2. PICK a : a = scan.at
  OBVIOUS
<1>3. items' = items /\ a \in DOMAIN items /\ Flags' /\ scan'.err = scan.err
  BY <1>2 DEF Reads, At
<1>4. NamesDeclared'
  <2>1. SUFFICES ASSUME NEW name \in DOMAIN symbols' PROVE \E k \in DOMAIN items : Declares(k) /\ items[k].name = name
    BY <1>3, SameLines DEF NamesDeclared
  <2>2. CASE name \in DOMAIN symbols
    BY <1>1, <2>2 DEF NamesDeclared
  <2>3. CASE name \notin DOMAIN symbols
    <3>1. New(a)
      BY <1>2, <2>1, <2>3 DEF Reads, Records, Same
    <3>2. RecordCONSymbolValue(items[a].name, ValueHere(a))
      BY <1>2, <3>1 DEF Reads, Records
    <3>3. name = items[a].name
      BY <2>1, <2>3, <3>2 DEF RecordCONSymbolValue
    <3> QED
      BY <1>3, <3>1, <3>3 DEF New
  <2> QED
    BY <2>2, <2>3
<1>5. ASSUME Distinct PROVE FourPasses'
  <2>1. FourPasses
    BY <1>5 DEF FourInv
  <2>2. PICK f : NumberedBy(f)
    BY <2>1 DEF FourPasses
  <2>3. (\E g : NumberedBy(g))'
    <3>1. PICK g : NumberedBy(g)'
      BY <1>1, <1>5, <2>2, NumbersGoOn
    <3> QED
      BY <3>1
  <2>4. Valued' /\ Pending'
    BY <1>1, <1>5, <2>1, <2>2, ValuedGoesOn, PendingGoesOn DEF FourPasses
  <2>5. ASSUME NEW R \in AllPasses, Resolves(R) PROVE Complete(R)'
    BY <1>1, <2>1, <2>5, CompleteGoesOn DEF FourPasses
  <2>6. (\A R \in AllPasses : Resolves(R) => Complete(R))'
    BY <1>3, <2>5, SameDeclarations
  <2> QED
    BY <1>3, <2>1, <2>3, <2>4, <2>6 DEF FourPasses
<1> QED
  BY <1>3, <1>4, <1>5, SameDeclarations DEF FourInv

(* What stays as it is if no line is read.                                 *)
LEMMA NumbersStay ==
  ASSUME Stays, Base, Flags, NamesDeclared
  PROVE  /\ Flags' /\ NamesDeclared'
         /\ \A f : NumberedBy(f)' <=> NumberedBy(f)
         /\ Valued => Valued'
         /\ Pending => Pending'
<1>1. /\ UNCHANGED <<items, overrides, symbols>>
      /\ scan'.at = scan.at /\ scan'.phase = scan.phase /\ scan'.valid = scan.valid
      /\ scan'.unresolved = scan.unresolved /\ scan'.value = scan.value /\ scan'.step = scan.step
  BY DEF Stays
<1>2. Flags' /\ NamesDeclared'
  BY <1>1, SameLines DEF Flags, NamesDeclared
<1>3. PassNo' = PassNo /\ KnownLines' = KnownLines
  BY <1>1, StillCounting DEF PassNo
<1>4. ASSUME NEW f PROVE NumberedBy(f)' <=> NumberedBy(f)
  <2>1. PICK a : a = scan.at
    OBVIOUS
  <2>2. PICK n : n = PassNo
    OBVIOUS
  <2>3. /\ \A i : LineDone(i, f)' <=> LineDone(i, f)
        /\ \A k, m : Fits(k, m, f)' <=> Fits(k, m, f)
        /\ RunReadable(a, n, f)' <=> RunReadable(a, n, f)
    BY <1>1, SameLines DEF LineDone
  <2> QED
    BY <1>1, <1>3, <2>1, <2>2, <2>3 DEF NumberedBy, Early
<1>5. Valued => Valued'
  BY <1>1, StillCounting DEF Valued
<1>6. Pending => Pending'
  BY <1>1, SameLines DEF Pending, Known
<1> QED
  BY <1>2, <1>4, <1>5, <1>6

(* A line fails: only for a name that no four passes would find.           *)
LEMMA FourFail ==
  ASSUME FourInv, IInv', Lacks(scan.at) \/ Clashes(scan.at)
  PROVE  FourInv'
<1>1. Base /\ Flags /\ NamesDeclared
  BY DEF FourInv, IInv
<1>2. Stays /\ items' = items
  BY DEF Lacks, Clashes, Stays
<1>3. ASSUME Distinct PROVE FourPasses'
  <2>1. FourPasses
    BY <1>3 DEF FourInv
  <2>2. PICK f : NumberedBy(f)
    BY <2>1 DEF FourPasses
  <2>3. Lacks(scan.at)
    BY <1>1, <1>3, <2>1, <2>2, NoneClashes DEF FourPasses
  <2>4. \A R \in AllPasses : ~Resolves(R)
    BY <1>1, <2>1, <2>2, <2>3, NoneLacks DEF FourPasses
  <2>5. (\A R \in AllPasses : Resolves(R) => Complete(R))'
    BY <1>2, <2>4, SameDeclarations
  <2>6. scan'.err = UndefinedSymbol
    BY <2>3 DEF Lacks
  <2>7. NumberedBy(f)' /\ Valued' /\ Pending'
    BY <1>1, <1>2, <2>1, <2>2, NumbersStay DEF FourPasses
  <2> QED
    BY <2>5, <2>6, <2>7 DEF FourPasses
<1> QED
  BY <1>1, <1>2, <1>3, NumbersStay, SameDeclarations DEF FourInv

(* A pass ends, or the first one after the linking begins.                 *)
LEMMA FourTurn ==
  ASSUME FourInv, IInv', Ends \/ Links
  PROVE  FourInv'
<1>1. Base /\ Flags /\ NamesDeclared
  BY DEF FourInv, IInv
<1>2. Opens /\ items' = items
  BY DEF Ends, Links, Opens
<1>3. Flags' /\ NamesDeclared'
  BY <1>1, <1>2, SameLines DEF Opens, Flags, NamesDeclared
<1>4. ASSUME Distinct PROVE FourPasses'
  <2>1. FourPasses
    BY <1>4 DEF FourInv
  <2>2. PICK f : NumberedBy(f)
    BY <2>1 DEF FourPasses
  <2>3. NumberedBy(f)'
    BY <1>1, <2>2, NumbersOpen
  <2>4. Valued' /\ Pending'
    BY <1>1, <1>2, <2>1, ValuedOpens, PendingOpens DEF FourPasses
  <2>5. ASSUME NEW R \in AllPasses, Resolves(R) PROVE Complete(R)'
    BY <1>1, <2>1, <2>5, CompleteOpens DEF FourPasses
  <2>6. (\A R \in AllPasses : Resolves(R) => Complete(R))'
    BY <1>2, <2>5, SameDeclarations
  <2>7. scan'.err = NoError
    BY <1>2 DEF Opens
  <2> QED
    BY <2>3, <2>4, <2>6, <2>7 DEF FourPasses
<1> QED
  BY <1>2, <1>3, <1>4, SameDeclarations DEF FourInv

(* No step leads out of the invariant.                                     *)
LEMMA FourNext == ASSUME FourInv, [ConstantsNext]_constants PROVE FourInv'
<1>1. IInv'
  BY NextIInv DEF FourInv
<1>2. CASE Steps /\ UNCHANGED <<items, overrides>>
  <2>1. Reading
    BY <1>2 DEF Reading, FourInv, IInv, MustInv
  <2>2. Reads(scan.at) \/ Lacks(scan.at) \/ Clashes(scan.at)
    BY <1>2, <2>1, StepsRead
  <2> QED
    BY <1>1, <2>2, FourRead, FourFail
<1>3. CASE EndPass /\ UNCHANGED <<items, overrides>>
  <2>1. Ends
    BY <1>3, EndEnds DEF FourInv, IInv
  <2> QED
    BY <1>1, <2>1, FourTurn
<1>4. CASE LinkObjects /\ UNCHANGED <<items, overrides>>
  <2>1. Links
    BY <1>4, LinkLinks DEF FourInv
  <2> QED
    BY <1>1, <2>1, FourTurn
<1>5. CASE UNCHANGED constants
  <2>1. Stays /\ items' = items /\ scan' = scan /\ UNCHANGED <<overrides, symbols>>
    BY <1>5 DEF constants, Stays
  <2>2. Base /\ Flags /\ NamesDeclared
    BY DEF FourInv, IInv
  <2>3. ASSUME Distinct PROVE FourPasses'
    <3>1. FourPasses
      BY <2>3 DEF FourInv
    <3>2. PICK f : NumberedBy(f)
      BY <3>1 DEF FourPasses
    <3>3. NumberedBy(f)' /\ Valued' /\ Pending'
      BY <2>1, <2>2, <3>1, <3>2, NumbersStay DEF FourPasses
    <3>4. ASSUME NEW R \in AllPasses, Resolves(R) PROVE Complete(R)'
      <4>1. Complete(R)
        BY <3>1, <3>4 DEF FourPasses
      <4>2. PICK a : a = scan.at
        OBVIOUS
      <4>3. PICK n : n = PassNo
        OBVIOUS
      <4>4. (RunReadable(a, n, R)' <=> RunReadable(a, n, R)) /\ PassNo' = n
        BY <2>1, <4>3, SameLines DEF PassNo
      <4> QED
        BY <2>1, <4>1, <4>2, <4>3, <4>4 DEF Complete, Early, Known
    <3>5. (\A R \in AllPasses : Resolves(R) => Complete(R))'
      BY <2>1, <3>4, SameDeclarations
    <3> QED
      BY <2>1, <3>1, <3>3, <3>5 DEF FourPasses
  <2> QED
    BY <1>1, <2>1, <2>2, <2>3, NumbersStay, SameDeclarations DEF FourInv
<1> QED
  BY <1>2, <1>3, <1>4, <1>5 DEF ConstantsNext, Steps

(* Once done, every constant has its pass; once failed, none would have    *)
(* had.                                                                    *)
LEMMA FourMeansFour == FourInv => ChainsOfFour
<1>1. SUFFICES ASSUME FourInv, Distinct
      PROVE  /\ Done => ResolvedInFour
             /\ scan.err # NoError => scan.err = UndefinedSymbol /\ ~ResolvedInFour
  BY DEF ChainsOfFour
<1>2. FourPasses
  BY <1>1 DEF FourInv
<1>3. ASSUME Done PROVE ResolvedInFour
  <2>1. PICK f : NumberedBy(f)
    BY <1>2 DEF FourPasses
  <2>2. \A i \in DOMAIN items : LineDone(i, f)
    BY <1>3, <2>1 DEF NumberedBy, Done
  <2> DEFINE R == [i \in {k \in DOMAIN items : Declares(k)} |-> f[i]]
  <2>3. DOMAIN f = {k \in DOMAIN items : Declares(k)} /\ \A k \in DOMAIN f : f[k] \in 1..4 /\ Fits(k, f[k], f)
    BY <2>1, <2>2 DEF NumberedBy, LineDone, KnownLines
  <2>4. R \in [{k \in DOMAIN items : Declares(k)} -> 1..4] /\ DOMAIN R = DOMAIN f /\ \A k \in DOMAIN f : R[k] = f[k]
    BY <2>3
  <2> HIDE DEF R
  <2>5. \A j, n : ReadableAt(j, n, f) => ReadableAt(j, n, R)
    BY <2>4, ReadableMore
  <2>6. ASSUME NEW i \in DOMAIN items, NEW j \in Needs(i) PROVE ReadableAt(j, IF Declares(i) THEN R[i] ELSE 4, R)
    <3>1. CASE Declares(i)
      <4>1. Fits(i, f[i], f) /\ R[i] = f[i]
        BY <2>3, <2>4, <3>1
      <4> QED
        BY <2>5, <2>6, <3>1, <4>1 DEF Fits
    <3>2. CASE ~Declares(i)
      <4>1. Fits(i, 4, f)
        BY <2>2, <3>2 DEF LineDone
      <4> QED
        BY <2>5, <2>6, <3>2, <4>1 DEF Fits
    <3> QED
      BY <3>1, <3>2
  <2> QED
    BY <2>4, <2>6 DEF ResolvedInFour, Resolves
<1>4. ASSUME scan.err # NoError PROVE scan.err = UndefinedSymbol /\ ~ResolvedInFour
  <2>1. \A R \in AllPasses : Resolves(R) => FALSE
    BY <1>2, <1>4 DEF FourPasses, Complete
  <2> QED
    BY <1>2, <1>4, <2>1 DEF FourPasses, ResolvedInFour, AllPasses
<1> QED
  BY <1>3, <1>4

\* For all declarations, constants of child objects and overrides: constants that are declared once
\* each are compiled only if each can be given one of the four passes, so that the names it
\* needs are read before it, and they are refused only if they cannot, and then for an undefined name.
\* A pass reads whatever can be read in it, for all names known in front of a line are those of an
\* earlier pass or of an earlier line; and no pass contradicts another one, for an enumeration
\* is counted from names that no longer change.
THEOREM FourPassesAreEnough == ConstantsSpec => []ChainsOfFour
<1>1. Inputs /\ ConstantsInit => FourInv
  BY FourInit
<1>2. FourInv /\ [ConstantsNext]_constants => FourInv'
  BY FourNext
<1>3. FourInv => ChainsOfFour
  BY FourMeansFour
<1> QED
  BY <1>1, <1>2, <1>3, PTL DEF ConstantsSpec
=============================================================================
