-------------------------- MODULE MCObjectCompiler --------------------------
(* Projects of a few files for ObjectCompiler.                             *)
EXTENDS ObjectCompiler

Call(r)        == [rec |-> r, when |-> {}]
CallIf(r, x)   == [rec |-> r, when |-> {x}]
Uses(o)        == [obj |-> o, ov |-> None, when |-> {}]
UsesIf(o, x)   == [obj |-> o, ov |-> None, when |-> {x}]
UsesWith(o, w) == [obj |-> o, ov |-> w, when |-> {}]

Says(calls, kids, exports, embeds, includes) ==
  [calls |-> calls, kids |-> kids, exports |-> exports, embeds |-> embeds, includes |-> includes]

Always(s) == [v \in Version |-> s]

(* "probe" is used alone and below "bus"; "log" comes before "bus" in one  *)
(* program and "probe" in the other, and their records are "bus" ones too. *)
(* "ser" exports a symbol that "log" looks at; "ring" declares itself.     *)
TreeTop == {"app", "tool", "solo", "mono", "ring"}
TreeObj == TreeTop \cup {"ser", "log", "bus", "probe"}
TreeAux == {"table"}
TreeSource ==
  [o \in TreeObj |->
     CASE o = "app"   -> Always(Says(<<Call("a")>>, <<Uses("probe"), Uses("bus"), Uses("ser"), Uses("log")>>, << >>, {}, {}))
       [] o = "tool"  -> Always(Says(<< >>, <<Uses("log"), Uses("bus")>>, << >>, {}, {}))
       [] o = "solo"  -> Always(Says(<< >>, <<Uses("probe")>>, << >>, {}, {}))
       [] o = "mono"  -> Always(Says(<< >>, <<Uses("bus")>>, << >>, {}, {}))
       [] o = "ring"  -> Always(Says(<< >>, <<Uses("ring")>>, << >>, {}, {}))
       [] o = "ser"   -> Always(Says(<< >>, << >>, <<"FAST">>, {}, {}))
       [] o = "log"   -> Always(Says(<<Call("l"), Call("b"), CallIf("x", "FAST")>>, << >>, << >>, {}, {}))
       [] o = "bus"   -> Always(Says(<<Call("b")>>, <<UsesWith("probe", 4), Uses("probe")>>, << >>, {}, {}))
       [] o = "probe" -> [v \in Version |->
                            Says(IF v = 1 THEN <<Call("p")>> ELSE <<Call("q")>>, << >>, << >>, {"table"}, {})]]

(* "drv" has a child of its own, which includes "defs", embeds nothing and *)
(* looks at the symbol "ser" exports.                                      *)
DeepTop == {"app"}
ToolTop == {"tool"}
DeepObj == {"app", "tool"} \cup {"drv", "ser", "core"}
DeepAux == {"defs"}
DeepSource ==
  [o \in DeepObj |->
     CASE o = "app"  -> Always(Says(<< >>, <<Uses("drv"), Uses("ser"), Uses("core")>>, << >>, {}, {}))
       [] o = "tool" -> Always(Says(<< >>, <<Uses("drv")>>, << >>, {}, {}))
       [] o = "drv"  -> Always(Says(<< >>, <<Uses("core")>>, << >>, {}, {}))
       [] o = "ser"  -> Always(Says(<< >>, << >>, <<"FAST">>, {}, {}))
       [] o = "core" -> Always(Says(<< >>, <<UsesIf("ser", "FAST")>>, << >>, {}, {"defs"}))]

=============================================================================
