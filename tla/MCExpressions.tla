---------------------------- MODULE MCExpressions ----------------------------
(* Expressions printed from trees of two levels with the parentheses that     *)
(* precedence asks for, alone and after the expression of a CON block.        *)
EXTENDS Expressions

VARIABLE trees   \* the trees the expressions were printed from

Leaf(t, v) == [t |-> t, v |-> v]
Num(v) == Leaf("con_int", v)
One == Float(1)
Two == Float(2)
Node(op, args) == [t |-> "node", op |-> op, args |-> args]

UnaryNodes(S) == {Node(op, <<a>>) : op \in {"neg", "bitnot", "lognot"}, a \in S}
BinaryNodes(ops, S, T) == {Node(op, <<a, b>>) : op \in ops, a \in S, b \in T}
AllBinary == {"shl", "mul", "add", "sub", "lt", "logand"}

MethodLeaves == {Num(3), Leaf("var", 0), Leaf("objcon", 2), Leaf("objpub", 0)}
MethodNodes == UnaryNodes(MethodLeaves)
                 \cup BinaryNodes({"shl", "sub", "lt"}, {Num(3), Leaf("objcon", 2)}, MethodLeaves)
                 \cup {Node("ternary", <<a, Leaf("objcon", 2), Num(3)>>) : a \in MethodLeaves}
SmallLeaves == {Num(200), Leaf("var", 0), Leaf("objcon", 2)}
MethodTrees ==
  UnaryNodes(MethodNodes) \cup BinaryNodes(AllBinary, MethodNodes, SmallLeaves)
    \cup BinaryNodes(AllBinary, SmallLeaves, MethodNodes)
    \cup {Node("ternary", <<a, b, Num(1)>>) : a \in SmallLeaves, b \in MethodNodes}
    \cup {Node("ternary", <<a, Num(1), b>>) : a \in SmallLeaves, b \in MethodNodes}
    \cup {Node("ternary", <<b, a, Num(1)>>) : a \in SmallLeaves, b \in MethodNodes}

ConLeaves == {Num(3), Leaf("con_float", One), Leaf("objcon", 2), Leaf("undefined", 0)}
ConNodes == UnaryNodes(ConLeaves)
              \cup BinaryNodes({"shl", "mul"}, {Num(3), Leaf("con_float", Two)}, ConLeaves)
              \cup {Node(c, <<a>>) : c \in Conversions, a \in ConLeaves}
ConTrees ==
  UnaryNodes(ConNodes) \cup BinaryNodes({"shl", "add", "lt"}, ConNodes, ConLeaves)
    \cup BinaryNodes({"mul", "sub", "logand"}, ConLeaves, ConNodes)
    \cup {Node(c, <<a>>) : c \in Conversions, a \in ConNodes}
    \cup {Node("ternary", <<a, b, Num(1)>>) : a \in ConLeaves, b \in ConNodes}
----------------------------------------------------------------------------
(* The elements of a tree: a left operand may bind as tight as its operator, *)
(* a right one binds tighter, the last two of "?" are bounded by the colon   *)
(* and by what follows.                                                      *)

Op(op) == <<[t |-> "op", op |-> op]>>
Paren(els) == <<[t |-> "left"]>> \o els \o <<[t |-> "right"]>>
Precedence(tree) == IF tree.t = "node" /\ tree.op \notin Conversions THEN Ops[tree.op].prec ELSE 0

RECURSIVE Printed(_)
Within(tree, limit) == IF Precedence(tree) <= limit THEN Printed(tree) ELSE Paren(Printed(tree))
Printed(tree) ==
  CASE tree.t = "objcon" -> <<[t |-> "obj"], [t |-> "dot"], [t |-> "con_int", v |-> tree.v]>>
    [] tree.t = "objpub" -> <<[t |-> "obj"], [t |-> "dot"], [t |-> "pub"]>>
    [] tree.t \in {"con_int", "con_float", "var", "undefined"} -> <<tree>>
    [] tree.t = "node" /\ tree.op \in Conversions ->
         <<[t |-> "convert", op |-> tree.op]>> \o Paren(Printed(tree.args[1]))
    [] tree.t = "node" /\ Len(tree.args) = 1 ->
         (IF tree.op = "neg" THEN Op("sub") ELSE Op(tree.op))
           \o Within(tree.args[1], Precedence(tree) - 1)
    [] tree.t = "node" /\ Len(tree.args) = 2 ->
         Within(tree.args[1], Precedence(tree)) \o Op(tree.op)
           \o Within(tree.args[2], Precedence(tree) - 1)
    [] OTHER -> Within(tree.args[1], TernaryPrecedence - 1) \o Op("ternary")
                  \o Printed(tree.args[2]) \o <<[t |-> "colon"]>> \o Printed(tree.args[3])

\* the longs at which the shape of a constant changes
MinLeast == -2147483647 - 1
Longs == {-1, 14, 15, 255, 256, 257, 65535, 65536, 65537, 131071, 2147483647, 1431655765}
           \cup {-256, -257, -258, -65536, -65537, -65538, -131073, -1431655765, MinLeast, MinLeast + 1}
           \cup {2 ^ k : k \in 8 .. 30} \cup {2 ^ k - 1 : k \in 8 .. 30}
           \cup {-(2 ^ k) : k \in 8 .. 30} \cup {-(2 ^ k) - 1 : k \in 8 .. 30}

Unused == elements = <<>> /\ uses = <<>> /\ trees = <<>> /\ Init
Chosen(ts, us) ==
  /\ trees = ts /\ uses = us
  /\ elements = [i \in DOMAIN ts |-> Printed(ts[i]) \o <<End, [t |-> "con_int", v |-> 9]>>]
  /\ Init
ExpressionsInit ==
  \/ \E t \in MethodTrees : Chosen(<<t>>, <<"method">>)
  \/ \E t \in ConTrees, u \in {"int", "any"} : Chosen(<<t>>, <<u>>)
  \/ \E c \in ConNodes, t \in MethodNodes : Chosen(<<c, t>>, <<"any", "method">>)
  \/ \E v \in Longs : Chosen(<<Num(v)>>, <<"method">>)
ExpressionsNext == Next /\ UNCHANGED trees
----------------------------------------------------------------------------
Variable == 5    \* what the variable holds and the method returns at run time
Returned == 250

\* The value of a tree, <<error, value>>
RECURSIVE Evaluated(_, _)
Evaluated(tree, inFloat) ==
  LET inner == CASE tree.t # "node" -> inFloat
                 [] tree.t = "node" /\ tree.op = "float" -> FALSE
                 [] tree.t = "node" /\ tree.op \in {"trunc", "round"} -> TRUE
                 [] OTHER -> inFloat
      arg(i) == Evaluated(tree.args[i], inner)
  IN  CASE tree.t = "var" -> Value(Variable)
        [] tree.t = "objpub" -> Value(Returned)
        [] tree.t \notin {"node", "var", "objpub"} -> Value(Wrap(tree.v))
        [] tree.t = "node" /\ \E i \in DOMAIN tree.args : arg(i).err # "" -> Error("operand")
        [] tree.t = "node" /\ tree.op \in Conversions -> Convert(tree.op, arg(1).value)
        [] tree.t = "node" /\ tree.op = "ternary" -> IF arg(1).value # 0 THEN arg(2) ELSE arg(3)
        [] OTHER -> ResolveOperation(tree.op, arg(1).value,
                                     IF Len(tree.args) = 2 THEN arg(2).value ELSE 0, inFloat)

RECURSIVE Leaves(_)
Leaves(tree) == IF tree.t # "node" THEN {tree.t}
                ELSE UNION {Leaves(tree.args[i]) : i \in DOMAIN tree.args}

\* the modes a tree can be compiled in
RECURSIVE Modes(_)
Modes(tree) ==
  CASE tree.t \in {"con_int", "objcon"} -> {"int"}
    [] tree.t = "con_float" -> {"float"}
    [] tree.t = "undefined" -> {"int", "float"}
    [] tree.t = "node" /\ tree.op = "float" ->
         IF "int" \in Modes(tree.args[1]) THEN {"float"} ELSE {}
    [] tree.t = "node" /\ tree.op \in {"trunc", "round"} ->
         IF "float" \in Modes(tree.args[1]) THEN {"int"} ELSE {}
    [] OTHER -> {m \in IF Ops[tree.op].float THEN {"int", "float"} ELSE {"int"} :
                   \A i \in DOMAIN tree.args : m \in Modes(tree.args[i])}

\* the interpreter of the bytecode (ext/Spin2_interpreter.spin2)
Decoded(op, v) == CASE op = "con_n1_14" -> v - 1
                    [] op \in {"con_rfbyte", "con_rfword", "con_rflong"} -> v
                    [] op \in {"con_rfbyte_not", "con_rfword_not"} -> Inverted(v)
                    [] op = "con_rfbyte_decod" -> Decod(v)
                    [] op = "con_rfbyte_decod_not" -> Inverted(Decod(v))
                    [] op = "con_rfbyte_bmask" -> Bmask(v)
                    [] op = "con_rfbyte_bmask_not" -> Inverted(Bmask(v))
                    [] OTHER -> 0
OperandLimit(op) == CASE op = "con_n1_14" -> 15
                      [] op \in {"con_rfbyte", "con_rfbyte_not"} -> 255
                      [] op \in {"con_rfword", "con_rfword_not"} -> 65535
                      [] OTHER -> 31
RECURSIVE Executed(_, _)
Executed(code, stack) ==
  LET op == code[1][1]
      arg == code[1][2]
      rest == SubSeq(code, 2, Len(code))
      at(n) == stack[Len(stack) - n]
      drop(n) == SubSeq(stack, 1, Len(stack) - n)
  IN  CASE code = <<>> -> stack
        [] code # <<>> /\ op = "read" -> Executed(rest, Append(stack, Variable))
        [] code # <<>> /\ op = "call" -> Executed(rest, Append(stack, Returned))
        [] code # <<>> /\ op = "op" /\ arg = "ternary" ->
             Executed(rest, Append(drop(3), IF at(2) # 0 THEN at(1) ELSE at(0)))
        [] code # <<>> /\ op = "op" /\ Ops[arg].kind = "unary" ->
             Executed(rest, Append(drop(1), ResolveOperation(arg, at(0), 0, FALSE).value))
        [] code # <<>> /\ op = "op" /\ Ops[arg].kind = "binary" ->
             Executed(rest, Append(drop(2), ResolveOperation(arg, at(1), at(0), FALSE).value))
        [] OTHER -> Executed(rest, Append(stack, Wrap(Decoded(op, arg))))

Finished(i) == i <= Len(results)
ModeBefore(i) == IF i = 1 THEN "unknown" ELSE results[i - 1].mode

\* The bytecode of an expression, folded or not, leaves one long on the stack
\* and it is the value of the source expression, as long as no constant of
\* another block has left the compiler in floating-point mode
\* (spinResolver.ts:5728, 8561).
RunsToValue ==
  \A i \in DOMAIN uses :
    Finished(i) /\ uses[i] = "method" /\ ModeBefore(i) # "float" =>
      results[i].err = "" /\ Executed(results[i].code, <<>>) = <<Evaluated(trees[i], FALSE).value>>

\* A constant keeps its 32 bits in the shortest instruction that holds them:
\* its operand fits and the interpreter makes the same long of it, at every
\* boundary between the shapes (spinResolver.ts:8460, 8491).
ConstantSurvives ==
  \A i \in DOMAIN uses :
    Finished(i) /\ uses[i] = "method" /\ trees[i].t = "con_int" =>
      LET item == results[i].code[1]
      IN  /\ Decoded(item[1], item[2]) = SignExtended(trees[i].v)
          /\ item[1] # "con_rflong" => item[2] \in 0 .. OperandLimit(item[1])

\* A constant expression becomes one instruction, and nothing else does; the
\* elements of the expression are used up and the next one is left alone,
\* however often the compiler had to go back (spinResolver.ts:8529, 11301).
FoldsWholeExpression ==
  \A i \in DOMAIN uses :
    Finished(i) /\ results[i].err = "" =>
      /\ results[i].next = Len(Heading) + Len(Printed(trees[i])) + 1
      /\ uses[i] = "method" =>
           (Leaves(trees[i]) \cap {"var", "objpub"} = {}) <=> (Len(results[i].code) = 1)

\* A constant expression is refused just when it mixes integers and floats,
\* in parentheses of FLOAT, TRUNC and ROUND as well, and what is accepted has
\* the value and the type of its source (spinResolver.ts:8711, 11093).
ResolvesTyped ==
  \A i \in DOMAIN uses :
    Finished(i) /\ uses[i] # "method" =>
      LET r == results[i]
          modes == Modes(trees[i]) \cap (IF uses[i] = "int" THEN {"int"} ELSE {"int", "float"})
          v == Evaluated(trees[i], "float" \in modes)
      IN  /\ modes = {} => r.err = "mixed"
          /\ modes # {} /\ "undefined" \in Leaves(trees[i]) => r.err = "" /\ r.unresolved
          /\ modes # {} /\ "undefined" \notin Leaves(trees[i]) =>
               /\ (r.err = "") = (v.err = "")
               /\ r.err = "" => r.stack = <<v.value>> /\ r.mode \in modes

=============================================================================
