---------------------------- MODULE OmnilangShapes ----------------------------
(***************************************************************************)
(* The trees that Omnilang builds: which children a node of each type has, *)
(* and how tightly the operators in them bind.                             *)
(*                                                                         *)
(* A script walks the tree by the types of its nodes, and two types stand  *)
(* for several sorts of nodes: a pipeline as it is built, one that is run  *)
(* as a statement, and one that is run for its output; an access, and an   *)
(* assignment to what it accesses.                                         *)
(***************************************************************************)
EXTENDS Omnilang

CONSTANT TallestTree   \* how many levels of a tree the properties look at

ASSUME TallestAssumption == TallestTree \in Nat

\* The data of a node, for the script.
PhpData(data) ==
  CASE data.kind = "none"   -> Data("null", <<>>)
    [] data.kind = "number" -> Data("long", data.text)
    [] OTHER                -> data

-----------------------------------------------------------------------------
(* Sorts of nodes, and their children.                                     *)

SortOf(type, kind) ==
  CASE type = "pipeline" /\ kind \in {"background", "foreground"} -> "job"
    [] type = "pipeline" /\ kind = "expression" -> "captured"
    [] type = "access" /\ kind = "assign" -> "assigned"
    [] OTHER -> type

Sort(n) == SortOf(n.type, n.data.kind)

Statements ==
  {"job", "assignment", "assigned", "expression", "if", "while", "do", "foreach", "return"}

Fragments ==
  {"fragment", "number", "php", "single_quoted", "double_quoted", "variable", "array_decl",
   "expression"}

Expressions ==
  Fragments \cup {"access", "invocation", "divide", "multiply", "add", "minus", "function"}

\* The sorts of a node's children: the first ones in order, any others, and what
\* the last one is if there is always one more.
Children(first, more) == [first |-> first, more |-> more, last |-> {}]

Shape(sort) ==
  CASE sort = "statements" -> Children(<<>>, Statements)
    [] sort \in {"pipeline", "job"} -> Children(<<{"command"}>>, {"command"})
    [] sort = "captured" ->
         [Children(<<{"command"}>>, {"command"}) EXCEPT !.last = {"key_values"}]
    [] sort = "command" -> Children(<<{"arguments"}>>, {})
    [] sort = "arguments" -> Children(<<>>, {"fragments"})
    [] sort = "fragments" -> Children(<<Fragments>>, Fragments)
    [] sort = "expression" -> Children(<<Expressions \cup {"captured"}>>, {})
    [] sort = "key_values" -> Children(<<>>, {"key_value"})
    [] sort = "key_value" -> Children(<<>>, Fragments)
    [] sort = "assignment" -> Children(<<{"variable"}, {"fragments", "function"}>>, {})
    [] sort = "assigned" -> Children(<<Expressions, Expressions, {"fragments", "function"}>>, {})
    [] sort = "if" -> Children(<<Fragments, {"statements"}>>, {"statements"})
    [] sort \in {"while", "do"} -> Children(<<Fragments, {"statements"}>>, {})
    [] sort = "foreach" -> Children(<<Fragments, {"key_value"}, {"statements"}>>, {})
    [] sort = "return" -> Children(<<Expressions>>, {})
    [] sort = "function" -> Children(<<{"statements"}>>, {})
    [] sort = "array_decl" -> Children(<<>>, {"array_def"})
    [] sort = "array_def" -> Children(<<{"array_element"}>>, {"array_element"})
    [] sort = "array_element" -> Children(<<Fragments>>, Fragments)
    [] sort = "invocation" -> Children(<<Expressions, {"arguments"}>>, {})
    [] sort \in {"access", "divide", "multiply", "add", "minus"} ->
         Children(<<Expressions, Expressions>>, {})
    [] OTHER -> Children(<<>>, {})

\* The least number of children, and the sorts that the one at place i of n may have.
Least(shape) == Len(shape.first) + (IF shape.last = {} THEN 0 ELSE 1)

Place(shape, i, n) ==
  IF shape.last # {} /\ i = n THEN shape.last
  ELSE IF i <= Len(shape.first) THEN shape.first[i]
  ELSE shape.more

HasShape(n) ==
  LET shape == Shape(Sort(n))
  IN  /\ Len(n.children) >= Least(shape)
      /\ \A i \in DOMAIN n.children :
           Sort(n.children[i]) \in Place(shape, i, Len(n.children))

\* How tightly an operator binds, in the tree of an expression.
Rank(sort) == CASE sort \in {"add", "minus"} -> 1
                [] sort \in {"multiply", "divide"} -> 2
                [] sort = "invocation" -> 3
                [] sort \in {"access", "assigned"} -> 4
                [] OTHER -> 5

BindsRight(sort) == Rank(sort) \in {1, 2, 4}

\* An operand on the left binds as tightly as the operator, one on the right
\* tighter.  An invocation, which ends with its parenthesis, may be on the left
\* of any operator.
OperandsBind(n) ==
  LET rank       == Rank(Sort(n))
      operand(i) == Sort(n.children[i])
  IN  /\ rank < 5 => Rank(operand(1)) >= rank \/ operand(1) = "invocation"
      /\ BindsRight(Sort(n)) => Rank(operand(2)) > rank

-----------------------------------------------------------------------------
(* What the actions of the rules have to do for this.                      *)

\* The sorts of the values of a symbol.
Promised(symbol) ==
  CASE symbol \in {"root", "statements"} -> {"statements"}
    [] symbol = "statement" -> Statements \cup {"NULL"}
    [] symbol = "mapping" -> {"key_value"}
    [] symbol = "fragments_or_function_declaration" -> {"fragments", "function"}
    [] symbol = "assignment" -> {"assignment", "assigned"}
    [] symbol = "instruction" -> {"command"}
    [] symbol \in {"command", "comma_arguments"} -> {"arguments"}
    [] symbol = "fragment" -> Fragments
    [] symbol = "expression" -> Expressions
    [] symbol = "function_declaration" -> {"function"}
    [] symbol \in {"pipeline", "key_values", "arguments", "fragments", "array_decl", "array_def",
                   "array_element", "number"} -> {symbol}
    [] symbol = "$end" -> {"NULL"}
    [] OTHER -> {"token"}

\* The sort of a node once its data has been set.
Marking(sort, kind) == IF kind = "none" THEN sort ELSE SortOf(sort, kind)

\* The sorts of what an action makes.
Made(do, rhs) ==
  CASE do.base = 0 -> {SortOf(do.type, do.kind)}
    [] do.base # 0 /\ do.type = "optional" -> Promised(rhs[do.base]) \ {"NULL"}
    [] OTHER -> {Marking(sort, do.kind) : sort \in Promised(rhs[do.base])}

\* A new node of the action gets the children of its sort, and is no operator
\* unless it is the value of the rule.
MakesShape(do, rhs) ==
  LET shape == Shape(SortOf(do.type, do.kind))
  IN  /\ Len(do.kids) >= Least(shape)
      /\ \A k \in DOMAIN do.kids : Made(do.kids[k], rhs) \subseteq Place(shape, k, Len(do.kids))

\* What is appended to a node of this sort, or the data set, leaves it in shape.
KeepsShape(do, rhs, sort) ==
  LET before == Shape(sort)
      after  == Shape(Marking(sort, do.kind))
  IN  /\ before.last = {} /\ after.first = before.first /\ before.more \subseteq after.more
      /\ after.last # {} => do.kids # <<>>
      /\ \A k \in DOMAIN do.kids :
           Made(do.kids[k], rhs) \subseteq
             IF after.last # {} /\ k = Len(do.kids) THEN after.last ELSE after.more
      /\ do.kind # "none" => sort \notin {"job", "captured", "assigned"}
      /\ sort # "NULL" /\ Rank(sort) = 5 /\ Rank(Marking(sort, do.kind)) = 5

Works(do, rhs) ==
  /\ do.base \in 0..Len(rhs)
  /\ do.kids \in Seq(ToSet(do.kids))
  /\ do.base = 0 => MakesShape(do, rhs)
  /\ do.base # 0 =>
       /\ do.spells = 0
       /\ do.kids # <<>> \/ do.kind # "none" =>
            \A sort \in Promised(rhs[do.base]) : KeepsShape(do, rhs, sort)

\* An action that appends: what it appends is no new operator, nor a new NULL.
Appends(do, rhs) ==
  \A k \in DOMAIN do.kids :
    LET kid == do.kids[k]
    IN  Works(kid, rhs) /\ (kid.base = 0 => Rank(SortOf(kid.type, kid.kind)) = 5 /\ kid.type # "NULL")

ActionFits(do, rhs) ==
  /\ Works(do, rhs) /\ Appends(do, rhs)
  /\ \A k \in DOMAIN do.kids :
       LET kid == do.kids[k]
       IN  /\ Appends(kid, rhs)
           /\ \A j \in DOMAIN kid.kids : kid.kids[j].kids = <<>> /\ kid.kids[j].type # "optional"
           /\ kid.type = "optional" =>
                /\ kid.kids = <<>> /\ kid.kind = "none"
                /\ do.kind = "none" /\ (do.base = 0 => Least(Shape(do.type)) = 0)

ASSUME ActionsAssumption ==
  /\ \A token \in Terminals \ EndTokens : Promised(token) = {"token"}
  /\ \A r \in DOMAIN yyrules :
       LET rhs == yyrules[r].rhs
           do  == yyrules[r].do
       IN  /\ ActionFits(do, rhs) /\ do.type # "optional"
           /\ r # Accepting => Made(do, rhs) \subseteq Promised(yyrules[r].lhs)
           /\ do.base # 0 => "NULL" \notin Promised(rhs[do.base])
           /\ do.base = 0 /\ do.type = "NULL" =>
                /\ rhs = <<>> /\ yyrules[r].spelled = 0
                /\ do.kind = "none" /\ do.kids = <<>> /\ do.spells = 0

-----------------------------------------------------------------------------
(* What the tables have to do.                                             *)

\* How tightly the operator binds that a token begins, after an expression.  A
\* token that has not been read yet may be any.
Tightness(token) ==
  CASE token \in {"ADD", "WHITESPACE"} -> 1
    [] token \in {"MULTIPLY", "DIVIDE"} -> 2
    [] token = "BEGIN_PAREN" -> 3
    [] token \in {"ACCESS", "none"} -> 4
    [] OTHER -> 0

Operators == {"ADD", "WHITESPACE", "MULTIPLY", "DIVIDE", "BEGIN_PAREN", "ACCESS"}

\* The sort of the node that a rule creates, "token" if it creates none.
Created(r) ==
  IF yyrules[r].do.base = 0 THEN SortOf(yyrules[r].do.type, yyrules[r].do.kind) ELSE "token"

\* What is only $p, an expression.
IsOperand(do, rhs, p) ==
  do.base = p /\ do.kids = <<>> /\ do.kind = "none" /\ p \in DOMAIN rhs /\ rhs[p] = "expression"

\* Symbol p of the rule is the operand on the right of the operator that it creates.
RightOperand(r, p) ==
  BindsRight(Created(r)) /\ IsOperand(yyrules[r].do.kids[2], yyrules[r].rhs, p)

ASSUME OperatorsAssumption ==
  \A r \in DOMAIN yyrules :
    LET rhs  == yyrules[r].rhs
        do   == yyrules[r].do
        rank == Rank(Created(r))
    IN  /\ rank < 5 =>
             \E p \in DOMAIN rhs :
               /\ IsOperand(do.kids[1], rhs, p)
               /\ p + 1 \in DOMAIN rhs /\ Tightness(rhs[p + 1]) >= rank
        /\ BindsRight(Created(r)) =>
             \/ \E p \in DOMAIN rhs : RightOperand(r, p)
             \/ do.kids[2].base = 0 /\ Rank(SortOf(do.kids[2].type, do.kids[2].kind)) = 5
        /\ yyrules[r].lhs = "expression" =>
             \/ \A sort \in Made(do, rhs) : Rank(sort) = 5
             \/ /\ do.base = 0 /\ Len(rhs) > 1
                /\ rhs[1] = "expression" /\ rhs[2] \in Operators
                /\ Tightness(rhs[2]) = rank

\* A state in which an operator has its operand on the right shifts only operators
\* that bind tighter, and all of those.
ASSUME PrecedenceAssumption ==
  /\ "expression" \in LeftSymbols /\ Operators \cap LeftSymbols = {}
  /\ \A s \in DOMAIN yytable :
       LET row == yytable[s]
       IN  /\ \A item \in s :
                RightOperand(item[1], item[2]) =>
                  \A t \in row.shift \cap Operators : Tightness(t) > Rank(Created(item[1]))
           /\ \A r \in DOMAIN yyrules :
                Complete(s, r) /\ yyrules[r].lhs = "expression" /\ BindsRight(Created(r)) =>
                  /\ row.tokenless => Rank(Created(r)) >= Tightness("none")
                  /\ \A t \in Operators : Tightness(t) > Rank(Created(r)) => t \in row.shift

-----------------------------------------------------------------------------
(* Properties.                                                             *)

\* The trees, and the nodes below them.
Nodes(trees) ==
  LET nodes[k \in 0..TallestTree] ==
        IF k = 0 THEN trees
        ELSE LET above == nodes[k - 1] IN above \cup UNION {ToSet(n.children) : n \in above}
  IN  nodes[TallestTree]

\* The tree returned, and those on the stack.
Trees == {result.tree} \cup {stack[i].value : i \in DOMAIN stack}

\* Whoever walks the tree finds in every node the children that its sort
\* promises, in their order: the condition before the body, whatever the order
\* in the code.  No child is NULL (assert in ast_node_append_child), a pipeline
\* is marked as a job or run for its output, and then ends with its options.
TreesHaveShape ==
  /\ \A n \in Nodes(Trees) : HasShape(n)
  /\ result.kind = "tree" => Sort(result.tree) = "statements"

\* A tree of operators is the one that precedence and association to the left
\* ask for.
PrecedenceRespected == \A n \in Nodes(Trees) : OperandsBind(n)

=============================================================================
