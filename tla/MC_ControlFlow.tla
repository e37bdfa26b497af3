--------------------------- MODULE MC_ControlFlow ---------------------------
(***************************************************************************)
(* The parser on sample sources, and the search over the flow of functions *)
(* that return two storage pointers, with up to two modifiers.  Behind     *)
(* the search of a function that returns none, either a source is parsed,  *)
(* or the ErrorReporter that the parser and all analyses share takes any   *)
(* calls: the three parts have no state in common.                         *)
(***************************************************************************)
EXTENDS ControlFlowGraph, ControlFlowAnalyzer, ErrorReporterMachine, Parser

CONSTANTS v, w

TwoVariables == {v, w}

Assign(xs) == [kind |-> "Assign", vars |-> xs, value |-> Plain]
Kind(k) == [kind |-> k]
Block(body) == [kind |-> "Block", body |-> body]
If(cond, then, else) == [kind |-> "If", cond |-> cond, then |-> then, else |-> else]
While(kind, cond, body) == [kind |-> kind, cond |-> cond, body |-> body]
For(init, cond, loop, body) ==
  [kind |-> "For", init |-> init, cond |-> cond, loop |-> loop, body |-> body]
Return(e) == [kind |-> "Return", expression |-> e]

Conditions ==
  {Assign({v}), [kind |-> "And", left |-> Plain, right |-> Assign({v})],
   [kind |-> "Conditional", cond |-> Plain, then |-> Assign({v}), else |-> Assign({w})]}

\* Statements without loops, and those that may stand in a loop.
Simple == {Plain, Assign({v}), Assign({w}), Kind("Revert"), Kind("Require"), Return(Plain)}
InLoop == Simple \cup {Kind("Break"), Kind("Continue")}

Branching(S) ==
  S \cup {If(Plain, a, b) : a \in S, b \in S \cup {None}}
    \cup {Block(<<a, b>>) : a \in S, b \in S}

Loops(S) ==
  {While(k, c, b) : k \in {"While", "DoWhile"}, c \in Conditions, b \in S}
    \cup {For(i, c, Assign({w}), b) : i \in {None, Assign({w})}, c \in {None, Assign({v})}, b \in S}
    \cup {For(None, Plain, None, b) : b \in S}

Bodies ==
  {Block(<<s, t>>) : s \in Loops(Branching(InLoop)), t \in {Plain, Assign({v})}}
    \cup {Block(<<s, t>>) : s \in Branching(Simple), t \in Branching({Assign({v}), Kind("Throw")})}
    \cup {Block(<<s, [kind |-> "Assembly", vars |-> {w}]>>) : s \in Conditions}
    \cup {Block(<<s>>) : s \in Loops(Loops(InLoop))}

Function(modifiers, body) == [parameters |-> {v, w}, modifiers |-> modifiers, body |-> body]

\* Bodies of modifiers, and of functions to apply them to.
Hole == Kind("Placeholder")
ModifierBodies ==
  {Block(<<Hole>>), Block(<<Hole, Kind("Revert")>>), If(Plain, Hole, None), If(Plain, Hole, Return(None)),
   Block(<<Kind("Require"), Hole>>), Block(<<If(Plain, Return(None), None), Hole>>),
   While("While", Plain, Hole), While("DoWhile", Plain, Hole), Block(<<Hole, Hole>>)}
ModifiedBodies == {Block(<<s, t>>) : s \in Simple, t \in Simple}

Modified ==
  {Function(<<m>>, b) : m \in ModifierBodies, b \in ModifiedBodies}
    \cup {Function(<<m, n>>, b) : m \in ModifierBodies, n \in ModifierBodies, b \in {Block(<<s>>) : s \in Simple}}

Flow(f) ==
  LET g == FunctionFlow(f)
  IN  [function |-> f, parameters |-> f.parameters, nodes |-> g.nodes, exits |-> g.exits,
       entry |-> g.entry, exit |-> g.exit, assigns |-> g.assigns, returns |-> g.returns]

PlainFlows == {Flow(Function(<< >>, b)) : b \in Bodies}
ModifiedFlows == {Flow(f) : f \in Modified}
NothingToReport == [Flow(Function(<< >>, Plain)) EXCEPT !.parameters = {}]
AllFlows == PlainFlows \cup ModifiedFlows \cup {NothingToReport}

-----------------------------------------------------------------------------
(* Sources for the parser.  Expressions: every kind of expression as any   *)
(* operand of every other, in the parentheses the order of precedence asks *)
(* for (docs/miscellaneous.rst; operators of one level group to the left). *)

Id(name) == [k |-> "Identifier", name |-> name]
Num(sub) == [k |-> "Literal", t |-> "Number", v |-> "1", sub |-> sub]
Parens(parts) == [k |-> "Tuple", parts |-> parts, array |-> FALSE]
Binary(op, l, r) == [k |-> "Binary", op |-> op, left |-> l, right |-> r]
Unary(op, prefix, e) == [k |-> "Unary", op |-> op, prefix |-> prefix, sub |-> e]
Index(e, i) == [k |-> "Index", base |-> e, index |-> i]
Member(e, name) == [k |-> "Member", base |-> e, name |-> name]
Call(e, args, names) == [k |-> "Call", base |-> e, args |-> args, names |-> names]
Assignment(op, l, r) == [k |-> "Assignment", op |-> op, left |-> l, right |-> r]
Conditional(c, yes, no) == [k |-> "Conditional", cond |-> c, yes |-> yes, no |-> no]
Elem(t, name) == [k |-> "Elementary", t |-> t, v |-> name, mutability |-> "NonPayable"]
Uint == Elem("UInt", "")
User(path) == [k |-> "UserDefined", path |-> path]
ArrayOf(t, length) == [k |-> "Array", base |-> t, length |-> length]
New(t) == [k |-> "New", type |-> t]

\* The table in the documentation, from the third line on
DocumentedOrder ==
  << {"Exp"}, {"Mul", "Div", "Mod"}, {"Add", "Sub"}, {"SHL", "SAR"}, {"BitAnd"}, {"BitXor"}, {"BitOr"},
     {"LessThan", "GreaterThan", "LessThanOrEqual", "GreaterThanOrEqual"}, {"Equal", "NotEqual"}, {"And"}, {"Or"} >>
Line(e) ==
  CASE e.k = "Binary" -> 2 + CHOOSE n \in 1..Len(DocumentedOrder) : e.op \in DocumentedOrder[n]
    [] e.k = "Unary" -> IF e.prefix THEN 2 ELSE 1
    [] e.k = "Conditional" -> 14
    [] e.k = "Assignment" -> 15
    [] OTHER -> 0
Within(line, e) == IF Line(e) > line THEN Parens(<<e>>) ELSE e
Base(e) == IF e.k = "New" THEN Parens(<<e>>) ELSE Within(0, e)

\* e with z as each of its operands
Around(z) ==
  LET y == Id("y")
      binary(op) == LET line == Line(Binary(op, y, y)) IN {Binary(op, Within(line, z), y), Binary(op, y, Within(line - 1, z))}
  IN  UNION {binary(op) : op \in UNION {DocumentedOrder[n] : n \in 1..Len(DocumentedOrder)}}
      \cup {Unary(op, TRUE, Within(2, z)) : op \in {"Not", "Sub", "Inc", "Delete"}} \cup {Unary("Dec", FALSE, Base(z))}
      \cup {Conditional(Within(13, z), y, y), Conditional(y, z, y), Conditional(y, y, Within(14, z))}
      \cup {Assignment("Assign", Within(13, z), y), Assignment("AssignShl", y, z)}
      \cup {Index(Base(z), y), Index(y, z), Member(Base(z), "m"), Call(Within(0, z), <<y, z>>, << >>), Call(y, <<z, y>>, <<"a", "b">>)}
      \cup {Parens(<<z, y>>), Parens(<<[k |-> "Null"], z>>), [k |-> "Tuple", parts |-> <<z, y>>, array |-> TRUE]}
      \cup {Call(New(ArrayOf(Uint, z)), <<y>>, << >>)}

Smallest == {Id("x"), Num("SubEther"), Call([k |-> "ElementaryType", t |-> "Bytes", v |-> ""], <<Id("x")>>, << >>)}
Inner == Smallest \cup {e \in Around(Id("x")) : e.k = "Binary" => e.op \in {"Exp", "Mul", "Add", "SHL", "LessThan", "And", "Or"}}
Expressions == UNION {Around(e) : e \in Inner}

\* Statements
Var(type, name, location) ==
  [k |-> "Variable", type |-> type, name |-> name, value |-> [k |-> "Null"], visibility |-> "Default", state |-> FALSE,
   indexed |-> FALSE, constant |-> FALSE, location |-> location]
StateVar(type, name, visibility, value) == [Var(type, name, "Unspecified") EXCEPT !.state = TRUE, !.visibility = visibility, !.value = value]
Nothing == [k |-> "Null"]
Expr(e) == [k |-> "ExpressionStatement", e |-> e]
Declare(variables, value) == [k |-> "Declaration", variables |-> variables, value |-> value]
Braces(statements) == [k |-> "Block", statements |-> statements]
Returning(e) == [k |-> "Return", e |-> e]
IfThenElse(c, yes, no) == [k |-> "If", cond |-> c, then |-> yes, else |-> no]
Loop(kind, body) == [k |-> kind, cond |-> Id("c"), body |-> body]
ForLoop(init, cond, loop, body) == [k |-> "For", init |-> init, cond |-> cond, loop |-> loop, body |-> body]
Emitting(e, args, names) == [k |-> "Emit", call |-> Call(e, args, names)]

X == Id("x")
Selected(i) == Index(Member(Member(X, "y"), "z"), i)
Selection == User(<<"x", "y", "z">>)
FunctionTypeOf(params, visibility, mutability, returns) ==
  [k |-> "FunctionType", params |-> params, returns |-> returns, visibility |-> visibility, mutability |-> mutability]
Payable == [Elem("Address", "") EXCEPT !.mutability = "Payable"]

\* What begins like a declaration or an expression, and is the other
Alike ==
  {Declare(<<Var(ArrayOf(Selection, Num("")), "a", "Unspecified")>>, Nothing), Expr(Selected(Num(""))),
   Declare(<<Var(ArrayOf(ArrayOf(Selection, Nothing), X), "a", "Memory")>>, X), Expr(Assignment("Assign", Index(Selected(X), X), X)),
   Declare(<<Var(ArrayOf(Uint, Nothing), "a", "Storage")>>, Index(X, X)), Declare(<<Var(Payable, "a", "Unspecified")>>, X),
   Declare(<<Var(User(<<"T">>), "a", "CallData")>>, Nothing), Declare(<<Var(Nothing, "a", "Unspecified")>>, X),
   Declare(<<Nothing, Var(ArrayOf(Selection, X), "a", "Memory"), Nothing, Var(Uint, "b", "Unspecified")>>, Call(X, << >>, << >>)),
   Declare(<<Var(Nothing, "a", "Unspecified"), Nothing, Var(Nothing, "b", "Unspecified")>>, X),
   Expr(Assignment("Assign", Parens(<<Nothing, Selected(X), Nothing, Unary("Inc", FALSE, X)>>), Call(Member(Selected(X), "f"), <<X>>, << >>))),
   Declare(<<Var([k |-> "Mapping", key |-> Uint, value |-> ArrayOf(User(<<"T">>), Num(""))], "a", "Storage")>>, X),
   Declare(<<Var(ArrayOf(FunctionTypeOf(<<Var(Uint, "", "Unspecified")>>, "Internal", "Pure", <<Var(Uint, "r", "Unspecified")>>), Nothing), "a", "Memory")>>, X)}

Bracketed ==
  {IfThenElse(X, Braces(<<IfThenElse(X, Returning(X), Nothing)>>), [k |-> "Throw"]), IfThenElse(X, IfThenElse(X, Returning(Nothing), Expr(X)), Nothing),
   Loop("While", Loop("DoWhile", [k |-> "Continue"])), Loop("DoWhile", Braces(<<[k |-> "Break"], [k |-> "InlineAssembly"]>>)),
   ForLoop(Declare(<<Var(Uint, "i", "Unspecified")>>, X), Binary("LessThan", X, X), Expr(Unary("Inc", FALSE, X)), Braces(<<Expr(X)>>)),
   ForLoop(Nothing, Nothing, Nothing, IfThenElse(X, [k |-> "Break"], [k |-> "Continue"])),
   Emitting(Member(X, "E"), <<X>>, <<"a">>), Emitting(X, <<X, Num("")>>, << >>), Braces(<<Braces(<< >>)>>)}

FunctionOf(constructor, name, params, visibility, mutability, modifiers, returns, body) ==
  [k |-> "Function", body |-> body,
   header |-> [constructor |-> constructor, name |-> name, params |-> params, returns |-> returns, visibility |-> visibility,
               mutability |-> mutability, modifiers |-> modifiers]]
Fallback(modifiers, body) == FunctionOf(FALSE, "", << >>, "External", "Payable", modifiers, << >>, body)
Apply(name, given, args) == [name |-> Id(name), given |-> given, args |-> args]
Parameter == Var(Uint, "a", "Unspecified")
EnumOf(members) == [k |-> "Enum", name |-> "E", members |-> members]
ModifierOf(params, body) == [k |-> "Modifier", name |-> "m", params |-> params, body |-> body]
Hook == FunctionTypeOf(<<Var(Uint, "", "Unspecified")>>, "External", "View", << >>)

Parts ==
  {Fallback(<<Apply("m", FALSE, << >>), Apply("n", TRUE, <<X>>)>>, Braces(<< >>)), Fallback(<< >>, Nothing),
   StateVar(Hook, "f", "Public", X), StateVar(ArrayOf(Hook, Nothing), "f", "Default", Nothing),
   StateVar([Hook EXCEPT !.visibility = "Default", !.mutability = "NonPayable"], "f", "Default", Nothing),
   FunctionOf(TRUE, "", <<Parameter>>, "Public", "NonPayable", <<Apply("m", TRUE, << >>)>>, << >>, Braces(<<Expr(Id("_"))>>)),
   FunctionOf(FALSE, "f", <<Var(ArrayOf(Uint, Num("")), "", "Memory"), Parameter>>, "Internal", "Pure", << >>, <<Parameter, Var(Uint, "", "Unspecified")>>, Nothing),
   [k |-> "Struct", name |-> "S", members |-> <<Parameter, Var([k |-> "Mapping", key |-> Elem("Address", ""), value |-> User(<<"S">>)], "next", "Unspecified")>>],
   EnumOf(<<"p", "q">>), EnumOf(<<"p">>), [StateVar(Uint, "a", "Public", Binary("Add", X, X)) EXCEPT !.constant = TRUE],
   StateVar(ArrayOf(User(<<"L", "S">>), X), "a", "Private", Nothing),
   ModifierOf(<< >>, Braces(<<[k |-> "Placeholder"]>>)), ModifierOf(<<Parameter>>, Braces(<<IfThenElse(X, [k |-> "Placeholder"], Nothing)>>)),
   [k |-> "Event", name |-> "E", params |-> <<[Parameter EXCEPT !.indexed = TRUE], Var(User(<<"T">>), "", "Unspecified")>>, anonymous |-> TRUE],
   [k |-> "Event", name |-> "E", params |-> << >>, anonymous |-> FALSE],
   [k |-> "Using", library |-> User(<<"a", "L">>), type |-> ArrayOf(Uint, Nothing)], [k |-> "Using", library |-> User(<<"L">>), type |-> Nothing]}

Units ==
  {[k |-> "Pragma", tokens |-> <<[t |-> "Identifier", v |-> "solidity"], [t |-> "BitXor", v |-> ""], [t |-> "Number", v |-> "0.5"]>>],
   [k |-> "Import", path |-> "f", unit |-> "", symbols |-> << >>], [k |-> "Import", path |-> "f", unit |-> "u", symbols |-> << >>],
   [k |-> "Import", path |-> "f", unit |-> "", symbols |-> <<[name |-> "a", alias |-> "b"], [name |-> "from", alias |-> ""]>>],
   [k |-> "Contract", kind |-> "Library", name |-> "L", bases |-> << >>, nodes |-> << >>],
   [k |-> "Contract", kind |-> "Interface", name |-> "I", nodes |-> << >>,
    bases |-> <<[name |-> User(<<"a", "B">>), given |-> TRUE, args |-> <<X>>], [name |-> User(<<"C">>), given |-> FALSE, args |-> << >>]>>]}

ContractOf(part) == [k |-> "Contract", kind |-> "Contract", name |-> "C", bases |-> << >>, nodes |-> <<part>>]
Running(statements) == ContractOf(FunctionOf(FALSE, "f", << >>, "Default", "NonPayable", << >>, << >>, Braces(statements)))

RECURSIVE Minus(_)
Minus(n) == IF n = 0 THEN X ELSE Unary("Sub", TRUE, Minus(n - 1))

Holding(part, edits) == [unit |-> <<part>>, deep |-> FALSE, edits |-> edits]
AllSources ==
  {Holding(Running(<<Expr(e), Returning(e)>>), FALSE) : e \in Expressions}
    \cup {Holding(Running(<<s>>), TRUE) : s \in Alike \cup Bracketed}
    \cup {Holding(ContractOf(part), TRUE) : part \in Parts} \cup {Holding(unit, TRUE) : unit \in Units}
    \cup {[unit |-> <<Running(<<Returning(Minus(MaxDepth - 9 - n))>>)>>, deep |-> n = 0, edits |-> FALSE] : n \in 0..1}

SlippedIn ==
  {Token("Comma"), Token("Semicolon"), Token("RParen"), Token("LBrack"), Token("Assign"), Token("Constant"), Token("UInt"),
   Token("View"), Ident("x")}

-----------------------------------------------------------------------------
\* Behind the search of the function that returns none
NothingToAnalyse == done /\ flow.parameters = {}

FlowInit == SearchInit /\ Init /\ ParserInit

ReporterCall == NothingToAnalyse /\ text = << >> /\ Next /\ UNCHANGED <<searchVars, parserVars>>

Write(written(_), units) ==
  NothingToAnalyse /\ Init /\ WriteBy(written, units) /\ UNCHANGED <<searchVars, vars>>
Slip(slips(_)) == SlipBy(slips) /\ UNCHANGED <<searchVars, vars>>
Parse(parse(_)) == ParseBy(parse) /\ UNCHANGED <<searchVars, vars>>

FlowNext ==
  \/ SearchNext /\ UNCHANGED <<vars, parserVars>>
  \/ ReporterCall
  \/ Write(WrittenUnit, Sources)
  \/ Slip(Slips)
  \/ Parse(ParseSourceUnit)

allVars == <<searchVars, vars, parserVars>>

FlowSpec == FlowInit /\ [][FlowNext]_allVars /\ WF_allVars(SearchNext /\ UNCHANGED <<vars, parserVars>>)

Unassigned == {x \in flow.parameters : MayLeaveUnassigned(flow.function, x)}

\* A variable that some way through the function leaves unassigned is reported: no early
\* exit, loop or short circuit hides it.  Functions without modifiers.
ReportsEveryPath == done /\ flow.function.modifiers = << >> => Unassigned \subseteq reported

\* What is reported can happen: some way through the function, its modifiers included,
\* ends normally without assigning the variable.
ReportsOnlyPaths == done => reported \subseteq Unassigned

=============================================================================
