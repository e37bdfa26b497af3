------------------------------- MODULE MC_Yul ------------------------------
(***************************************************************************)
(* Small Yul programs for the optimiser.                                   *)
(***************************************************************************)
EXTENDS YulOptimiser

x == 1
y == 2
z == 3
i == 4
f == 10
g == 11
a == 20
r == 21
q == 22
p == 23
u == 24

Op2(o, e1, e2) == FunctionalInstruction(o, <<e1, e2>>)
Op1(o, e) == FunctionalInstruction(o, <<e>>)
Add(e1, e2) == Op2("ADD", e1, e2)
Store(e1, e2) == ExpressionStatement(Op2("SSTORE", e1, e2))
Sload(e) == Op1("SLOAD", e)
Input(n) == Op1("CALLDATALOAD", Lit(n))
Set(v, e) == Assignment(<<v>>, e)
Let(v, e) == VariableDeclaration(<<v>>, e)
CallF(e) == FunctionCall(f, <<e>>)

\* Statements over the variables x and y
Pieces == {
  <<Set(x, Add(Id(y), Id(x)))>>,
  <<Set(y, Sload(Id(x)))>>,
  <<Store(Id(x), Sload(Id(y)))>>,
  <<If(Id(x), <<Set(y, Id(x))>>)>>,
  <<If(Op2("LT", Id(y), Lit(2)), <<Set(x, Lit(3)), Let(z, Id(x)), Store(Id(z), Id(y)), Set(x, Id(z))>>)>>,
  <<Switch(Id(x), <<Lit(0), Lit(3), None>>, << <<Set(y, Lit(2))>>, <<Store(Id(y), Id(x))>>, <<Set(x, Id(y))>> >>)>>,
  <<ForLoop(<<Let(i, Lit(0))>>, Op2("LT", Id(i), Lit(2)), <<Set(i, Add(Id(i), Lit(1)))>>,
            <<Set(y, Add(Id(y), Id(x))), Set(x, Id(i))>>)>>,
  <<Block(<<Let(z, Add(Id(x), Id(y))), Set(x, Id(z))>>)>>,
  <<Store(Op2("MUL", Id(x), Lit(0)), Op2("SUB", Add(Id(x), Lit(1)), Lit(1)))>>,
  <<If(Op1("ISZERO", Op1("ISZERO", Op2("LT", Id(x), Id(y)))), <<ExpressionStatement(FunctionalInstruction("STOP", << >>))>>)>>
}

Straight(s, t) ==
  <<Let(x, Input(0)), Let(y, Lit(1))>> \o s \o t \o <<Store(Id(x), Id(y)), Let(z, Sload(Id(y)))>>

\* Function bodies and uses of the function
Bodies == {
  <<Set(r, Add(Id(a), Lit(1)))>>,
  <<Set(r, Sload(Id(a))), Store(Id(a), Add(Id(r), Lit(1)))>>,
  <<If(Id(a), <<Set(r, CallF(Op2("SUB", Id(a), Lit(1)))), Store(Lit(0), Id(r))>>)>>,
  <<Let(p, Id(a)), Set(a, Lit(5)), Set(r, Add(Id(p), Id(a)))>>,
  <<FunctionDefinition(g, <<p>>, <<u>>, <<Set(u, Add(Id(p), Id(p)))>>), Set(r, FunctionCall(g, <<Id(a)>>))>>,
  <<Set(r, FunctionCall(g, <<Id(a)>>))>>
}
Uses == {
  <<Set(x, CallF(Lit(2)))>>,
  <<Let(z, CallF(CallF(Id(x)))), Set(x, Add(Id(z), CallF(Id(y))))>>,
  <<Store(CallF(Id(x)), Sload(CallF(Lit(1))))>>,
  <<If(CallF(Id(x)), <<Set(y, CallF(Id(y)))>>)>>,
  <<ForLoop(<<Let(i, CallF(Lit(0)))>>, Op2("LT", Id(i), CallF(Lit(1))), <<Set(i, Add(Id(i), Lit(1)))>>, <<Set(y, CallF(Id(i)))>>)>>,
  <<Let(z, CallF(Id(x)))>>
}
WithFunction(s, body) ==
  <<Let(x, Input(0)), Let(y, Lit(1))>> \o s
  \o <<Block(<<Store(Id(x), Id(y))>>), FunctionDefinition(f, <<a>>, <<r>>, body)>>
  \o (IF body = <<Set(r, FunctionCall(g, <<Id(a)>>))>>
      THEN <<FunctionDefinition(g, <<a>>, <<q>>, <<If(Id(a), <<Set(q, CallF(Lit(0)))>>)>>)>> ELSE << >>)

\* A function with two results, which are declared together.  They are not assigned to
\* variables that have values already, and not used in operations the simplifier has
\* rules for: in both cases the optimiser goes wrong (see the README).
Both == FunctionDefinition(g, << >>, <<r, q>>, <<Set(r, Lit(2)), Set(q, Lit(3))>>)
TwoResults(s) ==
  <<Let(x, Input(0)), Let(y, Lit(1))>> \o s
  \o <<VariableDeclaration(<<z, i>>, FunctionCall(g, << >>)), Store(Id(i), Id(z)), Both>>

SomePrograms ==
  {TwoResults(s) : s \in Pieces} \cup {Straight(s, t) : s, t \in Pieces}
    \cup {WithFunction(s, b) : s \in Uses, b \in Bodies}

SomeInputs == {0, 1, 3}

Spec == Init /\ [][Next]_vars
=============================================================================
