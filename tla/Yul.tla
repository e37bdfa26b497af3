-------------------------------- MODULE Yul --------------------------------
(***************************************************************************)
(* Yul programs (libyul/AsmData.h), the analysis that decides which are    *)
(* valid (AsmScope, AsmScopeFiller, AsmAnalysis) and, as the reference for *)
(* what a program does, an interpreter that is no part of the compiler.    *)
(*                                                                         *)
(* Names are numbers.  Every expression is a record [k, n, f, args] and    *)
(* every statement a record [k, xs, e, bs, ds]: the names it declares or   *)
(* assigns (the parameters of a function), its expression, its blocks and, *)
(* for a switch, the values of its cases, for a function its name and      *)
(* return variables.  A block is a sequence of statements.  Types, labels  *)
(* and the other loose forms of inline assembly are left out: strict       *)
(* assembly has none.                                                      *)
(***************************************************************************)
EXTENDS Instructions, Walking, SequencesExt

----------------------------------------------------------------------------
\* Syntax

Expr(k, n, f, args) == [k |-> k, n |-> n, f |-> f, args |-> args]
None == Expr("none", 0, "", << >>)
Lit(n) == Expr("lit", n, "", << >>)
Id(x) == Expr("id", x, "", << >>)
FunctionalInstruction(f, args) == Expr("op", 0, f, args)
FunctionCall(f, args) == Expr("call", f, "", args)

Stmt(k, xs, e, bs, ds) == [k |-> k, xs |-> xs, e |-> e, bs |-> bs, ds |-> ds]
ExpressionStatement(e) == Stmt("expr", << >>, e, << >>, << >>)
Assignment(xs, e) == Stmt("assign", xs, e, << >>, << >>)
VariableDeclaration(xs, e) == Stmt("let", xs, e, << >>, << >>)
If(e, body) == Stmt("if", << >>, e, <<body>>, << >>)
Switch(e, values, bodies) == Stmt("switch", << >>, e, bodies, values)   \* value None: default
ForLoop(pre, e, post, body) == Stmt("for", << >>, e, <<pre, post, body>>, << >>)
Block(body) == Stmt("block", << >>, None, <<body>>, << >>)
FunctionDefinition(f, params, rets, body) == Stmt("fun", params, None, <<body>>, <<f, rets>>)

HasValue(s) == s.e.k # "none"
Names(s) == ToSet(s.xs)
FunName(s) == s.ds[1]
Rets(s) == s.ds[2]
Functions(b) == {s \in ToSet(b) : s.k = "fun"}

SumSeq(s) == LET sum[k \in 0..Len(s)] == IF k = 0 THEN 0 ELSE sum[k - 1] + s[k] IN sum[Len(s)]
UnionSeq(s) == UNION ToSet(s)

----------------------------------------------------------------------------
\* AsmScopeFiller: no name is registered where it is visible already.  The result is the
\* set of names the block registers, or a set with the failure in it.

Taken == -1

RECURSIVE ScopeFiller(_, _, _)

Register(names, outer, own) ==
  IF (\E k \in 1..Len(names) : names[k] \in outer \cup own \/ \E j \in 1..(k - 1) : names[j] = names[k])
  THEN {Taken} ELSE own \cup ToSet(names)

FillStatement(s, outer, own) ==
  LET inner(b) == Taken \in ScopeFiller(b, outer \cup own, {})
      fails == CASE s.k = "for" ->
                      LET pre == ScopeFiller(s.bs[1], outer \cup own, {})
                      IN  \/ Taken \in pre
                          \/ \E k \in 2..3 : Taken \in ScopeFiller(s.bs[k], outer \cup own \cup pre, {})
                 [] s.k = "fun" ->
                      LET scope == outer \cup own \cup {FunName(s)}
                          vars == Register(s.xs \o Rets(s), scope, {})
                      IN  Taken \in vars \/ Taken \in ScopeFiller(s.bs[1], scope \cup vars, {})
                 [] OTHER -> \E k \in 1..Len(s.bs) : inner(s.bs[k])
      new == CASE s.k = "let" -> Register(s.xs, outer, own)
               [] s.k = "fun" -> Register(<<FunName(s)>>, outer, own)
               [] OTHER -> own
  IN  IF fails THEN {Taken} ELSE new

ScopeFiller(b, outer, own) ==
  IF b = << >> \/ Taken \in own THEN own
  ELSE ScopeFiller(Tail(b), outer, FillStatement(Head(b), outer, own))

----------------------------------------------------------------------------
\* AsmAnalyzer.  scopes is the chain of open scopes, the innermost last.

Scope(vars, funs, active, isFunction) ==
  [vars |-> vars, funs |-> funs, active |-> active, isFunction |-> isFunction]

ScopeOfBlock(b) ==
  Scope(UNION {Names(s) : s \in {t \in ToSet(b) : t.k = "let"}}, Functions(b), {}, FALSE)

\* Scope::lookup: the index of the scope that holds x, 0 if there is none
LookupVariable(scopes, x) ==
  LET holding == {k \in 1..Len(scopes) : x \in scopes[k].vars /\ \A j \in (k + 1)..Len(scopes) : ~scopes[j].isFunction}
  IN  IF holding = {} THEN 0 ELSE CHOOSE k \in holding : \A j \in holding : j <= k

LookupFunction(scopes, f) ==
  UNION {{s \in scopes[k].funs : FunName(s) = f} : k \in 1..Len(scopes)}

Usable(scopes, x) == LET k == LookupVariable(scopes, x) IN k # 0 /\ x \in scopes[k].active

\* How many items an expression leaves on the stack
Deposit(e, scopes) ==
  CASE e.k = "op" -> InstructionInfo[e.f].ret
    [] e.k = "call" -> IF LookupFunction(scopes, e.n) = {} THEN 0
                       ELSE Len(Rets(CHOOSE s \in LookupFunction(scopes, e.n) : TRUE))
    [] OTHER -> 1

RECURSIVE AnalyzeExpression(_, _), AnalyzeBlock(_, _)

ExpectExpression(e, scopes) == AnalyzeExpression(e, scopes) /\ Deposit(e, scopes) = 1

AnalyzeExpression(e, scopes) ==
  /\ e.k = "id" => Usable(scopes, e.n)
  /\ e.k = "op" => Len(e.args) = InstructionInfo[e.f].args
  /\ e.k = "call" => \E s \in LookupFunction(scopes, e.n) : Len(s.xs) = Len(e.args)
  /\ \A k \in 1..Len(e.args) : ExpectExpression(e.args[k], scopes)

Activate(scopes, names) ==
  [scopes EXCEPT ![Len(scopes)] = [@ EXCEPT !.active = @ \cup names]]

AnalyzeStatement(s, scopes) ==
  CASE s.k = "expr" -> AnalyzeExpression(s.e, scopes) /\ Deposit(s.e, scopes) = 0
    [] s.k = "assign" -> /\ AnalyzeExpression(s.e, scopes) /\ Deposit(s.e, scopes) = Len(s.xs)
                         /\ \A x \in Names(s) : Usable(scopes, x)
    [] s.k = "let" -> HasValue(s) => AnalyzeExpression(s.e, scopes) /\ Deposit(s.e, scopes) = Len(s.xs)
    [] s.k = "fun" ->
         AnalyzeBlock(s.bs[1], Append(scopes, Scope(Names(s) \cup ToSet(Rets(s)), {}, Names(s) \cup ToSet(Rets(s)), TRUE)))
    [] s.k = "for" ->
         LET pre == ScopeOfBlock(s.bs[1])
             loop == Append(scopes, [pre EXCEPT !.active = pre.vars])
         IN  /\ AnalyzeBlock(s.bs[1], scopes) /\ ExpectExpression(s.e, loop)
             /\ AnalyzeBlock(s.bs[3], loop) /\ AnalyzeBlock(s.bs[2], loop)
    [] s.k = "switch" ->
         /\ ExpectExpression(s.e, scopes)
         /\ \A j, k \in 1..Len(s.ds) : j # k => s.ds[j] # s.ds[k]
         /\ \A k \in 1..Len(s.bs) : AnalyzeBlock(s.bs[k], scopes)
    [] s.k = "if" -> ExpectExpression(s.e, scopes) /\ AnalyzeBlock(s.bs[1], scopes)
    [] s.k = "block" -> AnalyzeBlock(s.bs[1], scopes)

AnalyzeBlock(b, scopes) ==
  LET before(k) == UNION {Names(b[j]) : j \in {i \in 1..(k - 1) : b[i].k = "let"}}
      inside == Append(scopes, ScopeOfBlock(b))
  IN  \A k \in 1..Len(b) : AnalyzeStatement(b[k], Activate(inside, before(k)))

\* AsmAnalyzer::analyze
Analyze(ast) == Taken \notin ScopeFiller(ast, {}, {}) /\ AnalyzeBlock(ast, << >>)

----------------------------------------------------------------------------
\* The reference: running a program with a limit on loop turns and calls.  Arguments are
\* evaluated from right to left.  What is observed are the stores and how it ends.

CONSTANT YulFuel
ASSUME YulFuelAssumption == YulFuel \in Nat

Going(m) == m.status = "running"
Values(vs, m) == [vs |-> vs, m |-> m]
Spend(m) == IF m.fuel = 0 THEN [m EXCEPT !.status = "fuel"] ELSE [m EXCEPT !.fuel = @ - 1]
Bind(env, xs, vs) == [x \in DOMAIN env \cup ToSet(xs) |-> IF x \in ToSet(xs) THEN vs[IndexOf(xs, x)] ELSE env[x]]
Zeros(n) == [k \in 1..n |-> 0]

RECURSIVE Eval(_, _, _), EvalArgs(_, _, _, _), Exec(_, _, _), Loop(_, _, _)

EvalArgs(args, k, m, chain) ==
  IF k = 0 THEN Values(<< >>, m)
  ELSE LET last == Eval(args[k], m, chain)
           rest == EvalArgs(args, k - 1, last.m, chain)
       IN  Values(rest.vs \o <<last.vs[1]>>, rest.m)

Perform(f, a, m) ==
  CASE f \in Pure -> Values(<<Compute(f, a)>>, m)
    [] f = "SLOAD" -> Values(<<m.storage[a[1]]>>, m)
    [] f = "CALLDATALOAD" -> Values(<<(m.input + a[1]) % Base>>, m)
    [] f = "SSTORE" -> Values(<< >>, [m EXCEPT !.storage[a[1]] = a[2], !.stores = Append(@, a)])
    [] f = "STOP" -> Values(<< >>, [m EXCEPT !.status = "stop"])
    [] f = "POP" -> Values(<< >>, m)

Call(s, level, a, m, chain) ==
  LET inner == [Spend(m) EXCEPT !.env = Bind(Bind(<< >>, s.xs, a), Rets(s), Zeros(Len(Rets(s))))]
      done == Exec(s.bs[1], inner, SubSeq(chain, 1, level))
  IN  Values([k \in 1..Len(Rets(s)) |-> done.env[Rets(s)[k]]], [done EXCEPT !.env = m.env])

Eval(e, m, chain) ==
  IF ~Going(m)
  THEN Values(IF e.k = "call" THEN Zeros(4) ELSE <<0>>, m)
  ELSE CASE e.k = "lit" -> Values(<<e.n>>, m)
         [] e.k = "id" -> Values(<<m.env[e.n]>>, m)
         [] e.k = "op" -> LET a == EvalArgs(e.args, Len(e.args), m, chain)
                          IN  IF Going(a.m) THEN Perform(e.f, a.vs, a.m) ELSE Values(<<0>>, a.m)
         [] e.k = "call" ->
              LET a == EvalArgs(e.args, Len(e.args), m, chain)
                  level == CHOOSE k \in 1..Len(chain) : \E s \in chain[k] : FunName(s) = e.n
                  s == CHOOSE t \in chain[level] : FunName(t) = e.n
              IN  IF Going(a.m) THEN Call(s, level, a.vs, a.m, chain) ELSE Values(Zeros(4), a.m)

\* A turn of a loop.  chain holds the functions of the loop's first block.
Loop(s, m, chain) ==
  LET c == Eval(s.e, Spend(m), chain)
      body == Exec(s.bs[3], c.m, chain)
  IN  IF ~Going(c.m) \/ c.vs[1] = 0 THEN c.m ELSE Loop(s, Exec(s.bs[2], body, chain), chain)

ExecStatement(s, m, chain) ==
  IF s.k = "fun" THEN m
  ELSE IF s.k = "block" THEN Exec(s.bs[1], m, chain)
  ELSE IF s.k = "for"
       THEN Loop(s, Exec(s.bs[1], m, chain), Append(chain, Functions(s.bs[1])))
  ELSE IF s.k = "let" /\ ~HasValue(s) THEN [m EXCEPT !.env = Bind(@, s.xs, Zeros(Len(s.xs)))]
  ELSE LET v == Eval(s.e, m, chain)
       IN  IF ~Going(v.m) THEN v.m
           ELSE CASE s.k = "expr" -> v.m
                  [] s.k \in {"let", "assign"} -> [v.m EXCEPT !.env = Bind(@, s.xs, v.vs)]
                  [] s.k = "if" -> IF v.vs[1] = 0 THEN v.m ELSE Exec(s.bs[1], v.m, chain)
                  [] s.k = "switch" ->
                       LET hit == {k \in 1..Len(s.ds) : s.ds[k] = Lit(v.vs[1])}
                           default == {k \in 1..Len(s.ds) : s.ds[k] = None}
                           taken == IF hit # {} THEN hit ELSE default
                       IN  IF taken = {} THEN v.m ELSE Exec(s.bs[CHOOSE k \in taken : TRUE], v.m, chain)

Exec(b, m, chain) ==
  LET inner == Append(chain, Functions(b))
  IN  Walk(LAMBDA n, s : IF Going(n) THEN ExecStatement(s, n, inner) ELSE n, m, b)

\* How a program ends with this input word, and the stores it makes
Outcome(ast, input) ==
  LET m == Exec(ast, [env |-> << >>, storage |-> [w \in Words |-> 0], stores |-> << >>,
                      status |-> "running", fuel |-> YulFuel, input |-> input], << >>)
  IN  [status |-> m.status, stores |-> m.stores]

=============================================================================
