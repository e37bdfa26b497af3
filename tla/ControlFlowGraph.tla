--------------------------- MODULE ControlFlowGraph ---------------------------
(***************************************************************************)
(* ControlFlowBuilder and CFG (libsolidity/analysis): the control flow     *)
(* graph of a function and its modifiers.                                  *)
(*                                                                         *)
(* A tree is a record with a kind.  Of expressions only what can assign    *)
(* or steer is told apart; everything else is "Plain".                     *)
(*   "Assign" vars, value      "And" left, right  (also ||)                *)
(*   "Conditional" cond, then, else         "Revert"    "Require"          *)
(* Statements are expressions, "Block" body, "If" cond, then, else,        *)
(* "While" and "DoWhile" cond, body, "For" init, cond, loop, body,         *)
(* "Break", "Continue", "Throw", "Return" expression, "Assembly" vars and  *)
(* "Placeholder".  None stands for what the grammar makes optional.        *)
(***************************************************************************)
EXTENDS Naturals, Sequences

LOCAL INSTANCE SequencesExt

CONSTANT None

Plain == [kind |-> "Plain"]

-----------------------------------------------------------------------------
(* The graph under construction: CFGNodes are numbers.  assigns holds what  *)
(* a node's block assigns or inline assembly in it mentions, returns        *)
(* whether it ends in a return with an expression.                          *)

NoNodes == [nodes |-> 0, exits |-> << >>, entries |-> << >>, assigns |-> << >>, returns |-> << >>,
            cur |-> 0, breakJump |-> 0, continueJump |-> 0,
            entry |-> 1, exit |-> 2, revert |-> 3, placeholderEntry |-> 0, placeholderExit |-> 0]

NewNode(g) ==
  [g EXCEPT !.nodes = @ + 1, !.exits = Append(@, << >>), !.entries = Append(@, << >>),
            !.assigns = Append(@, {}), !.returns = Append(@, FALSE)]

Connect(g, from, to) ==
  [g EXCEPT !.exits[from] = Append(@, to), !.entries[to] = Append(@, from)]

CreateLabelHere(g) ==
  LET n == NewNode(g) IN [Connect(n, g.cur, n.nodes) EXCEPT !.cur = n.nodes]

PlaceAndConnectLabel(g, label) == [Connect(g, g.cur, label) EXCEPT !.cur = label]

\* What follows a jump hangs on a node nothing leads to.
JumpTo(g, target) ==
  LET n == NewNode(Connect(g, g.cur, target)) IN [n EXCEPT !.cur = n.nodes]

\* splitFlow<2>: the nodes are the last two.
SplitFlow(g) == Connect(Connect(NewNode(NewNode(g)), g.cur, g.nodes + 1), g.cur, g.nodes + 2)

RECURSIVE Accept(_, _)

CreateFlow(g, start, tree) == Accept([g EXCEPT !.cur = start], tree)

AcceptOptional(g, tree) == IF tree = None THEN g ELSE Accept(g, tree)

\* mergeFlow with the second branch as the end, and with a new node.
MergeInto(g, label) == IF g.cur = label THEN g ELSE PlaceAndConnectLabel(g, label)

Merge(g, first, second) ==
  LET n == NewNode(g)
  IN  [Connect(Connect(n, first, n.nodes), second, n.nodes) EXCEPT !.cur = n.nodes]

\* Mutant: the right operand is always evaluated.
VisitBoth(g, e) == Accept(Accept(g, e.left), e.right)

VisitBinaryOperation(g, e) ==
  LET s == SplitFlow(Accept(g, e.left))
  IN  MergeInto(CreateFlow(s, s.nodes - 1, e.right), s.nodes)

VisitBranches(g, e) ==
  LET s == SplitFlow(Accept(g, e.cond))
      t == CreateFlow(s, s.nodes - 1, e.then)
      f == CreateFlow(t, s.nodes, e.else)
  IN  IF e.else = None THEN MergeInto(t, s.nodes) ELSE Merge(f, t.cur, f.cur)

\* The body of a loop with its targets for break and continue.
AcceptLoopBody(g, body, breakJump, continueJump) ==
  [Accept([g EXCEPT !.breakJump = breakJump, !.continueJump = continueJump], body)
     EXCEPT !.breakJump = g.breakJump, !.continueJump = g.continueJump]

VisitFor(g, s) ==
  LET i == CreateLabelHere(AcceptOptional(g, s.init))
      condition == i.cur
      c == NewNode(AcceptOptional(i, s.cond))
      loopExpression == c.nodes
      b == SplitFlow(c)
      afterFor == b.nodes
      e == PlaceAndConnectLabel(
             AcceptLoopBody([b EXCEPT !.cur = afterFor - 1], s.body, afterFor, loopExpression),
             loopExpression)
      l == AcceptOptional(e, s.loop)
  IN  [Connect(l, l.cur, condition) EXCEPT !.cur = afterFor]

VisitDoWhile(g, s) ==
  LET a == NewNode(g)
      afterWhile == a.nodes
      l == CreateLabelHere(a)
      whileBody == l.cur
      n == NewNode(l)
      condition == n.nodes
      b == AcceptLoopBody(n, s.body, afterWhile, condition)
      c == Accept(PlaceAndConnectLabel(b, condition), s.cond)
  IN  PlaceAndConnectLabel(Connect(c, c.cur, whileBody), afterWhile)

VisitWhile(g, s) ==
  LET l == CreateLabelHere(g)
      whileCondition == l.cur
      b == SplitFlow(Accept(l, s.cond))
      afterWhile == b.nodes
      e == AcceptLoopBody([b EXCEPT !.cur = afterWhile - 1], s.body, afterWhile, whileCondition)
  IN  [Connect(e, e.cur, whileCondition) EXCEPT !.cur = afterWhile]

VisitBlock(g, s) == CreateLabelHere(FoldLeft(Accept, CreateLabelHere(g), s.body))

\* The expression is visited on the node behind the return.
VisitReturn(g, s) ==
  AcceptOptional(JumpTo([g EXCEPT !.returns[g.cur] = s.expression # None], g.exit), s.expression)

VisitPlaceholder(g) ==
  LET n == JumpTo(g, g.placeholderEntry) IN Connect(n, g.placeholderExit, n.cur)

\* Mutant: code behind a revert is reached.
RevertAndGoOn(g) == Connect(g, g.cur, g.revert)

VisitRevert(g) == JumpTo(g, g.revert)

VisitRequire(g) ==
  LET n == NewNode(Connect(g, g.cur, g.revert)) IN PlaceAndConnectLabel(n, n.nodes)

\* An assignment is recorded in the node where it begins.
VisitNode(g, vars) == [g EXCEPT !.assigns[g.cur] = @ \cup vars]

Accept(g, tree) ==
  CASE tree.kind = "Plain" -> g
    [] tree.kind = "Assign" -> Accept(VisitNode(g, tree.vars), tree.value)
    [] tree.kind = "Assembly" -> VisitNode(g, tree.vars)
    [] tree.kind = "And" -> VisitBinaryOperation(g, tree)
    [] tree.kind \in {"Conditional", "If"} -> VisitBranches(g, tree)
    [] tree.kind = "For" -> VisitFor(g, tree)
    [] tree.kind = "While" -> VisitWhile(g, tree)
    [] tree.kind = "DoWhile" -> VisitDoWhile(g, tree)
    [] tree.kind = "Break" -> JumpTo(g, g.breakJump)
    [] tree.kind = "Continue" -> JumpTo(g, g.continueJump)
    [] tree.kind \in {"Throw", "Revert"} -> VisitRevert(g)
    [] tree.kind = "Require" -> VisitRequire(g)
    [] tree.kind = "Block" -> VisitBlock(g, tree)
    [] tree.kind = "Return" -> VisitReturn(g, tree)
    [] tree.kind = "Placeholder" -> VisitPlaceholder(g)

CreateFunctionFlow(body) ==
  LET g == AcceptOptional([NewNode(NewNode(NewNode(NoNodes))) EXCEPT !.cur = 1], body)
  IN  Connect(g, g.cur, g.exit)

CreateModifierFlow(body) ==
  LET n == NewNode(NewNode(NewNode(NewNode(NewNode(NoNodes)))))
      g == Accept([n EXCEPT !.cur = 1, !.placeholderEntry = 4, !.placeholderExit = 5], body)
  IN  Connect(g, g.cur, g.exit)

-----------------------------------------------------------------------------
(* CFG::applyModifierFlowToFunctionFlow.  A copy is the function's graph so *)
(* far, where each node of the modifier went, and what is still to copy.    *)

Extended(f, x, y) == [z \in DOMAIN f \cup {x} |-> IF z = x THEN y ELSE f[z]]

Destination(copy, src) ==
  IF src \in DOMAIN copy.to THEN copy
  ELSE [graph |-> NewNode(copy.graph), to |-> Extended(copy.to, src, copy.graph.nodes + 1),
        todo |-> Append(copy.todo, src)]

CopyNode(m, copy) ==
  LET src == Last(copy.todo)
      dst == copy.to[src]
      Entry(c, e) == LET d == Destination(c, e)
                     IN  [d EXCEPT !.graph.entries[dst] = Append(@, d.to[e])]
      Exit(c, e) == LET d == Destination(c, e)
                    IN  [d EXCEPT !.graph.exits[dst] = Append(@, d.to[e])]
      start == [copy EXCEPT !.todo = Front(@), !.graph.assigns[dst] = m.assigns[src],
                            !.graph.returns[dst] = m.returns[src]]
  IN  FoldLeft(Exit, FoldLeft(Entry, start, m.entries[src]), m.exits[src])

RECURSIVE CopyNodes(_, _)
CopyNodes(m, copy) == IF copy.todo = << >> THEN copy ELSE CopyNodes(m, CopyNode(m, copy))

\* The revert and placeholder nodes are those of the function.
ApplyModifierFlow(m, f) ==
  LET n == NewNode(f)
      start == [graph |-> n,
                to |-> [x \in {m.revert, m.placeholderEntry, m.placeholderExit, m.entry} |->
                          CASE x = m.revert -> f.revert
                            [] x = m.placeholderEntry -> f.entry
                            [] x = m.placeholderExit -> f.exit
                            [] x = m.entry -> n.nodes],
                todo |-> <<m.entry>>]
      copied == CopyNodes(m, start)
      done == Destination(copied, m.exit)
  IN  [done.graph EXCEPT !.entry = done.to[m.entry], !.exit = done.to[m.exit]]

\* A function is [parameters, modifiers, body]: the storage pointers it returns, the
\* bodies of its modifiers and its own.  Modifiers are applied from the last one.
FunctionFlow(f) ==
  FoldRight(LAMBDA m, g : ApplyModifierFlow(CreateModifierFlow(m), g), f.modifiers,
            CreateFunctionFlow(f.body))

-----------------------------------------------------------------------------
(* What the search over the graph should find, from the tree alone: how a   *)
(* tree can be left without assigning v.  inner says whether the code at a  *)
(* placeholder can be left so.  Conditions may have any outcome.            *)

RECURSIVE Leaves(_, _, _)

LeavesAll(trees, v, inner) ==
  FoldLeft(LAMBDA ways, t :
             IF "normally" \in ways THEN (ways \ {"normally"}) \cup Leaves(t, v, inner) ELSE ways,
           {"normally"}, trees)

Passes(tree, v, inner) == tree = None \/ "normally" \in Leaves(tree, v, inner)

Leaves(tree, v, inner) ==
  LET Normally(b) == IF b THEN {"normally"} ELSE {}
      Body == Leaves(tree.body, v, inner)
      LoopBody == Normally("break" \in Body) \cup (Body \cap {"return"})
  IN CASE tree.kind \in {"Plain", "Require"} -> {"normally"}
       [] tree.kind = "Assign" -> Normally(v \notin tree.vars /\ Passes(tree.value, v, inner))
       [] tree.kind = "Assembly" -> Normally(v \notin tree.vars)
       [] tree.kind = "And" -> Normally(Passes(tree.left, v, inner))
       [] tree.kind \in {"Conditional", "If"} ->
            IF ~Passes(tree.cond, v, inner) THEN {}
            ELSE Leaves(tree.then, v, inner)
                   \cup (IF tree.else = None THEN {"normally"} ELSE Leaves(tree.else, v, inner))
       [] tree.kind = "For" ->
            IF ~Passes(tree.init, v, inner) \/ ~Passes(tree.cond, v, inner) THEN {}
            ELSE {"normally"} \cup LoopBody
       [] tree.kind = "While" ->
            IF ~Passes(tree.cond, v, inner) THEN {} ELSE {"normally"} \cup LoopBody
       [] tree.kind = "DoWhile" ->
            Normally(Body \cap {"normally", "continue"} # {} /\ Passes(tree.cond, v, inner))
              \cup LoopBody
       [] tree.kind = "Break" -> {"break"}
       [] tree.kind = "Continue" -> {"continue"}
       [] tree.kind \in {"Throw", "Revert"} -> {}
       [] tree.kind = "Block" -> LeavesAll(tree.body, v, inner)
       [] tree.kind = "Return" -> IF tree.expression = None THEN {"return"} ELSE {}
       [] tree.kind = "Placeholder" -> Normally(inner)

\* The function may return without having assigned v.
MayLeaveUnassigned(f, v) ==
  FoldRight(LAMBDA m, inner : Leaves(m, v, inner) # {}, f.modifiers,
            Leaves(f.body, v, FALSE) # {})

=============================================================================
