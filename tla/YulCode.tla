------------------------------ MODULE YulCode ------------------------------
(***************************************************************************)
(* The translation of Yul to assembly items: CodeTransform                 *)
(* (libyul/backends/evm/EVMCodeTransform.cpp) on the EthAssemblyAdapter    *)
(* (libyul/AsmCodeGen.cpp).  The state of the transform is a record t:     *)
(*   items     the assembly so far        h      its stack height          *)
(*   adjust    m_stackAdjustment          next   the next label            *)
(*   vars      variableStackHeights       entry  functionEntryIDs          *)
(*   funs      the functions in scope     failed a failed assertion        *)
(*   analysed  the stack height AsmAnalyzer keeps for the same element     *)
(* A variable or function is known by its name: no two visible ones share  *)
(* it.  Only EVM 1.0 code: evm15 is false.                                 *)
(***************************************************************************)
EXTENDS Yul, EVM

CONSTANT ReachableSlots    \* how deep DUP reaches: 16 in the code
ASSUME ReachableAssumption == ReachableSlots \in 1..16

Failed(t, why) == [t EXCEPT !.failed = IF @ = "" THEN why ELSE @]
Ensure(t, condition) == IF condition THEN t ELSE Failed(t, "assertion")

\* AssemblyItem::deposit
ItemDeposit(item) ==
  CASE item.type = "Operation" -> InstructionInfo[item.data].ret - InstructionInfo[item.data].args
    [] item.type = "Tag" -> 0
    [] OTHER -> 1

\* Assembly::append, adjustDeposit
AppendItem(t, item) == [Ensure(t, t.h >= 0) EXCEPT !.items = Append(@, item), !.h = @ + ItemDeposit(item)]
AppendInstruction(t, instruction) == AppendItem(t, Op(instruction))
AppendConstant(t, value) == AppendItem(t, Push(value))
AppendLabel(t, label) == AppendItem(t, Tag(label))
AppendLabelReference(t, label) == AppendItem(t, PushTag(Local, label))
AppendJump(t, diff) == LET j == AppendInstruction(t, "JUMP") IN [Ensure(j, j.h + diff >= 0) EXCEPT !.h = @ + diff]
AppendJumpTo(t, label, diff) == AppendJump(AppendLabelReference(t, label), diff)
AppendJumpToIf(t, label) == AppendInstruction(AppendLabelReference(t, label), "JUMPI")
NewLabels(t, n) == [t EXCEPT !.next = @ + n]

ExpectDeposit(t, deposit, old) == Ensure(t, t.h = old + deposit)
\* checkStackHeight, with what the analysis recorded for this element
CheckStackHeight(t, analysed) == [Ensure(t, analysed = t.h - t.adjust) EXCEPT !.analysed = analysed]

\* Mutant of VariableHeightDiff: one slot off when there are several
VariableHeightDiffOffByOne(t, x, forSwap) ==
  LET diff == t.h - t.vars[x]
  IN  IF diff <= forSwap \/ diff > ReachableSlots + forSwap THEN 0 ELSE IF diff > 2 THEN diff - 1 ELSE diff

\* 0 if the variable cannot be reached (solUnimplemented)
VariableHeightDiff(t, x, forSwap) ==
  LET diff == t.h - t.vars[x]
  IN  IF diff <= forSwap \/ diff > ReachableSlots + forSwap THEN 0 ELSE diff

GenerateAssignment(t, x) ==
  LET diff == VariableHeightDiff(t, x, 1)
  IN  IF t.failed # "" THEN t
      ELSE IF diff = 0 THEN Failed(t, "stack too deep")
      ELSE AppendInstruction(AppendInstruction(t, SWAP[diff - 1]), "POP")

FunctionEntryID(t, f) ==
  IF f \in DOMAIN t.entry THEN t ELSE [NewLabels(t, 1) EXCEPT !.entry = (f :> t.next) @@ @]

RECURSIVE CodeOfExpression(_, _), CodeOfBlock(_, _), CodeOfStatements(_, _)

VisitExpression(t, e) == ExpectDeposit(CodeOfExpression(t, e), 1, t.h)

CodeOfExpression(t, e) ==
  LET arguments(v) == WalkBack(LAMBDA arg, u : VisitExpression(u, arg), e.args, v)
  IN  CASE t.failed # "" -> t
        [] t.failed = "" /\ e.k = "lit" -> CheckStackHeight(AppendConstant(t, e.n), t.analysed + 1)
        [] t.failed = "" /\ e.k = "id" ->
             LET diff == VariableHeightDiff(t, e.n, 0)
             IN  IF diff = 0 THEN Failed(t, "stack too deep")
                 ELSE [AppendInstruction(t, DUP[diff]) EXCEPT !.analysed = @ + 1]
        [] t.failed = "" /\ e.k = "op" ->
             LET v == arguments(t)
             IN  CheckStackHeight(AppendInstruction(v, e.f), v.analysed + InstructionInfo[e.f].ret - InstructionInfo[e.f].args)
        [] t.failed = "" /\ e.k = "call" ->
             LET start == [AppendLabelReference(NewLabels(t, 1), t.next) EXCEPT !.adjust = @ + 1]
                 v == FunctionEntryID(arguments(start), e.n)
                 rets == Len(Rets(t.funs[e.n]))
                 called == AppendLabel(AppendJumpTo(v, v.entry[e.n], rets - Len(e.args) - 1), t.next)
             IN  CheckStackHeight([called EXCEPT !.adjust = @ - 1], v.analysed + rets - Len(e.args))

\* The slots of a function's frame, bottom first, as the positions they shall move to; -1 goes.
RECURSIVE Reshuffle(_, _)
Reshuffle(t, layout) ==
  LET size == Len(layout)
      top == layout[size]
      swapped == [k \in 1..size |-> CASE k = size -> layout[top + 1] [] k = top + 1 -> top [] OTHER -> layout[k]]
  IN  IF layout = << >> \/ top = size - 1
      THEN Ensure(t, \A k \in 1..size : layout[k] = k - 1)
      ELSE IF top < 0 THEN Reshuffle(AppendInstruction(t, "POP"), Front(layout))
      ELSE Reshuffle(AppendInstruction(t, SWAP[size - top - 1]), swapped)

CodeOfFunction(t, s) ==
  LET params == Len(s.xs)
      rets == Len(Rets(s))
      v == FunctionEntryID(NewLabels(t, 1), FunName(s))
      height(x) == IF x \in Names(s) THEN 1 + params - IndexOf(s.xs, x) ELSE params + IndexOf(Rets(s), x)
      entered == [AppendLabel(AppendJumpTo(v, t.next, params + 1 - t.h), v.entry[FunName(s)])
                    EXCEPT !.vars = [x \in Names(s) \cup ToSet(Rets(s)) |-> height(x)] @@ @]
      preset == Walk(LAMBDA u, x : AppendConstant(u, 0), entered, Rets(s))
      body == CodeOfBlock([preset EXCEPT !.adjust = 1, !.analysed = params + rets], s.bs[1])
      layout == <<rets>> \o [k \in 1..params |-> -1] \o [k \in 1..rets |-> k - 1]
      left == AppendJump(Reshuffle(Ensure(body, Len(layout) <= ReachableSlots + 1), layout), t.h - rets)
  IN  CheckStackHeight([AppendLabel(left, t.next) EXCEPT !.adjust = t.adjust], t.analysed)

CodeOfSwitch(t, s) ==
  LET v == NewLabels(VisitExpression(t, s.e), 1)
      end == v.next - 1
      label(k) == v.next + k - 1
      compare(u, k) ==
        IF s.ds[k] = None THEN CodeOfBlock(u, s.bs[k])
        ELSE LET c == Ensure(CodeOfExpression(u, s.ds[k]), u.h = v.h)
             IN  AppendJumpToIf(AppendInstruction(AppendInstruction(c, "DUP2"), "EQ"), label(k))
      cases == SelectSeq([k \in 1..Len(s.ds) |-> k], LAMBDA k : s.ds[k] # None)
      body(u, j) == LET b == CodeOfBlock(AppendLabel(u, label(cases[j])), s.bs[cases[j]])
                    IN  IF j < Len(cases) THEN AppendJumpTo(b, end, 0) ELSE b
      tested == WalkDomain(LAMBDA u, k : [compare(u, k) EXCEPT !.analysed = v.analysed], NewLabels(v, Len(s.ds)), s.ds)
      bodies == WalkDomain(body, AppendJumpTo(tested, end, 0), cases)
  IN  CheckStackHeight(AppendInstruction(AppendLabel(bodies, end), "POP"), t.analysed)

\* finalizeBlock
FinalizeBlock(t, b, start) ==
  LET vars == Cardinality(ScopeOfBlock(b).vars)
      popped == Walk(LAMBDA u, k : AppendInstruction(u, "POP"), t, [k \in 1..vars |-> k])
  IN  CheckStackHeight(Ensure(popped, popped.h = start.h), t.analysed - vars)

CodeOfLoop(t, s) ==
  LET pre == CodeOfStatements(t, s.bs[1])
      loop == AppendLabel(NewLabels(pre, 3), pre.next)
      tested == AppendJumpToIf(AppendInstruction(VisitExpression(loop, s.e), "ISZERO"), pre.next + 1)
      body == CodeOfBlock([tested EXCEPT !.analysed = @ - 1], s.bs[3])
      post == CodeOfBlock(AppendLabel(body, pre.next + 2), s.bs[2])
  IN  FinalizeBlock(AppendLabel(AppendJumpTo(post, pre.next, 0), pre.next + 1), s.bs[1], t)

CodeOfStatement(t, s) ==
  CASE s.k = "expr" -> LET v == CodeOfExpression(t, s.e) IN CheckStackHeight(v, v.analysed)
    [] s.k = "let" ->
         LET v == IF HasValue(s) THEN ExpectDeposit(CodeOfExpression(t, s.e), Len(s.xs), t.h)
                  ELSE Walk(LAMBDA u, x : AppendConstant(u, 0), t, s.xs)
         IN  CheckStackHeight([v EXCEPT !.vars = [x \in Names(s) |-> t.h + IndexOf(s.xs, x) - 1] @@ @],
                              t.analysed + Len(s.xs))
    [] s.k = "assign" ->
         LET v == ExpectDeposit(CodeOfExpression(t, s.e), Len(s.xs), t.h)
         IN  CheckStackHeight(WalkBack(LAMBDA x, u : GenerateAssignment(u, x), s.xs, v), v.analysed - Len(s.xs))
    [] s.k = "if" ->
         LET v == NewLabels(AppendInstruction(VisitExpression(t, s.e), "ISZERO"), 1)
             body == CodeOfBlock([AppendJumpToIf(v, v.next - 1) EXCEPT !.analysed = @ - 1], s.bs[1])
         IN  CheckStackHeight(AppendLabel(body, v.next - 1), body.analysed)
    [] s.k = "switch" -> CodeOfSwitch(t, s)
    [] s.k = "fun" -> CodeOfFunction(t, s)
    [] s.k = "for" -> CodeOfLoop(t, s)
    [] s.k = "block" -> CodeOfBlock(t, s.bs[1])

\* An exception ends the translation.
CodeOfStatements(t, b) ==
  LET names == {FunName(s) : s \in Functions(b)}
      scope == [t EXCEPT !.entry = [f \in DOMAIN @ \ names |-> @[f]],
                         !.funs = [f \in names |-> CHOOSE s \in Functions(b) : FunName(s) = f] @@ @]
  IN  Walk(LAMBDA u, s : IF u.failed = "" THEN CodeOfStatement(u, s) ELSE u, scope, b)
CodeOfBlock(t, b) == FinalizeBlock(CodeOfStatements(t, b), b, t)

\* CodeGenerator::assemble
CodeTransform(b) ==
  CodeOfBlock([items |-> << >>, h |-> 0, adjust |-> 0, next |-> 1, vars |-> << >>, entry |-> << >>, funs |-> << >>,
               failed |-> "", analysed |-> 0], b)

\* What the items do, in the terms of Outcome
OutcomeOfItems(items, input, steps) ==
  LET o == BehaviourOn(items, 1, << >>, input, steps)
  IN  [status |-> CASE o.status = "end" -> "running" [] o.status = "STOP" -> "stop" [] o.status = "running" -> "fuel" [] OTHER -> o.status,
       stores |-> o.stores, left |-> o.stack]

=============================================================================
