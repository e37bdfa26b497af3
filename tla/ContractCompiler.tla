-------------------------- MODULE ContractCompiler --------------------------
(***************************************************************************)
(* The code generated for statements, functions and contracts (libsolidity *)
(* /codegen/ContractCompiler.cpp).                                         *)
(*                                                                         *)
(* CompileStatement(s, c, h) is a record: the code, and the context and    *)
(* the height of the stack after it (a declaration adds variables).  To    *)
(* that of expressions the context adds function, the definition compiled; *)
(* depth, m_modifierDepth; and the heights break, continue and return of   *)
(* the stack at the innermost tags.  Jumps to a tag that is placed later   *)
(* are symbolic (Goto, GotoIf, Mark) until Bind resolves them.             *)
(***************************************************************************)
EXTENDS ExpressionCompiler

-----------------------------------------------------------------------------
(* Tags *)

Goto(tag) == Item("Goto", tag)
GotoIf(tag) == Item("GotoIf", tag)
Mark(tag) == Item("Mark", tag)

Bind(items, tags) ==
  LET marked == {k \in 1..Len(items) : items[k].type = "Mark"}
      at(tag) == CHOOSE k \in marked : items[k].data = tag
      bound(k) ==
        IF items[k].type \notin {"Goto", "GotoIf", "Mark"} \/ items[k].data \notin tags THEN items[k]
        ELSE CASE items[k].type = "Goto" -> JumpBy(at(items[k].data) - k - 1)
               [] items[k].type = "GotoIf" -> JumpIf(at(items[k].data) - k - 1)
               [] items[k].type = "Mark" -> Label
  IN  Settled([k \in 1..Len(items) |-> bound(k)])

\* CompilerUtils::popAndJump and moveToStackVariable
PopAndJump(to, h, tag) == Expect(h >= to) \o PopStackSlots(h - to) \o <<Goto(tag)>>
MoveToStackVariable(v, c, h) == Times(SizeOnStack(v.type), Swap(h - c.locals[v.id] - SizeOnStack(v.type)) \o Do(<<"POP">>))

AddVariable(c, v, base) ==
  [c EXCEPT !.locals = [x \in DOMAIN @ \cup {v.id} |-> IF x = v.id THEN base ELSE @[x]]]

-----------------------------------------------------------------------------
(* Statements *)

RECURSIVE CompileStatement(_, _, _), AppendModifierOrFunctionCode(_, _)

After(code, c, h) == [code |-> code, c |-> c, h |-> h]
CompileExpression(e, to, c, h) == Compile(e, c, h) \o (IF to = Null THEN << >> ELSE Convert(e.type, to))
StatementCode(s, c, h) == IF s = Null THEN << >> ELSE CompileStatement(s, c, h).code

AppendStackVariableInitialisation(state, v) ==
  After(state.code \o PushZeroValue(v.type), AddVariable(state.c, v, state.h), state.h + SizeOnStack(v.type))

\* Variables declared in the block are freed at its end.
VisitBlock(s, c, h) ==
  LET step(state, t) == LET next == CompileStatement(t, state.c, state.h) IN After(state.code \o next.code, next.c, next.h)
      last == Walk(step, After(<< >>, c, h), s.statements)
  IN  last.code \o PopStackSlots(last.h - h)

VisitIf(s, c, h) ==
  LET true == StatementCode(s.true, c, h)
      false == StatementCode(s.false, c, h)
  IN  CompileExpression(s.condition, Null, c, h) \o Do(<<"ISZERO">>)
      \o IF s.false = Null THEN SkipIf(true) ELSE SkipIf(true \o <<JumpBy(Len(false))>>) \o false

VisitWhile(s, c, h) ==
  LET in == [c EXCEPT !.break = h, !.continue = h]
      body == StatementCode(s.body, in, h)
      condition == CompileExpression(s.condition, Null, c, h)
      code == IF s.doWhile
              THEN <<Mark("start")>> \o body \o <<Mark("continue")>> \o condition \o Do(<<"ISZERO", "ISZERO">>)
                   \o <<GotoIf("start"), Mark("break")>>
              ELSE <<Mark("continue")>> \o condition \o Do(<<"ISZERO">>) \o <<GotoIf("break")>> \o body
                   \o <<Goto("continue"), Mark("break")>>
  IN  Bind(code, {"start", "continue", "break"})

\* break and continue keep the variables of the initialisation.
VisitFor(s, c, h) ==
  LET init == IF s.init = Null THEN After(<< >>, c, h) ELSE CompileStatement(s.init, c, h)
      in == [init.c EXCEPT !.break = init.h, !.continue = init.h]
      code == <<Mark("start")>>
              \o (IF s.condition = Null THEN << >>
                  ELSE CompileExpression(s.condition, Null, in, init.h) \o Do(<<"ISZERO">>) \o <<GotoIf("break")>>)
              \o StatementCode(s.body, in, init.h) \o <<Mark("continue")>> \o StatementCode(s.loop, in, init.h)
              \o <<Goto("start"), Mark("break")>>
  IN  init.code \o Bind(code, {"start", "continue", "break"}) \o PopStackSlots(init.h - h)

VisitReturn(s, c, h) ==
  LET f == c.function
      n == Len(f.returns)
      to == IF s.expression.type.cat = "Tuple" \/ n # 1 THEN Tuple(f.returns) ELSE f.returns[1]
      variable(k) == [id |-> f.returnNames[k], type |-> f.returns[k]]
      move(k) == MoveToStackVariable(variable(k), c, h + SizesOnStack(SubSeq(f.returns, 1, k)))
  IN  (IF s.expression = Null THEN << >>
       ELSE CompileExpression(s.expression, to, c, h) \o Concat([k \in 1..n |-> move(n + 1 - k)]))
      \o PopAndJump(c.return, h, "return")

\* The slots are reserved first; the last value is converted and moved first.
VisitVariableDeclaration(s, c, h) ==
  LET declared == SelectSeq(s.declarations, LAMBDA v : v # Null)
      new == Walk(AppendStackVariableInitialisation, After(<< >>, c, h), declared)
      values == IF s.value.type.cat = "Tuple" THEN s.value.type.components ELSE <<s.value.type>>
      n == Len(s.declarations)
      below(k) == new.h + SizesOnStack(SubSeq(values, 1, k - 1))
      take(k) ==
        LET v == s.declarations[k]
        IN  IF v = Null THEN PopStackSlots(SizeOnStack(values[k]))
            ELSE Convert(values[k], v.type) \o MoveToStackVariable(v, new.c, below(k) + SizeOnStack(v.type))
  IN  [new EXCEPT !.code = @ \o (IF s.value = Null THEN << >>
                                 ELSE Compile(s.value, new.c, new.h) \o Expect(Len(values) = n)
                                      \o Concat([k \in 1..n |-> take(n + 1 - k)]))]

VisitExpressionStatement(s, c, h) ==
  CompileExpression(s.expression, Null, c, h) \o PopStackSlots(SizeOnStack(s.expression.type))

\* Inline assembly, as a sequence of instructions, constants (push) and uses of Solidity
\* identifiers: read or write, with the suffix _slot or _offset, or none.
AssemblyRead(x, c, h) ==
  LET d == x.decl
      diff == h - c.locals[d.id]
  IN  CASE d.kind = "function" ->
             Expect(x.suffix = "") \o <<Entry(FunctionEntry(ResolveVirtualFunction(d.id, c)))>>
             \o (IF c.creation
                 THEN Val(2^TagBits) \o Do(<<"MUL">>) \o <<Entry(RuntimeEntry(ResolveVirtualFunction(d.id, c)))>> \o Do(<<"OR">>)
                 ELSE << >>)
        [] d.kind = "variable" ->
             LET at == StorageLocationOfVariable(d.id, c)
             IN  (CASE x.suffix = "slot" -> Val(at[1]) [] x.suffix = "offset" -> Val(at[2]) [] OTHER -> Fail("suffix"))
        [] d.kind = "local" /\ x.suffix = "" -> Expect(SizeOnStack(x.type) = 1) \o Dup(diff)
        [] d.kind = "local" /\ x.suffix = "slot" -> Expect(DataStoredIn(x.type, "Storage")) \o Dup(diff)
        [] d.kind = "local" /\ x.suffix = "offset" -> Expect(DataStoredIn(x.type, "Storage")) \o Val(0)
        [] d.kind = "contract" -> Expect(x.suffix = "" /\ IsLibrary(d.id)) \o AppendLibraryAddress(d.id)
AssemblyWrite(x, c, h) ==
  Expect(x.suffix = "" /\ x.decl.kind = "local" /\ SizeOnStack(x.type) = 1) \o Swap(h - c.locals[x.decl.id] - 1) \o Do(<<"POP">>)

VisitInlineAssembly(s, c, h) ==
  LET deposit(op) == InstructionInfo[op].ret - InstructionInfo[op].args
      step(state, x) ==
        CASE x.use = "instruction" -> After(state.code \o Do(<<x.op>>), c, state.h + deposit(x.op))
          [] x.use = "push" -> After(state.code \o Val(x.value), c, state.h + 1)
          [] x.use = "read" -> After(state.code \o AssemblyRead(x, c, state.h), c, state.h + 1)
          [] x.use = "write" -> After(state.code \o AssemblyWrite(x, c, state.h), c, state.h - 1)
  IN  Walk(step, After(<< >>, c, h), s.operations).code

CompileStatement(s, c, h) ==
  CASE s.node = "Block" -> After(VisitBlock(s, c, h), c, h)
    [] s.node = "If" -> After(VisitIf(s, c, h), c, h)
    [] s.node = "While" -> After(VisitWhile(s, c, h), c, h)
    [] s.node = "For" -> After(VisitFor(s, c, h), c, h)
    [] s.node = "Continue" -> After(PopAndJump(c.continue, h, "continue"), c, h)
    [] s.node = "Break" -> After(PopAndJump(c.break, h, "break"), c, h)
    [] s.node = "Return" -> After(VisitReturn(s, c, h), c, h)
    [] s.node = "Throw" -> After(Fail("throw"), c, h)
    [] s.node = "Emit" -> After(CompileExpression(s.expression, Null, c, h), c, h)
    [] s.node = "VariableDeclaration" -> VisitVariableDeclaration(s, c, h)
    [] s.node = "Expression" -> After(VisitExpressionStatement(s, c, h), c, h)
    [] s.node = "Placeholder" -> After(AppendModifierOrFunctionCode([c EXCEPT !.depth = @ + 1], h), c, h)
    [] s.node = "InlineAssembly" -> After(VisitInlineAssembly(s, c, h), c, h)

-----------------------------------------------------------------------------
(* Functions *)

\* CompilerContext::resolveVirtualFunctionModifier
ResolveVirtualFunctionModifier(d, c) ==
  LET bases == Contracts[c.contract].bases
      of(b) == [k \in 1..Len(Contracts[b].modifiers) |-> <<b, "m", k>>]
      named(m) == Contracts[m[1]].modifiers[m[3]].name
      all == Concat([b \in 1..Len(bases) |-> of(bases[b])])
  IN  DefinitionOf(IF IsLibrary(d[1]) THEN d ELSE SelectSeq(all, LAMBDA m : named(m) = named(d))[1])

\* The code of the modifier at the depth, or of the function itself; "_" in the body of
\* a modifier stands for the code one level down.
AppendModifierOrFunctionCode(c, h) ==
  LET invoked == c.function.modifiers
      block(body, in, at) == Bind(StatementCode(body, [in EXCEPT !.return = at], at) \o <<Mark("return")>>, {"return"})
  IN  IF c.depth > Len(invoked) THEN Expect(c.function.implemented) \o block(c.function.body, c, h)
      ELSE IF invoked[c.depth].kind = "base" THEN AppendModifierOrFunctionCode([c EXCEPT !.depth = @ + 1], h)
      ELSE LET m == ResolveVirtualFunctionModifier(invoked[c.depth].id, c)
               step(state, k) ==
                 LET in == AddVariable(state.c, m.params[k], state.h)
                 IN  After(state.code \o CompileExpression(invoked[c.depth].args[k], m.params[k].type, in, state.h),
                           in, state.h + SizeOnStack(m.params[k].type))
               args == Walk(step, After(<< >>, c, h), [k \in 1..Len(m.params) |-> k])
           IN  Expect(Len(m.params) = Len(invoked[c.depth].args))
               \o args.code \o block(m.body, args.c, args.h) \o PopStackSlots(args.h - h)

\* The end of a function: layout[k + 1] is the slot where slot k belongs, -1 if nowhere.
RECURSIVE Reshuffle(_)
Reshuffle(layout) ==
  LET n == Len(layout)
      last == layout[n]
  IN  IF last = n - 1 THEN Expect(\A k \in 1..n : layout[k] = k - 1)
      ELSE IF last < 0 THEN Do(<<"POP">>) \o Reshuffle(SubSeq(layout, 1, n - 1))
      ELSE Swap(n - last - 1) \o Reshuffle([layout EXCEPT ![last + 1] = last, ![n] = layout[last + 1]])

\* nextConstructor: that of the next base after the contract that has one
NextConstructor(b, c) ==
  LET bases == Contracts[c.contract].bases
  IN  SelectSeq(SubSeq(bases, IndexOf(bases, b) + 1, Len(bases)), LAMBDA x : ConstructorOf(x) # {})

RECURSIVE VisitFunctionDefinition(_, _, _)
\* The arguments of a base constructor come from the most derived contract that gives them.
AppendBaseConstructor(b, c, h) ==
  LET f == TheConstructor(b)
      from == BaseConstructorArguments(c.contract)[b]
      args == IF from[2] = "inherits" THEN CheckInheritanceSpecifier(from[1], Contracts[from[1]].inherits[from[3]]).args
              ELSE DefinitionOf(<<from[1], "f", CHOOSE k \in ConstructorOf(from[1]) : TRUE>>).modifiers[from[3]].args
  IN  (IF f.params = << >> THEN << >>
       ELSE Expect(Len(args) = Len(f.params))
            \o Concat([k \in 1..Len(args) |-> CompileExpression(args[k], f.params[k], c, h + SizesOnStack(SubSeq(f.params, 1, k - 1)))]))
      \o VisitFunctionDefinition(<<b, "f", CHOOSE k \in ConstructorOf(b) : TRUE>>, c, h + SizesOnStack(f.params))

\* return address (none for a constructor), arguments -> returned values; h: the height
\* at the end of the arguments
VisitFunctionDefinition(d, c, h) ==
  LET f == DefinitionOf(d)
      n == SizesOnStack(f.params)
      m == SizesOnStack(f.returns)
      addParam(in, k) == AddVariable(in, [id |-> f.paramNames[k]], h - n + SizesOnStack(SubSeq(f.params, 1, k - 1)))
      c1 == Walk(addParam, c, [k \in 1..Len(f.params) |-> k])
      init == Walk(AppendStackVariableInitialisation, After(<< >>, c1, h),
                   [k \in 1..Len(f.returns) |-> [id |-> f.returnNames[k], type |-> f.returns[k]]])
      base == IF f.constructor THEN NextConstructor(d[1], c) ELSE << >>
      layout == <<m>> \o [k \in 1..n |-> -1] \o [k \in 1..m |-> k - 1]
  IN  init.code
      \o (IF base = << >> THEN << >> ELSE AppendBaseConstructor(base[1], init.c, init.h))
      \o AppendModifierOrFunctionCode([init.c EXCEPT !.function = f, !.depth = 1], init.h)
      \o (IF Len(layout) > 17 THEN Fail("stack too deep") ELSE Reshuffle(layout))
      \o (IF f.constructor \/ f.fallback THEN << >> ELSE Do(<<"JUMP">>))

VisitStateVariable(d, c) ==
  IF Raw(d).constant THEN AppendConstStateVariableAccessor(d, c) ELSE AppendStateVariableAccessor(d, c)

\* A function or a getter, from its entry label on
FunctionCode(d, c) ==
  <<Label>> \o (IF d[2] = "v" THEN VisitStateVariable(d, c)
                ELSE VisitFunctionDefinition(d, c, 1 + SizesOnStack(Raw(d).params)))

-----------------------------------------------------------------------------
(* Contracts *)

InitialContext(name, creation) ==
  [contract |-> name, creation |-> creation, locals |-> << >>, function |-> Null, depth |-> 0, break |-> 0, continue |-> 0, return |-> 0]

AppendCallValueCheck == Do(<<"CALLVALUE">>) \o AppendConditionalRevert(FALSE)

AppendReturnValuePacker(types, library) ==
  IF types = << >> THEN Do(<<"STOP">>)
  ELSE FetchFreeMemoryPointer \o AbiEncode(types, types, library) \o ToSizeAfterFreeMemoryPointer \o Do(<<"RETURN">>)

AppendDelegatecallCheck == <<Item("PushDeployTimeAddress", 0)>> \o Do(<<"ADDRESS", "EQ">>)

\* ContractDefinition::interfaceFunctions: ordered by selector
InterfaceFunctions(name) == SortSeq(InterfaceFunctionList(name), LAMBDA a, b : ExternalIdentifier(a.type) < ExternalIdentifier(b.type))

AppendFallback(name, c) ==
  LET fallback == FallbackFunction(name)
  IN  IF fallback = << >> THEN AppendRevert
      ELSE (IF Raw(fallback[1]).mutability = "Payable" THEN << >> ELSE AppendCallValueCheck)
           \o VisitFunctionDefinition(fallback[1], c, 1) \o Do(<<"STOP">>)

\* What is called through the selector: values are decoded, the function entered and what
\* it returns encoded.
UnpackAndCall(f, library) ==
  LET enter == (IF f.params = << >> THEN << >>
                ELSE Val(SelectorBytes) \o Do(<<"DUP1", "CALLDATASIZE", "SUB">>) \o AbiDecode(f.params, FALSE))
               \o <<Entry(FunctionEntry(f.decl))>> \o Do(<<"JUMP">>)
  IN  (IF library /\ Rank(f.mutability) > Rank("View") THEN Do(<<"DUP2">>) \o AppendConditionalRevert(FALSE) ELSE << >>)
      \o (IF f.mutability # "Payable" /\ ~ library THEN AppendCallValueCheck ELSE << >>)
      \o <<Here(Len(enter) + 1)>> \o enter \o <<Label>> \o AppendReturnValuePacker(f.returns, library)

AppendFunctionSelector(name, c) ==
  LET functions == InterfaceFunctions(name)
      n == Len(functions)
      tags == [k \in 1..n |-> <<"function", k>>]
      test(k) == Do(<<"DUP1">>) \o Val(ExternalIdentifier(functions[k].type)) \o Do(<<"EQ">>) \o <<GotoIf(tags[k])>>
  IN  Bind(Val(SelectorBytes) \o Do(<<"CALLDATASIZE", "LT">>) \o <<GotoIf(<<"notFound", 0>>)>>
           \o (IF n = 0 THEN << >> ELSE Val(0) \o LoadFromMemoryHelper(Integer(SelectorBits, FALSE), TRUE, FALSE))
           \o Concat([k \in 1..n |-> test(k)])
           \o <<Goto(<<"notFound", 0>>), Mark(<<"notFound", 0>>)>> \o AppendFallback(name, c)
           \o Concat([k \in 1..n |-> <<Mark(tags[k])>> \o UnpackAndCall(functions[k].type, IsLibrary(name))]),
           Range(tags) \cup {<<"notFound", 0>>})

\* appendMissingFunctions: functions, getters and low-level functions
CodeOf(f, c) ==
  CASE f.name = "function" -> FunctionCode(f.type, c)
    [] f.name = "runtime function" -> << >>
    [] f.name = "copyContractCreationCodeToMemory" -> LowLevelFunction(CopyCreationCodeBody(f.type.name), 1)
    [] OTHER -> LowLevelCode(f)
AppendMissingFunctions(items, c) == Link(LAMBDA f : CodeOf(f, c), items, << >>)

CompileContract(name) ==
  LET c == InitialContext(name, FALSE)
  IN  AppendMissingFunctions((IF IsLibrary(name) THEN AppendDelegatecallCheck ELSE << >>)
                             \o InitialiseFreeMemoryPointer \o AppendFunctionSelector(name, c), c)

-----------------------------------------------------------------------------
(* Creation *)

InitializeStateVariables(b, c) ==
  LET with == SelectSeq([k \in 1..Len(Contracts[b].variables) |-> <<b, "v", k>>],
                        LAMBDA d : Raw(d).value # Null /\ ~ Raw(d).constant)
  IN  Concat([k \in 1..Len(with) |-> AppendStateVariableInitialization(with[k], c, 0)])

ProgramSize == <<Item("PushProgramSize", 0)>>

\* Constructor arguments follow the code.
AppendConstructor(name, c) ==
  LET d == <<name, "f", CHOOSE k \in ConstructorOf(name) : TRUE>>
      f == DefinitionOf(d)
      dynamic == \E t \in Range(f.params) : IsDynamicallySized(t)
      sum[k \in 0..Len(f.params)] == IF k = 0 THEN 0 ELSE sum[k - 1] + CalldataEncodedSize(f.params[k], TRUE)
      size == IF dynamic THEN 0 ELSE sum[Len(f.params)]
  IN  (IF f.mutability = "Payable" THEN << >> ELSE AppendCallValueCheck)
      \o (IF f.params = << >> THEN << >>
          ELSE FetchFreeMemoryPointer \o (IF size = 0 THEN ProgramSize \o Do(<<"CODESIZE", "SUB">>) ELSE Val(size))
               \o Do(<<"DUP1">>) \o ProgramSize \o Do(<<"DUP4", "CODECOPY", "DUP2", "ADD", "DUP1">>) \o StoreFreeMemoryPointer
               \o AbiDecode(f.params, TRUE))
      \o VisitFunctionDefinition(d, c, SizesOnStack(f.params))

\* Variables are initialised from the most basic contract on, before any constructor runs.
AppendInitAndConstructorCode(name, c) ==
  LET bases == Contracts[name].bases
      next == NextConstructor(name, c)
  IN  Expect(~ IsLibrary(name))
      \o Concat([k \in 1..Len(bases) |-> InitializeStateVariables(bases[Len(bases) + 1 - k], c)])
      \o (IF ConstructorOf(name) # {} THEN AppendConstructor(name, c)
          ELSE IF next # << >> THEN AppendBaseConstructor(next[1], c, 0) ELSE AppendCallValueCheck)

DeployRoutine(name) ==
  <<Item("PushSubSize", name)>> \o Do(<<"DUP1">>) \o <<Item("PushSub", name)>> \o Val(0) \o Do(<<"CODECOPY">>) \o Val(0) \o Do(<<"RETURN">>)

\* The library's address is written over the operand of its first instruction.
DeployLibrary(name) ==
  LET codepos == WordBytes - AddressBytes - 1
  IN  <<Item("PushSubSize", name), Item("PushSub", name)>>
      \o Val(codepos) \o Do(<<"DUP3", "DUP3", "DUP3", "CODECOPY">>)
      \o Do(<<"DUP1", "MLOAD">>) \o Val(0) \o Do(<<"BYTE">>) \o Val(Unsigned(115)) \o Do(<<"EQ">>) \o SkipIf(Do(<<"INVALID">>))
      \o Do(<<"ADDRESS">>) \o Val(0) \o Do(<<"MSTORE">>) \o Val(Unsigned(115)) \o Do(<<"DUP2", "MSTORE8", "DUP3", "DUP2", "RETURN">>)

CompileConstructor(name) ==
  LET c == InitialContext(name, TRUE)
  IN  IF IsLibrary(name) THEN [code |-> DeployLibrary(name), entries |-> << >>]
      ELSE AppendMissingFunctions(InitialiseFreeMemoryPointer \o AppendInitAndConstructorCode(name, c) \o DeployRoutine(name), c)

=============================================================================
