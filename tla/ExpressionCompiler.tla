------------------------- MODULE ExpressionCompiler -------------------------
(***************************************************************************)
(* The code generated for expressions (libsolidity/codegen/                *)
(* ExpressionCompiler.cpp).                                                *)
(*                                                                         *)
(* An expression is a record: node is its class, type and the other fields *)
(* of the annotation are those the type checker fills in; requested is     *)
(* lValueRequested.  A declaration an identifier or member refers to is a  *)
(* record with a field kind.                                               *)
(*                                                                         *)
(* Compile(e, c, h) is the code appended for e when the stack has h slots: *)
(* it leaves the value of e, or the reference of LValueOf(e, c) if that is *)
(* requested.  The context c is the record                                 *)
(*   [contract |-> the contract compiled, scope |-> the one whose code     *)
(*    this is, creation |-> is there a runtime context, locals |-> the     *)
(*    height of every local variable].                                     *)
(* Where the code shifts labels by 32 bits, they are shifted by TagBits.   *)
(***************************************************************************)
EXTENDS CompilerUtils, TypeChecker

CONSTANTS Optimize,             \* m_optimize
          GasForOutside,        \* EVMVersion::canOverchargeGasForCall
          CallGas,              \* eth::GasCosts::callGas of the version
          Stipend               \* eth::GasCosts::callStipend

RECURSIVE Compile(_, _, _), LValueOf(_, _)

Convert(t, to) == ConvertType(t, to, FALSE, FALSE, FALSE)
ConvertIf(t, to, cleanup) == ConvertType(t, to, cleanup, FALSE, FALSE)
IsShift(op) == op \in ShiftOps
MaxOf(a, b) == IF a > b THEN a ELSE b

\* Expressions one after the other, each converted to its target
CompileAll(expressions, targets, c, h) ==
  Concat([k \in 1..Len(expressions) |->
            Compile(expressions[k], c, h + SizesOnStack(SubSeq(targets, 1, k - 1))) \o Convert(expressions[k].type, targets[k])])

-----------------------------------------------------------------------------
(* Functions of the contract.  A definition is <<contract, "f" or "v", k>>. *)


\* CompilerContext::resolveVirtualFunction: the first in the linearised bases from a
\* contract on with the same name and parameters (FunctionType::operator==)
ResolveVirtualFunctionFrom(d, bases) ==
  LET all == Concat([b \in 1..Len(bases) |-> [k \in 1..Len(Contracts[bases[b]].functions) |-> <<bases[b], "f", k>>]])
      matches == SelectSeq(all, LAMBDA x : /\ Raw(x).name = Raw(d).name
                                           /\ ~ Raw(x).constructor
                                           /\ SameTypes(Raw(x).params, Raw(d).params))
  IN  matches[1]
ResolveVirtualFunction(d, c) == IF IsLibrary(d[1]) THEN d ELSE ResolveVirtualFunctionFrom(d, Contracts[c.contract].bases)
\* Mutant: the contract itself is searched too.
SuperIncludesItself(d, base, c) == ResolveVirtualFunctionFrom(d, Contracts[c.contract].bases)

\* superFunction: the bases after the given one
SuperFunction(d, base, c) ==
  LET bases == Contracts[c.contract].bases
  IN  ResolveVirtualFunctionFrom(d, SubSeq(bases, IndexOf(bases, base) + 1, Len(bases)))

FunctionEntry(d) == LowLevel("function", d, Null)
RuntimeEntry(d) == LowLevel("runtime function", d, Null)
PushCombinedFunctionEntryLabel(d, c, runtimeOnly) ==
  <<Entry(FunctionEntry(d))>>
  \o (IF c.creation THEN LeftShiftNumberOnStack(TagBits) \o (IF runtimeOnly THEN <<Entry(RuntimeEntry(d))>> \o Do(<<"OR">>) ELSE << >>)
      ELSE << >>)
LabelMask == Val(2^TagBits - 1) \o Do(<<"AND">>)

-----------------------------------------------------------------------------
(* Operators *)

\* Mutant: comparisons do not clean their operands.
NoCleanupToCompare(cat, op) == IsShift(op) \/ (cat = "Integer" /\ op \in {"Div", "Mod", "Exp"})

CleanupNeededForOp(cat, op) ==
  op \in CompareOps \/ IsShift(op) \/ (cat = "Integer" /\ op \in {"Div", "Mod", "Exp"})

AppendCompareOperatorCode(op, t) ==
  LET signed == t.cat = "Integer" /\ t.signed
      less == IF signed THEN "SLT" ELSE "LT"
      greater == IF signed THEN "SGT" ELSE "GT"
  IN  Expect(SizeOnStack(t) = 1)
      \o CASE op \in {"Equal", "NotEqual"} ->
                (IF t.cat = "Function" /\ t.kind = "Internal" THEN LabelMask \o Do(<<"SWAP1">>) \o LabelMask ELSE << >>)
                \o Do(<<"EQ">>) \o (IF op = "NotEqual" THEN Do(<<"ISZERO">>) ELSE << >>)
           [] op = "GreaterThanOrEqual" -> Do(<<less, "ISZERO">>)
           [] op = "LessThanOrEqual" -> Do(<<greater, "ISZERO">>)
           [] op = "GreaterThan" -> Do(<<greater>>)
           [] op = "LessThan" -> Do(<<less>>)

\* Mutant: the divisor is not checked.
ArithmeticWithoutZeroCheck(op, t) ==
  Do(CASE op = "Add" -> <<"ADD">> [] op = "Sub" -> <<"SUB">> [] op = "Mul" -> <<"MUL">> [] op = "Exp" -> <<"EXP">>
       [] op = "Div" -> IF t.signed THEN <<"SDIV">> ELSE <<"DIV">> [] op = "Mod" -> IF t.signed THEN <<"SMOD">> ELSE <<"MOD">>)

AppendArithmeticOperatorCode(op, t) ==
  IF t.cat # "Integer" THEN Fail("unimplemented")
  ELSE CASE op = "Add" -> Do(<<"ADD">>)
         [] op = "Sub" -> Do(<<"SUB">>)
         [] op = "Mul" -> Do(<<"MUL">>)
         [] op \in {"Div", "Mod"} ->
              Do(<<"DUP2", "ISZERO">>) \o AppendConditionalInvalid
              \o Do(IF op = "Div" THEN IF t.signed THEN <<"SDIV">> ELSE <<"DIV">> ELSE IF t.signed THEN <<"SMOD">> ELSE <<"MOD">>)
         [] op = "Exp" -> Do(<<"EXP">>)

AppendBitOperatorCode(op) ==
  Do(CASE op = "BitOr" -> <<"OR">> [] op = "BitAnd" -> <<"AND">> [] op = "BitXor" -> <<"XOR">>)

ArithmeticOps == {"Add", "Sub", "Mul", "Div", "Mod", "Exp"}
AppendOrdinaryBinaryOperatorCode(op, t) ==
  IF op \in ArithmeticOps THEN AppendArithmeticOperatorCode(op, t) ELSE AppendBitOperatorCode(op)

\* amount value -> result; without SHL and SAR, by powers of two, and a negative value
\* is complemented before and after
AppendShiftOperatorCode(op, t, amount) ==
  LET signed == t.cat = "Integer" /\ t.signed
      amountSigned == amount.cat = "Integer" /\ amount.signed
  IN  Expect(t.cat \in {"Integer", "FixedBytes"})
      \o Expect(amount.cat = "Integer" \/ (amount.cat = "RationalNumber" /\ IntegerTypeOf(amount) # Null /\ ~ IntegerTypeOf(amount).signed))
      \o (IF amountSigned THEN Val(0) \o Do(<<"DUP3", "SLT">>) \o AppendConditionalInvalid ELSE << >>)
      \o Do(<<"SWAP1">>)
      \o CASE op = "SHL" -> IF BitwiseShifting THEN Do(<<"SHL">>) ELSE Val(2) \o Do(<<"EXP", "MUL">>)
           [] op = "SAR" /\ BitwiseShifting -> Do(IF signed THEN <<"SAR">> ELSE <<"SHR">>)
           [] op = "SAR" /\ ~ BitwiseShifting /\ signed ->
                Val(0) \o Do(<<"DUP3", "SLT">>) \o Val(0) \o Do(<<"SUB", "DUP1", "DUP3">>) \o Val(2)
                \o Do(<<"EXP", "DUP3", "DUP6", "XOR", "DIV", "XOR", "SWAP3", "POP", "POP", "POP">>)
           [] op = "SAR" /\ ~ BitwiseShifting /\ ~ signed ->
                Do(<<"DUP1">>) \o Val(2) \o Do(<<"EXP", "DUP3", "DIV", "SWAP2", "POP", "POP">>)
           [] OTHER -> Fail("unknown shift")

AppendAndOrOperatorCode(e, c, h) ==
  Compile(e.left, c, h) \o Do(IF e.op = "And" THEN <<"DUP1", "ISZERO">> ELSE <<"DUP1">>)
  \o SkipIf(Do(<<"POP">>) \o Compile(e.right, c, h))

-----------------------------------------------------------------------------
(* The visitors of the expressions without calls and members *)

VisitConditional(e, c, h) ==
  LET false == Compile(e.false, c, h) \o Convert(e.false.type, e.type)
      true == Compile(e.true, c, h) \o Convert(e.true.type, e.type)
  IN  Compile(e.condition, c, h) \o <<JumpIf(Len(false) + 1)>> \o false \o <<JumpBy(Len(true))>> \o true

\* The right side is evaluated first; a compound assignment works on copies of the value
\* and of the reference.
VisitAssignment(e, c, h) ==
  LET binary == IF e.op = "Assign" THEN "Assign" ELSE e.op
      left == e.left.type
      cleanup == e.op # "Assign" /\ CleanupNeededForOp(left.cat, binary)
      mid == IF e.op # "Assign" /\ IsShift(binary) THEN MobileType(e.right.type) ELSE ClosestTemporaryType(e.right.type, left)
      lv == LValueOf(e.left, c)
      ref == LValueSize(lv)
      item == SizeOnStack(e.type)
      hr == h + SizeOnStack(mid)
      hl == hr + ref
  IN  Expect(IF left.cat = "Tuple" THEN e.type = NoValue /\ e.op = "Assign" ELSE SameType(e.type, left))
      \o Compile(e.right, c, h) \o ConvertIf(e.right.type, mid, cleanup)
      \o Compile(e.left, c, hr)
      \o (IF e.op = "Assign" THEN StoreValue(lv, mid, hl, FALSE)
          ELSE Expect(IsValueType(left))
               \o (IF ref > 0 THEN CopyToStackTop(ref + item, item) \o CopyToStackTop(item + ref, ref) ELSE << >>)
               \o RetrieveValue(lv, IF ref > 0 THEN hl + item + ref ELSE hl, TRUE)
               \o ConvertIf(left, left, cleanup)
               \o (IF IsShift(binary) THEN AppendShiftOperatorCode(binary, left, mid)
                   ELSE Expect(SameType(left, mid)) \o AppendOrdinaryBinaryOperatorCode(binary, left))
               \o (IF ref > 0 THEN Times(item, Swap(item + ref) \o Do(<<"POP">>)) ELSE << >>)
               \o StoreValue(lv, e.type, hl, FALSE))

\* Components in order; a missing one is Null.
VisitTuple(e, c, h) ==
  LET n == Len(e.components)
      size(x) == IF x = Null THEN 0 ELSE IF e.requested THEN LValueSize(LValueOf(x, c)) ELSE SizeOnStack(x.type)
      before[k \in 0..n] == IF k = 0 THEN h ELSE before[k - 1] + size(e.components[k])
  IN  IF e.inlineArray
      THEN Expect(~ IsDynamicallySized(e.type)) \o Val(MaxOf(WordBytes, MemorySize(e.type))) \o AllocateMemory \o Do(<<"DUP1">>)
           \o Concat([k \in 1..n |-> Compile(e.components[k], c, h + 2) \o ConvertIf(e.components[k].type, e.type.base, TRUE)
                                     \o StoreInMemoryDynamic(e.type.base, TRUE)])
           \o Do(<<"POP">>)
      ELSE Concat([k \in 1..n |-> IF e.components[k] = Null THEN << >> ELSE Compile(e.components[k], c, before[k - 1])])

\* ++ and --: a postfix operator keeps a copy of the old value below the reference.
VisitIncrement(e, c, h) ==
  LET lv == LValueOf(e.sub, c)
      ref == LValueSize(lv)
      down(from) == Concat([k \in 1..from |-> Swap(from + 1 - k)])
  IN  (IF e.type.cat = "FixedPoint" THEN Fail("unimplemented") ELSE << >>)
      \o RetrieveValue(lv, h + ref, FALSE)
      \o (IF e.prefix THEN << >>
          ELSE Expect(SizeOnStack(e.type) = 1) \o Do(<<"DUP1">>) \o (IF ref > 0 THEN down(1 + ref) ELSE << >>))
      \o Val(1) \o Do(IF e.op = "Inc" THEN <<"ADD">> ELSE <<"SWAP1", "SUB">>)
      \o down(ref)
      \o StoreValue(lv, e.type, h + ref + (IF e.prefix THEN 1 ELSE 2), ~ e.prefix)

VisitUnaryOperation(e, c, h) ==
  IF e.type.cat = "RationalNumber" THEN Val(LiteralValue(e.type))
  ELSE Compile(e.sub, c, h)
       \o CASE e.op = "Not" -> Do(<<"ISZERO">>)
            [] e.op = "BitNot" -> Do(<<"NOT">>)
            [] e.op = "Delete" -> LET lv == LValueOf(e.sub, c) IN SetToZero(lv, h + LValueSize(lv), TRUE)
            [] e.op \in {"Inc", "Dec"} -> VisitIncrement(e, c, h)
            [] e.op = "Add" -> << >>
            [] e.op = "Sub" -> Val(0) \o Do(<<"SUB">>)

VisitBinaryOperation(e, c, h) ==
  LET cleanup == CleanupNeededForOp(e.common.cat, e.op)
      target == IF IsShift(e.op) THEN MobileType(e.right.type) ELSE e.common
      isLiteral(x) == x.node = "Literal" \/ x.type.cat = "RationalNumber"
      swap == /\ Optimize /\ e.op \in {"BitOr", "BitXor", "BitAnd", "Add", "Mul", "Equal", "NotEqual"}
              /\ isLiteral(e.right) /\ ~ isLiteral(e.left)
      left(at) == Compile(e.left, c, at) \o ConvertIf(e.left.type, e.common, cleanup)
      right(at) == Compile(e.right, c, at) \o ConvertIf(e.right.type, target, cleanup)
  IN  IF e.op \in {"And", "Or"} THEN AppendAndOrOperatorCode(e, c, h)
      ELSE IF e.common.cat = "RationalNumber" THEN Val(LiteralValue(e.common))
      ELSE (IF swap THEN left(h) \o right(h + SizeOnStack(e.common)) ELSE right(h) \o left(h + SizeOnStack(target)))
           \o CASE IsShift(e.op) -> AppendShiftOperatorCode(e.op, e.common, target)
                [] e.op \in CompareOps -> AppendCompareOperatorCode(e.op, e.common)
                [] OTHER -> AppendOrdinaryBinaryOperatorCode(e.op, e.common)

VisitLiteral(e) ==
  CASE e.type.cat = "RationalNumber" -> Val(LiteralValue(e.type))
    [] e.type.cat \in {"Bool", "Address"} -> Val(e.value)
    [] e.type.cat = "StringLiteral" -> << >>
    [] OTHER -> Fail("unimplemented")

-----------------------------------------------------------------------------
(* Function calls.  f is the type of the called function, args are its     *)
(* arguments in the order of the parameters, and e is the call.            *)

Argument(e, to, c, h) == Compile(e, c, h) \o ConvertIf(e.type, to, TRUE)
TypesOf(expressions) == [k \in 1..Len(expressions) |-> expressions[k].type]
CompileArguments(args, c, h) ==
  Concat([k \in 1..Len(args) |-> Compile(args[k], c, h + SizesOnStack(SubSeq(TypesOf(args), 1, k - 1)))])
ErrorSelector == HashSelector(<<"Error", <<SignatureOf(ByteArray("Memory", TRUE), FALSE)>> >>)

InOrder(e, names) ==
  IF e.names = << >> THEN e.args
  ELSE [k \in 1..Len(names) |-> e.args[CHOOSE j \in 1..Len(e.names) : e.names[j] = names[k]]]

ConversionCall(e, c, h) == Compile(e.args[1], c, h) \o Convert(e.args[1].type, e.type)

StructConstructorCall(e, c, h) ==
  LET t == e.fun.type.actual
      params == StructConstructorType(t.name).params
      args == InOrder(e, [k \in 1..Len(params) |-> MemoryMembers(t)[k].name])
  IN  Val(MaxOf(WordBytes, MemorySize(t))) \o AllocateMemory \o Do(<<"DUP1">>)
      \o Concat([k \in 1..Len(args) |-> Compile(args[k], c, h + 2) \o Convert(args[k].type, params[k]) \o StoreInMemoryDynamic(params[k], TRUE)])
      \o Do(<<"POP">>)

\* The caller pushes the return label and the arguments; the callee replaces them by
\* the values it returns.
InternalCall(e, f, args, c, h) ==
  LET params == ParameterTypes(f)
      label == IF e.fun.node = "Identifier" /\ e.fun.decl.kind = "function"
               THEN Expect(~ f.bound) \o PushCombinedFunctionEntryLabel(ResolveVirtualFunction(e.fun.decl.id, c), c, FALSE)
               ELSE Compile(e.fun, c, h + 1 + SizesOnStack(params))
      jump == CompileAll(args, params, c, h + 1) \o label
              \o (IF f.bound THEN MoveIntoStack(SizesOnStack(params) + 1, SizeOnStack(f.params[1])) ELSE << >>)
              \o (IF c.creation THEN RightShiftNumberOnStack(TagBits) ELSE LabelMask) \o Do(<<"JUMP">>)
  IN  <<Here(Len(jump) + 1)>> \o jump \o <<Label>>

CopyCreationCode(name) == LowLevel("copyContractCreationCodeToMemory", Contract(name, FALSE), Null)
CopyCreationCodeBody(name) ==
  FetchFreeMemoryPointer \o <<Item("PushSubSize", name)>> \o Do(<<"DUP1">>) \o <<Item("PushSub", name)>> \o Do(<<"DUP4", "CODECOPY", "ADD">>)

CreationCall(e, f, args, c, h) ==
  Compile(e.fun, c, h) \o Expect(~ f.gasSet) \o CompileArguments(args, c, h + SizeOnStack(f))
  \o CallLowLevelFunction(CopyCreationCode(f.returns[1].name), 0)
  \o AbiEncode(TypesOf(args), f.params, FALSE) \o ToSizeAfterFreeMemoryPointer
  \o (IF f.valueSet THEN Do(<<"DUP3">>) ELSE Val(0)) \o Do(<<"CREATE", "DUP1", "ISZERO">>) \o AppendConditionalRevert(TRUE)
  \o (IF f.valueSet THEN Do(<<"SWAP1", "POP">>) ELSE << >>)

\* contract_address function_id [gas] [value]: f is the type of ".gas" or ".value", with
\* gasSet and valueSet of the function it belongs to.
SetGasCall(e, f, args, c, h) ==
  LET depth == (IF f.gasSet THEN 1 ELSE 0) + (IF f.valueSet THEN 1 ELSE 0)
  IN  Compile(e.fun, c, h) \o Argument(args[1], Uint, c, h + SizeOnStack(f))
      \o (IF depth > 0 THEN Swap(depth) ELSE << >>) \o (IF f.gasSet THEN Do(<<"POP">>) ELSE << >>)
SetValueCall(e, f, args, c, h) ==
  Compile(e.fun, c, h) \o (IF f.valueSet THEN Do(<<"POP">>) ELSE << >>)
  \o Compile(args[1], c, h + SizeOnStack(f) - (IF f.valueSet THEN 1 ELSE 0))

SelfdestructCall(f, args, c, h) == Argument(args[1], f.params[1], c, h) \o Do(<<"SELFDESTRUCT">>)

\* CompilerUtils::revertWithStringData
RevertWithStringData(t) ==
  FetchFreeMemoryPointer \o Val(ErrorSelector * 2^(WordBits - SelectorBits)) \o Do(<<"DUP2", "MSTORE">>)
  \o Val(SelectorBytes) \o Do(<<"ADD">>) \o AbiEncode(<<t>>, <<ByteArray("Memory", TRUE)>>, FALSE)
  \o ToSizeAfterFreeMemoryPointer \o Do(<<"REVERT">>)
RevertCall(args, c, h) ==
  IF args = << >> THEN AppendRevert ELSE Compile(args[1], c, h) \o RevertWithStringData(args[1].type)

EncodePackedForHash(given, targets) == FetchFreeMemoryPointer \o PackedEncode(given, targets) \o ToSizeAfterFreeMemoryPointer
KeccakCall(args, c, h) ==
  LET t == args[1].type
  IN  Compile(args[1], c, h)
      \o (IF \E s \in BOOLEAN : SameType(t, ByteArray("Memory", s))
          THEN RetrieveLength(ByteArray("Memory", FALSE), 0) \o Do(<<"SWAP1">>) \o Val(WordBytes) \o Do(<<"ADD">>)
          ELSE EncodePackedForHash(<<t>>, << >>))
      \o Do(<<"KECCAK256">>)

LogCall(f, args, c, h) ==
  LET n == Len(f.params) - 1
  IN  Concat([k \in 1..n |-> Argument(args[n + 2 - k], f.params[n + 2 - k], c, h + k - 1)])
      \o Compile(args[1], c, h + n) \o EncodePackedForHash(<<args[1].type>>, <<f.params[1]>>) \o <<Op(LOG[n + 1])>>

\* Indexed arguments from the last to the first, arrays by their hash; then the others
\* as data.
EventCall(e, f, args, c, h) ==
  LET event == Contracts[f.decl[1]].events[f.decl[3]]
      indexed == SelectSeq([k \in 1..Len(args) |-> Len(args) + 1 - k], LAMBDA k : event.indexed[k])
      others == SelectSeq([k \in 1..Len(args) |-> k], LAMBDA k : ~ event.indexed[k])
      topics == Len(indexed) + (IF event.anonymous THEN 0 ELSE 1)
      topic(k, at) ==
        IF f.params[k].cat = "Array"
        THEN Compile(args[k], c, at) \o EncodePackedForHash(<<args[k].type>>, <<f.params[k]>>) \o Do(<<"KECCAK256">>)
        ELSE Argument(args[k], f.params[k], c, at)
      data == [k \in 1..Len(others) |-> args[others[k]]]
      signature == <<event.name, [k \in 1..Len(f.params) |-> SignatureOf(InterfaceType(f.params[k], FALSE), FALSE)]>>
  IN  Compile(e.fun, c, h) \o Concat([k \in 1..Len(indexed) |-> topic(indexed[k], h + k - 1)])
      \o (IF event.anonymous THEN << >> ELSE Val(Hash(signature)))
      \o Expect(topics <= 4) \o CompileArguments(data, c, h + topics)
      \o FetchFreeMemoryPointer \o AbiEncode(TypesOf(data), [k \in 1..Len(others) |-> f.params[others[k]]], FALSE)
      \o ToSizeAfterFreeMemoryPointer \o <<Op(LOG[topics + 1])>>

BlockHashCall(f, args, c, h) == Argument(args[1], f.params[1], c, h) \o Do(<<"BLOCKHASH">>)
EthashCall(f, args, c, h) ==
  Concat([k \in 1..5 |-> Argument(args[6 - k], f.params[6 - k], c, h + k - 1)]) \o Do(<<"ETHASH">>)

ModCall(f, args, c, h) ==
  LET word(k, at) == Compile(args[k], c, at) \o Convert(args[k].type, Uint)
  IN  word(3, h) \o Do(<<"DUP1", "ISZERO">>) \o AppendConditionalInvalid \o word(2, h + 1) \o word(1, h + 2)
      \o Do(IF f.kind = "AddMod" THEN <<"ADDMOD">> ELSE <<"MULMOD">>)

\* ArrayReference argument -> newLength
PushCall(e, f, args, c, h) ==
  LET array == IF f.kind = "ArrayPush" THEN Array("Storage", f.params[1], Dynamic) ELSE ByteArray("Storage", FALSE)
      given == args[1].type
      type == ClosestTemporaryType(given, array.base)
      raise == MoveToStackTop(1 + SizeOnStack(type), 1)
  IN  Compile(e.fun, c, h) \o Compile(args[1], c, h + 1) \o MoveToStackTop(SizeOnStack(given), 1) \o Do(<<"DUP1">>)
      \o IncrementDynamicArraySize(array) \o Do(<<"SWAP1">>) \o Val(1) \o Do(<<"DUP3", "SUB">>) \o AccessIndex(array, FALSE)
      \o MoveToStackTop(3, SizeOnStack(given)) \o Convert(given, type) \o raise \o raise
      \o (IF f.kind = "ArrayPush" THEN StorageStore(f.params[1], type, TRUE) ELSE ByteArrayElementStore(TRUE))
PopCall(e, c, h) == Compile(e.fun, c, h) \o Expect(DataStoredIn(e.fun.sub.type, "Storage")) \o PopStorageArrayElement(e.fun.sub.type)

\* new T[](length): the length, the elements and the new free memory pointer
ObjectCreationCall(e, args, c, h) ==
  LET t == e.type
      init == Do(<<"DUP2">>) \o Val(WordBytes) \o Do(<<"ADD">>) \o ZeroInitialiseMemoryArray(t)
  IN  Compile(e.fun, c, h) \o Compile(args[1], c, h) \o Convert(args[1].type, Uint)
      \o FetchFreeMemoryPointer \o Do(<<"SWAP1", "DUP1", "DUP3", "MSTORE", "DUP1">>)
      \o (IF IsByteArray(t) THEN Val(WordBytes - 1) \o Do(<<"ADD">>) \o Val(WordBytes - 1) \o Do(<<"NOT", "AND">>)
          ELSE Val(MemoryHeadSize(t.base)) \o Do(<<"MUL">>))
      \o Val(WordBytes) \o Do(<<"ADD", "DUP3", "ADD">>) \o StoreFreeMemoryPointer
      \o Do(<<"DUP1", "ISZERO">>) \o SkipIf(init) \o Do(<<"POP">>)

AssertOrRequireCall(f, args, c, h) ==
  LET message == Len(args) > 1
      size == IF message THEN SizeOnStack(args[2].type) ELSE 0
      failure == IF f.kind = "Assert" THEN AppendInvalid
                 ELSE IF message THEN RevertWithStringData(args[2].type) ELSE AppendRevert
  IN  Compile(args[1], c, h) \o Convert(args[1].type, f.params[1])
      \o (IF message THEN Compile(args[2], c, h + 1) \o MoveIntoStack(1, size) ELSE << >>)
      \o Do(<<"ISZERO", "ISZERO">>) \o SkipIf(failure) \o PopStackSlots(size)

\* memory pointer, with the data after the length; a selector is put in front of it
SelectorInMemory(f, selector) ==
  LET literal == selector.cat = "StringLiteral"
      given == CASE f.kind = "ABIEncodeWithSelector" -> selector
                 [] f.kind = "ABIEncodeWithSignature" /\ literal -> FixedBytes(SelectorBytes)
                 [] f.kind = "ABIEncodeWithSignature" /\ ~ literal -> FixedBytes(WordBytes)
  IN  MoveIntoStack(SizeOnStack(selector), 1)
      \o (CASE f.kind = "ABIEncodeWithSelector" -> << >>
            [] f.kind = "ABIEncodeWithSignature" /\ literal -> Val(HashSelector(selector.value) * 2^(WordBits - SelectorBits))
            [] f.kind = "ABIEncodeWithSignature" /\ ~ literal -> EncodePackedForHash(<<selector>>, << >>) \o Do(<<"KECCAK256">>))
      \o ConvertIf(given, FixedBytes(SelectorBytes), TRUE)
      \o Val(WordBytes) \o Do(<<"DUP3", "ADD", "DUP1", "MLOAD">>) \o Val(2^(WordBits - SelectorBits) - 1)
      \o Do(<<"DUP4", "DUP2", "DUP4", "AND", "OR", "DUP4", "MSTORE", "POP", "POP", "POP", "POP">>)

AbiEncodeCall(f, args, c, h) ==
  LET selected == f.kind \in {"ABIEncodeWithSelector", "ABIEncodeWithSignature"}
      given == IF selected THEN Tail(TypesOf(args)) ELSE TypesOf(args)
  IN  CompileArguments(args, c, h) \o FetchFreeMemoryPointer
      \o Val(WordBytes + (IF selected THEN SelectorBytes ELSE 0)) \o Do(<<"ADD">>)
      \o (IF f.kind = "ABIEncodePacked" THEN PackedEncode(given, << >>) ELSE AbiEncode(given, << >>, FALSE))
      \o FetchFreeMemoryPointer
      \* end pointer -> pointer
      \o Val(WordBytes) \o Do(<<"DUP2", "DUP4", "SUB", "SUB", "DUP2", "MSTORE", "SWAP1">>) \o StoreFreeMemoryPointer
      \o (IF selected THEN SelectorInMemory(f, args[1].type) ELSE << >>)

AbiDecodeCall(e, args, c, h) ==
  LET t == args[1].type
      targets == IF e.type.cat = "Tuple" THEN e.type.components ELSE <<e.type>>
  IN  Compile(args[1], c, h)
      \o IF \E s \in BOOLEAN : SameType(t, ByteArray("CallData", s)) THEN AbiDecode(targets, FALSE)
         ELSE Convert(t, ByteArray("Memory", FALSE)) \o Do(<<"DUP1">>) \o Val(WordBytes) \o Do(<<"ADD", "SWAP1", "MLOAD">>)
              \o AbiDecode(targets, TRUE)

-----------------------------------------------------------------------------
(* External calls.  On the stack: contract address, function identifier    *)
(* (unless bare), self object (if bound), gas and value (if set).          *)

BareKinds == {"BareCall", "BareDelegateCall", "BareStaticCall"}
One(b) == IF b THEN 1 ELSE 0
GasValueSize(f) == One(f.gasSet) + One(f.valueSet)
SelfSize(f) == IF f.bound THEN SizeOnStack(f.params[1]) ELSE 0
UsesDelegateCall(f) == f.kind \in {"BareDelegateCall", "DelegateCall"}
UsesStaticCall(f) == f.kind = "BareStaticCall" \/ (Rank(f.mutability) <= Rank("View") /\ StaticCall)

ExternalReturnTypes(f) ==
  IF f.kind \in BareKinds THEN << >> ELSE IF Returndata THEN f.returns ELSE ReturnTypesWithoutDynamicTypes(f)
DynamicReturnSize(f) == \E t \in Range(ExternalReturnTypes(f)) : IsDynamicallyEncoded(t)
ReturnSize(f) ==
  LET types == ExternalReturnTypes(f)
      size(t) == CalldataEncodedSize(IF DecodingType(t) # Null THEN DecodingType(t) ELSE t, TRUE)
      sum[k \in 0..Len(types)] == IF k = 0 THEN 0 ELSE sum[k - 1] + size(types[k])
  IN  IF DynamicReturnSize(f) THEN 0 ELSE sum[Len(types)]

\* ... input_memory_end: the selector and the arguments from the free memory pointer on
ExternalInput(f, args, c, h) ==
  LET given == (IF f.bound THEN <<f.params[1]>> ELSE << >>) \o TypesOf(args)
      out == ReturnSize(f)
  IN  Expect(f.arbitrary \/ Len(args) = Len(ParameterTypes(f)))
      \o (IF f.bound THEN MoveToStackTop(GasValueSize(f), SelfSize(f)) ELSE << >>)
      \o Expect(f.kind = "BareStaticCall" => StaticCall) \o Expect(f.kind # "BareCallCode")
      \o CompileArguments(args, c, h)
      \* a failing ecrecover returns nothing: its output area is cleared
      \o (IF f.kind = "ECRecover"
          THEN FetchFreeMemoryPointer \o Val(0) \o Do(<<"DUP2", "MSTORE">>) \o Val(WordBytes) \o Do(<<"ADD">>) \o StoreFreeMemoryPointer
          ELSE << >>)
      \o (IF ~ GasForOutside /\ ~ f.gasSet /\ out > 0
          THEN Val(0) \o FetchFreeMemoryPointer \o Val(out) \o Do(<<"ADD", "MSTORE">>) ELSE << >>)
      \o FetchFreeMemoryPointer
      \o (IF IsBareCall(f) THEN << >>
          ELSE Dup(2 + GasValueSize(f) + SizesOnStack(given)) \o StoreInMemoryDynamic(Integer(SelectorBits, FALSE), FALSE))
      \o EncodeToMemory(given, f.params, PadArguments(f), f.arbitrary \/ IsBareCall(f), UsesDelegateCall(f))

\* input_memory_end -> input_memory_end outSize outOffset inSize inOffset
CallAreas(f) ==
  Val(ReturnSize(f)) \o FetchFreeMemoryPointer
  \o IF f.kind = "ECRecover" THEN Val(WordBytes) \o Do(<<"DUP2", "SUB", "SWAP1", "DUP1", "DUP5", "SUB", "SWAP1">>)
     ELSE Do(<<"DUP1", "DUP4", "SUB", "DUP2">>)

\* A call that is not low-level requires that there is code at the address.
CallInstruction(f) ==
  LET now == 5 - SelfSize(f)            \* what has been pushed since the call began
      value == IF UsesDelegateCall(f) \/ UsesStaticCall(f) THEN 0 ELSE 1
      checked == f.kind \in {"External", "DelegateCall"}
      needed == CallGas + 10 + (IF f.valueSet THEN 9000 ELSE 0) + (IF checked THEN 0 ELSE 25000)
  IN  (IF value = 0 THEN Expect(~ f.valueSet) ELSE IF f.valueSet THEN Dup(now + 1) ELSE Val(0))
      \o Dup(now + value + 1 + GasValueSize(f) + SelfSize(f) + One(~ IsBareCall(f)))
      \o (IF checked THEN Do(<<"DUP1", "EXTCODESIZE", "ISZERO">>) \o AppendConditionalRevert(FALSE) ELSE << >>)
      \o (IF f.gasSet THEN Dup(now + value + 1 + GasValueSize(f))
          ELSE IF GasForOutside THEN Do(<<"GAS">>) ELSE Val(needed) \o Do(<<"GAS", "SUB">>))
      \o Do(IF UsesDelegateCall(f) THEN <<"DELEGATECALL">> ELSE IF UsesStaticCall(f) THEN <<"STATICCALL">> ELSE <<"CALL">>)

\* a copy of the returned data as bytes in memory
ReturnedBytes ==
  IF ~ Returndata THEN Val(ZeroPointer)
  ELSE LET copy == Do(<<"POP">>) \o FetchFreeMemoryPointer \o Val(WordBytes - 1) \o Do(<<"NOT">>) \o Val(2 * WordBytes - 1)
                   \o Do(<<"RETURNDATASIZE", "ADD", "AND", "DUP2", "ADD">>) \o StoreFreeMemoryPointer
                   \o Do(<<"RETURNDATASIZE", "DUP2", "MSTORE", "RETURNDATASIZE">>) \o Val(0) \o Val(WordBytes)
                   \o Do(<<"DUP4", "ADD", "RETURNDATACOPY">>)
           none == Do(<<"POP">>) \o Val(ZeroPointer)
       IN  Do(<<"RETURNDATASIZE", "DUP1">>) \o <<JumpIf(Len(none) + 1)>> \o none \o <<JumpBy(Len(copy))>> \o copy

\* The output area is decoded; references into it keep it allocated.
ReturnedValues(f) ==
  LET types == ExternalReturnTypes(f)
      keep == DynamicReturnSize(f) \/ \E t \in Range(types) : IsReference(t)
  IN  FetchFreeMemoryPointer
      \o (IF DynamicReturnSize(f) THEN Expect(Returndata) \o Do(<<"RETURNDATASIZE">>) \o Val(0) \o Do(<<"DUP3", "RETURNDATACOPY">>)
          ELSE Expect(ReturnSize(f) > 0))
      \o (IF Returndata THEN Do(<<"RETURNDATASIZE">>) ELSE Val(ReturnSize(f)))
      \o (IF keep THEN Val(WordBytes - 1) \o Do(<<"NOT">>) \o Val(WordBytes - 1) \o Do(<<"DUP3", "ADD", "AND", "DUP3", "ADD">>) \o StoreFreeMemoryPointer
          ELSE << >>)
      \o AbiDecode(types, TRUE)

AppendExternalFunctionCall(f, args, c, h) ==
  LET remains == 2 + GasValueSize(f) + One(~ IsBareCall(f))
      low == f.kind \in BareKinds
  IN  ExternalInput(f, args, c, h) \o CallAreas(f) \o CallInstruction(f)
      \o (IF low THEN Swap(remains) ELSE Do(<<"ISZERO">>) \o AppendConditionalRevert(TRUE))
      \o PopStackSlots(remains)
      \o CASE low -> IF f.returns = << >> THEN << >> ELSE ReturnedBytes
           [] f.kind = "RIPEMD160" ->
                FetchFreeMemoryPointer \o LoadFromMemoryDynamic(Integer(AddressBits, FALSE), FALSE, TRUE, FALSE)
                \o Convert(Integer(AddressBits, FALSE), FixedBytes(AddressBytes))
           [] f.kind = "ECRecover" -> Val(WordBytes) \o FetchFreeMemoryPointer \o Do(<<"SUB", "MLOAD">>)
           [] OTHER -> IF ExternalReturnTypes(f) = << >> THEN << >> ELSE ReturnedValues(f)

ExternalCall(e, f, args, c, h) == Compile(e.fun, c, h) \o AppendExternalFunctionCall(f, args, c, h + SizeOnStack(f))

\* The stipend is given if no ether is sent: the call adds its own otherwise.
SendOrTransferCall(e, f, args, c, h) ==
  LET plain == [Function(<< >>, << >>, "BareCall", "NonPayable", << >>) EXCEPT !.gasSet = TRUE, !.valueSet = TRUE]
  IN  Compile(e.fun, c, h) \o Val(Stipend) \o Argument(args[1], f.params[1], c, h + 2)
      \o Do(<<"SWAP1", "DUP2", "ISZERO", "MUL", "SWAP1">>)
      \o AppendExternalFunctionCall(plain, << >>, c, h + 3)
      \o (IF f.kind = "Transfer" THEN Do(<<"ISZERO">>) \o AppendConditionalRevert(TRUE) ELSE << >>)

PrecompiledCall(e, f, args, c, h) ==
  Compile(e.fun, c, h) \o Val(IndexOf(<<"ECRecover", "SHA256", "RIPEMD160">>, f.kind))
  \o Concat([k \in 1..SizeOnStack(f) |-> Swap(SizeOnStack(f) + 1 - k)])
  \o AppendExternalFunctionCall(f, args, c, h + 1 + SizeOnStack(f))

VisitFunctionCall(e, c, h) ==
  IF e.kind = "TypeConversion" THEN ConversionCall(e, c, h)
  ELSE IF e.kind = "StructConstructorCall" THEN StructConstructorCall(e, c, h)
  ELSE LET f == e.fun.type
           args == IF e.names = << >> THEN e.args ELSE InOrder(e, ParameterNames(f))
       IN  Expect(f.arbitrary \/ Len(args) = Len(ParameterTypes(f)))
           \o Expect(f.bound => f.kind \in {"DelegateCall", "Internal"})
           \o CASE f.kind = "Internal" -> InternalCall(e, f, args, c, h)
                [] f.kind \in {"External", "DelegateCall"} \cup BareKinds -> ExternalCall(e, f, args, c, h)
                [] f.kind = "Creation" -> CreationCall(e, f, args, c, h)
                [] f.kind = "SetGas" -> SetGasCall(e, f, args, c, h)
                [] f.kind = "SetValue" -> SetValueCall(e, f, args, c, h)
                [] f.kind \in {"Send", "Transfer"} -> SendOrTransferCall(e, f, args, c, h)
                [] f.kind = "Selfdestruct" -> SelfdestructCall(f, args, c, h)
                [] f.kind = "Revert" -> RevertCall(args, c, h)
                [] f.kind = "KECCAK256" -> KeccakCall(args, c, h)
                [] f.kind \in {"Log0", "Log1", "Log2", "Log3", "Log4"} -> LogCall(f, args, c, h)
                [] f.kind = "Event" -> EventCall(e, f, args, c, h)
                [] f.kind = "BlockHash" -> BlockHashCall(f, args, c, h)
                [] f.kind = "Ethash" -> EthashCall(f, args, c, h)
                [] f.kind \in {"AddMod", "MulMod"} -> ModCall(f, args, c, h)
                [] f.kind \in {"ECRecover", "SHA256", "RIPEMD160"} -> PrecompiledCall(e, f, args, c, h)
                [] f.kind \in {"ArrayPush", "ByteArrayPush"} -> PushCall(e, f, args, c, h)
                [] f.kind = "ArrayPop" -> PopCall(e, c, h)
                [] f.kind = "ObjectCreation" -> ObjectCreationCall(e, args, c, h)
                [] f.kind \in {"Assert", "Require"} -> AssertOrRequireCall(f, args, c, h)
                [] f.kind \in {"ABIEncode", "ABIEncodePacked", "ABIEncodeWithSelector", "ABIEncodeWithSignature"} -> AbiEncodeCall(f, args, c, h)
                [] f.kind = "ABIDecode" -> AbiDecodeCall(e, args, c, h)
                [] f.kind = "GasLeft" -> Do(<<"GAS">>)
                [] OTHER -> Fail("function kind")

-----------------------------------------------------------------------------
(* Variables and members *)

IdentifierOf(d) == ExternalIdentifier(IF d[2] = "v" THEN GetterTypeOf(d[1], d[3]) ELSE FunctionTypeOf(d[1], d[3], FALSE))
AppendLibraryAddress(name) == <<Item("PushLibraryAddress", name)>>

\* setLValue: the place on the stack, or its value if the place is not requested
SetLValue(e, lv, h) == IF e.requested THEN << >> ELSE RetrieveValue(lv, h + LValueSize(lv), TRUE)

StorageLocationOfVariable(d, c) ==
  LET all == StateVariables(c.contract)
      k == CHOOSE j \in 1..Len(all) : all[j].name = Raw(d).name /\ all[j].contract = d[1]
  IN  <<all[k].slot, all[k].byte>>
\* StorageItem(VariableDeclaration)
PushStorageLocation(d, c) == LET at == StorageLocationOfVariable(d, c) IN Val(at[1]) \o Val(at[2])

SetLValueFromDeclaration(e, c, h) ==
  IF e.decl.kind = "local" THEN SetLValue(e, LValueOf(e, c), h)
  ELSE PushStorageLocation(e.decl.id, c) \o SetLValue(e, LValueOf(e, c), h)
AppendVariable(e, c, h) ==
  IF e.decl.kind = "variable" /\ Raw(e.decl.id).constant
  THEN LET value == DefinitionOf(e.decl.id).value IN Compile(value, c, h) \o Convert(value.type, DefinitionOf(e.decl.id).type)
  ELSE SetLValueFromDeclaration(e, c, h)

AppendExpressionCopyToMemory(t, e, c, h) ==
  (IF IsValueType(t) THEN << >> ELSE Fail("unimplemented")) \o Argument(e, t, c, h) \o StoreInMemoryDynamic(t, TRUE)

EndVisitIdentifier(e, c, h) ==
  CASE e.decl.kind = "magic" ->
         (CASE e.type.cat = "Contract" /\ ~ e.type.super -> Do(<<"ADDRESS">>)
            [] e.type.cat = "Integer" -> Do(<<"TIMESTAMP">>)
            [] OTHER -> << >>)
    [] e.decl.kind = "function" -> PushCombinedFunctionEntryLabel(ResolveVirtualFunction(e.decl.id, c), c, TRUE)
    [] e.decl.kind \in {"local", "variable"} -> AppendVariable(e, c, h)
    [] e.decl.kind = "contract" -> IF IsLibrary(e.decl.id) THEN AppendLibraryAddress(e.decl.id) ELSE << >>
    [] e.decl.kind \in {"event", "enum", "struct"} -> << >>
    [] OTHER -> Fail("identifier")

MemberOfBound(e, c, h) ==
  LET self == e.type.params[1]
  IN  Compile(e.sub, c, h) \o ConvertIf(e.sub.type, self, TRUE)
      \o IF e.type.kind = "Internal"
         THEN PushCombinedFunctionEntryLabel(e.type.decl, c, TRUE) \o MoveIntoStack(SizeOnStack(self), 1)
         ELSE Expect(e.type.kind = "DelegateCall" /\ IsLibrary(e.type.decl[1])) \o AppendLibraryAddress(e.type.decl[1])
              \o Val(ExternalIdentifier(e.type)) \o MoveIntoStack(SizeOnStack(self), 2)

MemberOfTypeType(e, c, h) ==
  LET actual == e.sub.type.actual
  IN  CASE actual.cat = "Contract" ->
             (CASE e.decl.kind = "variable" -> AppendVariable(e, c, h)
                [] e.decl.kind # "variable" /\ e.type.cat = "Function" ->
                     (CASE e.type.kind = "Internal" -> PushCombinedFunctionEntryLabel(e.decl.id, c, TRUE)
                        [] e.type.kind = "Event" -> << >>
                        [] e.type.kind = "DelegateCall" -> Compile(e.sub, c, h) \o Val(ExternalIdentifier(e.type))
                        [] OTHER -> Fail("unsupported member function"))
                [] e.decl.kind # "variable" /\ e.type.cat = "TypeType" -> << >>
                [] OTHER -> Compile(e.sub, c, h))
        [] actual.cat = "Enum" -> Compile(e.sub, c, h) \o Val(MemberValue(actual.name, e.member))
        [] OTHER -> Compile(e.sub, c, h)

\* this.f.selector does not need the address
IsSelectorOfThis(e) ==
  /\ e.sub.type.cat = "Function" /\ e.member = "selector" /\ e.sub.node = "MemberAccess"
  /\ e.sub.sub.node = "Identifier" /\ e.sub.sub.name = "this" /\ e.sub.decl.kind \in {"function", "variable"}
SelectorOfThis(e) == Val(IdentifierOf(e.sub.decl.id)) \o LeftShiftNumberOnStack(WordBits - SelectorBits)

MemberOfContract(e, c) ==
  LET t == e.sub.type
  IN  IF t.super THEN PushCombinedFunctionEntryLabel(SuperFunction(e.decl.id, t.name, c), c, TRUE)
      ELSE Expect(e.decl.kind \in {"function", "variable"})
           \o ConvertIf(t, Address(IsPayable(t.name)), TRUE) \o Val(IdentifierOf(e.decl.id))

MemberOfAddress(e) ==
  CASE e.member = "balance" -> ConvertIf(e.sub.type, Address(FALSE), TRUE) \o Do(<<"BALANCE">>)
    [] e.member \in {"send", "transfer"} -> Expect(e.sub.type.payable) \o ConvertIf(e.sub.type, Address(TRUE), TRUE)
    [] e.member \in {"call", "callcode", "delegatecall", "staticcall"} -> ConvertIf(e.sub.type, Address(FALSE), TRUE)

MemberOfFunction(e) ==
  IF e.member = "selector" THEN Do(<<"SWAP1", "POP">>) \o LeftShiftNumberOnStack(WordBits - SelectorBits) ELSE << >>

MagicInstruction ==
  [coinbase |-> "COINBASE", timestamp |-> "TIMESTAMP", difficulty |-> "DIFFICULTY", number |-> "NUMBER", gaslimit |-> "GASLIMIT",
   sender |-> "CALLER", value |-> "CALLVALUE", origin |-> "ORIGIN", gasprice |-> "GASPRICE"]
MemberOfMagic(e) ==
  CASE e.member \in DOMAIN MagicInstruction -> Do(<<MagicInstruction[e.member]>>)
    [] e.member = "data" -> Val(0) \o Do(<<"CALLDATASIZE">>)
    [] e.member = "sig" -> Val(0) \o Do(<<"CALLDATALOAD">>)
                           \o Val((2^SelectorBits - 1) * 2^(WordBits - SelectorBits)) \o Do(<<"AND">>)
    [] OTHER -> Fail("magic member")

MemberOfStruct(e, c, h) ==
  LET t == e.sub.type
      at == StorageOffsetsOfMember(t, e.member)
  IN  CASE t.loc = "Storage" -> Val(at[1]) \o Do(<<"ADD">>) \o Val(at[2]) \o SetLValue(e, LValueOf(e, c), h)
        [] t.loc = "Memory" -> Val(MemoryOffsetOfMember(t, e.member)) \o Do(<<"ADD">>) \o SetLValue(e, LValueOf(e, c), h)
        [] OTHER -> Fail("illegal data location for struct")

MemberOfArray(e, c, h) ==
  LET t == e.sub.type
  IN  CASE e.member = "length" /\ ~ IsDynamicallySized(t) -> PopStackSlots(SizeOnStack(t)) \o Val(t.length)
        [] e.member = "length" /\ IsDynamicallySized(t) /\ t.loc = "CallData" -> Do(<<"SWAP1", "POP">>)
        [] e.member = "length" /\ IsDynamicallySized(t) /\ t.loc = "Storage" -> SetLValue(e, LValueOf(e, c), h)
        [] e.member = "length" /\ IsDynamicallySized(t) /\ t.loc = "Memory" -> Do(<<"MLOAD">>)
        [] e.member \in {"push", "pop"} -> Expect(IsDynamicallySized(t) /\ t.loc = "Storage")

VisitMemberAccess(e, c, h) ==
  LET t == e.sub.type
  IN  IF e.type.cat = "Function" /\ e.type.bound THEN MemberOfBound(e, c, h)
      ELSE IF t.cat = "TypeType" THEN MemberOfTypeType(e, c, h)
      ELSE IF IsSelectorOfThis(e) THEN SelectorOfThis(e)
      ELSE Compile(e.sub, c, h)
           \o CASE t.cat = "Contract" -> MemberOfContract(e, c)
                [] t.cat = "Address" -> MemberOfAddress(e)
                [] t.cat = "Function" -> MemberOfFunction(e)
                [] t.cat = "Magic" -> MemberOfMagic(e)
                [] t.cat = "Struct" -> MemberOfStruct(e, c, h)
                [] t.cat = "Enum" -> Val(MemberValue(t.name, e.member))
                [] t.cat = "Array" -> MemberOfArray(e, c, h)
                [] t.cat = "FixedBytes" -> PopStackSlots(1) \o Expect(e.member = "length") \o Val(t.bytes)
                [] OTHER -> Fail("member access to unknown type")

-----------------------------------------------------------------------------
(* Elements *)

\* The slot of an element of a mapping is the hash of the key and the mapping's slot;
\* the memory below the free memory pointer is the scratch space for it.
IndexMapping(e, c, h) ==
  LET key == e.base.type.key
  IN  (IF IsDynamicallySized(key)
       THEN Compile(e.index, c, h + 1) \o FetchFreeMemoryPointer \o PackedEncode(<<e.index.type>>, <<key>>) \o Do(<<"SWAP1">>)
            \o StoreInMemoryDynamic(Uint, TRUE) \o ToSizeAfterFreeMemoryPointer
       ELSE Val(0) \o AppendExpressionCopyToMemory(key, e.index, c, h + 2) \o Do(<<"SWAP1">>) \o StoreInMemoryDynamic(Uint, TRUE) \o Val(0))
      \o Do(<<"KECCAK256">>) \o Val(0) \o SetLValue(e, LValueOf(e, c), h)

IndexArray(e, c, h) ==
  LET t == e.base.type
  IN  Argument(e.index, Uint, c, h + SizeOnStack(t)) \o AccessIndex(t, TRUE)
      \o CASE t.loc = "Storage" -> Expect(~ IsString(t)) \o SetLValue(e, LValueOf(e, c), h)
           [] t.loc = "Memory" -> SetLValue(e, LValueOf(e, c), h)
           [] t.loc = "CallData" ->
                (IF IsDynamicallySized(t.base) THEN Fail("unimplemented") ELSE << >>)
                \o (IF IsValueType(t.base) THEN LoadFromMemoryDynamic(t.base, TRUE, ~ IsByteArray(t), FALSE) ELSE << >>)

IndexFixedBytes(e, c, h) ==
  Argument(e.index, Uint, c, h + 1) \o Val(e.base.type.bytes) \o Do(<<"DUP2", "LT", "ISZERO">>) \o AppendConditionalInvalid
  \o Do(<<"BYTE">>) \o LeftShiftNumberOnStack(WordBits - ByteBits)

VisitIndexAccess(e, c, h) ==
  LET t == e.base.type
  IN  Compile(e.base, c, h)
      \o CASE t.cat = "Mapping" -> IndexMapping(e, c, h)
           [] t.cat = "Array" -> IndexArray(e, c, h)
           [] t.cat = "FixedBytes" -> IndexFixedBytes(e, c, h)
           [] t.cat = "TypeType" -> Expect(SizeOnStack(t) = 0 /\ SizeOnStack(e.type) = 0)
           [] OTHER -> Fail("index access")

-----------------------------------------------------------------------------

LValueOf(e, c) ==
  CASE e.node \in {"Identifier", "MemberAccess"} /\ e.decl.kind = "local" -> StackVariable(e.type, c.locals[e.decl.id])
    [] e.node \in {"Identifier", "MemberAccess"} /\ e.decl.kind = "variable" -> StorageItem(e.type)
    [] e.node = "MemberAccess" /\ e.sub.type.cat = "Struct" ->
         IF e.sub.type.loc = "Storage" THEN StorageItem(e.type) ELSE MemoryItem(e.type, TRUE)
    [] e.node = "MemberAccess" /\ e.sub.type.cat = "Array" -> StorageArrayLength(e.sub.type)
    [] e.node = "IndexAccess" /\ e.base.type.cat = "Mapping" -> StorageItem(e.type)
    [] e.node = "IndexAccess" /\ e.base.type.cat = "Array" ->
         (CASE e.base.type.loc = "Storage" -> IF IsByteArray(e.base.type) THEN StorageByteArrayElement ELSE StorageItem(e.type)
            [] e.base.type.loc = "Memory" -> MemoryItem(e.type, ~ IsByteArray(e.base.type)))
    [] e.node = "Tuple" ->
         LET n == Len(e.components)
         IN  IF n = 1 THEN LValueOf(e.components[1], c)
             ELSE TupleObject([k \in 1..n |-> IF e.components[k] = Null THEN Null ELSE LValueOf(e.components[k], c)])

Compile(e, c, h) ==
  CASE e.node = "Literal" -> VisitLiteral(e)
    [] e.node = "Identifier" -> EndVisitIdentifier(e, c, h)
    [] e.node = "Unary" -> VisitUnaryOperation(e, c, h)
    [] e.node = "Binary" -> VisitBinaryOperation(e, c, h)
    [] e.node = "Conditional" -> VisitConditional(e, c, h)
    [] e.node = "Assignment" -> VisitAssignment(e, c, h)
    [] e.node = "Tuple" -> VisitTuple(e, c, h)
    [] e.node = "FunctionCall" -> VisitFunctionCall(e, c, h)
    [] e.node = "MemberAccess" -> VisitMemberAccess(e, c, h)
    [] e.node = "IndexAccess" -> VisitIndexAccess(e, c, h)
    [] e.node \in {"New", "ElementaryTypeName"} -> << >>

-----------------------------------------------------------------------------
(* State variables: initial values and getters *)

AppendStateVariableInitialization(d, c, h) ==
  LET v == DefinitionOf(d)
      type == IF DataStoredIn(v.type, "Storage") THEN MobileType(v.value.type) ELSE v.type
  IN  IF v.value = Null THEN << >>
      ELSE Compile(v.value, c, h) \o Convert(v.value.type, type) \o PushStorageLocation(d, c) \o StorageStore(v.type, type, TRUE)

Return(size) == Dup(size + 1) \o Do(<<"JUMP">>)

AppendConstStateVariableAccessor(d, c) ==
  LET v == DefinitionOf(d)
  IN  Compile(v.value, c, 1) \o Convert(v.value.type, v.type) \o Return(SizeOnStack(v.type))

\* The code that follows the keys and indices to the element
RECURSIVE AccessorPath(_, _, _)
AccessorPath(t, params, k) ==
  IF k > Len(params) THEN << >>
  ELSE LET left == Len(params) - k + 1          \* paramTypes.size() - i
       IN  Do(<<"POP">>)
           \o CASE t.cat = "Mapping" ->
                     (IF IsDynamicallySized(params[k]) THEN Fail("unimplemented") ELSE << >>)
                     \o StoreInMemory(WordBytes) \o CopyToStackTop(left, 1) \o StoreInMemory(0)
                     \o Val(2 * WordBytes) \o Val(0) \o Do(<<"KECCAK256">>) \o Val(0) \o AccessorPath(t.value, params, k + 1)
                [] t.cat = "Array" -> CopyToStackTop(left + 1, 1) \o AccessIndex(t, TRUE) \o AccessorPath(t.base, params, k + 1)

\* All members but mappings and arrays
AccessorMembers(t, returns) ==
  LET member(k) ==
        LET m == GetterMembers(t)[k]
            at == StorageOffsetsOfMember(t, m.name)
        IN  Do(<<"DUP1">>) \o Val(at[1]) \o Do(<<"ADD">>) \o Val(at[2]) \o StorageRetrieve(m.type, TRUE)
            \o Convert(m.type, returns[k]) \o MoveToStackTop(SizeOnStack(returns[k]), 1)
  IN  Do(<<"POP">>) \o Concat([k \in 1..Len(returns) |-> member(k)]) \o Do(<<"POP">>)

\* return label, keys -> values, and back to the label
AppendStateVariableAccessor(d, c) ==
  LET f == GetterTypeOf(d[1], d[3])
      t == Raw(d).type
      n == Len(f.params)
      value == GetterValue(t)
  IN  PushStorageLocation(d, c) \o AccessorPath(t, f.params, 1)
      \o (CASE n = 0 -> << >>
            [] n = 1 -> Do(<<"SWAP2", "POP", "SWAP1">>)
            [] OTHER -> Swap(n) \o Do(<<"POP">>) \o Swap(n) \o PopStackSlots(n - 1))
      \o Expect(f.returns # << >>)
      \o (IF value.cat = "Struct" THEN AccessorMembers(value, f.returns)
          ELSE StorageRetrieve(value, TRUE) \o Convert(value, f.returns[1]))
      \o Expect(SizesOnStack(f.returns) <= 15) \o Return(SizesOnStack(f.returns))

=============================================================================
