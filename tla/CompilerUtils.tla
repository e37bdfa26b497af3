--------------------------- MODULE CompilerUtils ---------------------------
(***************************************************************************)
(* The code generator's library: CompilerContext, CompilerUtils,           *)
(* ArrayUtils and LValue (libsolidity/codegen).  What a function of the    *)
(* code appends to the assembly, it returns here: a sequence of items.     *)
(* 256, 32 and 8 of the code are WordBits, WordBytes and ByteBits; stack   *)
(* layouts are written with the top on the right.                          *)
(***************************************************************************)
EXTENDS ContractMachine, Types

CONSTANTS BitwiseShifting,      \* EVMVersion::hasBitwiseShifting
          LengthLimit           \* 0x100000000: longer arrays are not decoded

-----------------------------------------------------------------------------
(* CompilerContext: appending code *)

Do(instructions) == [k \in 1..Len(instructions) |-> Op(instructions[k])]
Val(n) == <<Push(Unsigned(n))>>
Fail(why) == <<Assertion(why)>>
Expect(b) == IF b THEN << >> ELSE Fail("assertion")
Times(n, items) == Concat([k \in 1..n |-> items])

Dup(n) == IF n \in 1..16 THEN <<Op(DUP[n])>> ELSE Fail("stack too deep")
Swap(n) == IF n \in 1..16 THEN <<Op(SWAP[n])>> ELSE Fail("stack too deep")

\* Jump over the code if the top of the stack is not zero, or if it is
SkipIf(code) == <<JumpIf(Len(code))>> \o code
When(code) == Do(<<"ISZERO">>) \o SkipIf(code)
\* Loop until exit leaves a value that is not zero; repeat while body leaves one
Until(exit, body) == exit \o <<JumpIf(Len(body) + 1)>> \o body \o <<JumpBy(-(Len(exit) + Len(body) + 2))>>
Repeat(body) == body \o <<JumpIf(-(Len(body) + 1))>>

AppendInvalid == Do(<<"INVALID">>)
AppendConditionalInvalid == Do(<<"ISZERO">>) \o SkipIf(AppendInvalid)
AppendRevert == Val(0) \o Val(0) \o Do(<<"REVERT">>)
AppendConditionalRevert(forward) ==
  When(IF forward /\ Returndata
       THEN Do(<<"RETURNDATASIZE">>) \o Val(0) \o Val(0) \o Do(<<"RETURNDATACOPY", "RETURNDATASIZE">>) \o Val(0) \o Do(<<"REVERT">>)
       ELSE AppendRevert)

-----------------------------------------------------------------------------
(* CompilerUtils: the stack *)

CopyToStackTop(depth, size) == Times(size, Dup(depth))
RotateStackUp(items) == Concat([k \in 1..(items - 1) |-> Swap(items - k)])
RotateStackDown(items) == Concat([k \in 1..(items - 1) |-> Swap(k)])
MoveIntoStack(depth, size) ==
  IF depth <= size THEN Times(depth, RotateStackDown(depth + size)) ELSE Times(size, RotateStackUp(depth + size))
MoveToStackTop(depth, size) == MoveIntoStack(size, depth)
PopStackSlots(n) == Times(n, Do(<<"POP">>))

SizesOnStack(types) ==
  LET sum[k \in 0..Len(types)] == IF k = 0 THEN 0 ELSE sum[k - 1] + SizeOnStack(types[k]) IN sum[Len(types)]

\* callLowLevelFunction: the function takes in slots and leaves out slots.
LowLevel(name, type, other) == [name |-> name, type |-> type, other |-> other]
CallLowLevelFunction(function, in) ==
  LET jump == MoveIntoStack(in, 1) \o <<Entry(function)>> \o Do(<<"JUMP">>)
  IN  <<Here(Len(jump) + 1)>> \o jump \o <<Label>>
LowLevelFunction(body, out) == <<Label>> \o body \o MoveToStackTop(out, 1) \o Do(<<"JUMP">>)

LeftShiftNumberOnStack(bits) ==
  IF bits >= WordBits THEN Fail("shift")
  ELSE IF BitwiseShifting THEN Val(bits) \o Do(<<"SHL">>) ELSE Val(2^bits) \o Do(<<"MUL">>)
RightShiftNumberOnStack(bits) ==
  IF bits >= WordBits THEN Fail("shift")
  ELSE IF BitwiseShifting THEN Val(bits) \o Do(<<"SHR">>) ELSE Val(2^bits) \o Do(<<"SWAP1", "DIV">>)

Mask(bytes) == Val(2^(ByteBits * bytes) - 1)

CleanHigherOrderBits(t) ==
  IF t.bits = WordBits THEN << >>
  ELSE IF t.signed THEN Val(t.bits \div ByteBits - 1) \o Do(<<"SIGNEXTEND">>)
  ELSE Val(2^t.bits - 1) \o Do(<<"AND">>)

AddressBits == AddressBytes * ByteBits

SplitExternalFunctionType(leftAligned) ==
  (IF leftAligned
   THEN Do(<<"DUP1">>) \o RightShiftNumberOnStack(WordBits - AddressBits) \o Do(<<"SWAP1">>)
        \o RightShiftNumberOnStack(WordBits - AddressBits - SelectorBits)
   ELSE Do(<<"DUP1">>) \o RightShiftNumberOnStack(SelectorBits) \o Mask(AddressBytes) \o Do(<<"AND", "SWAP1">>))
  \o Mask(SelectorBytes) \o Do(<<"AND">>)

CombineExternalFunctionType(leftAligned) ==
  Mask(SelectorBytes) \o Do(<<"AND", "SWAP1">>)
  \o (IF leftAligned THEN << >> ELSE Mask(AddressBytes) \o Do(<<"AND">>))
  \o LeftShiftNumberOnStack(SelectorBits) \o Do(<<"OR">>)
  \o (IF leftAligned THEN LeftShiftNumberOnStack(WordBits - AddressBits - SelectorBits) ELSE << >>)

-----------------------------------------------------------------------------
(* CompilerUtils: memory.  The first two words are scratch space.          *)

FreeMemoryPointer == 2 * WordBytes
ZeroPointer == FreeMemoryPointer + WordBytes
GeneralPurposeMemoryStart == ZeroPointer + WordBytes

FetchFreeMemoryPointer == Val(FreeMemoryPointer) \o Do(<<"MLOAD">>)
StoreFreeMemoryPointer == Val(FreeMemoryPointer) \o Do(<<"MSTORE">>)
InitialiseFreeMemoryPointer == Val(GeneralPurposeMemoryStart) \o StoreFreeMemoryPointer
AllocateMemory == FetchFreeMemoryPointer \o Do(<<"SWAP1", "DUP2", "ADD">>) \o StoreFreeMemoryPointer
ToSizeAfterFreeMemoryPointer == FetchFreeMemoryPointer \o Do(<<"DUP1", "SWAP2", "SUB", "SWAP1">>)

StoreInMemory(offset) == Val(offset) \o Do(<<"MSTORE">>)
ComputeHashStatic == StoreInMemory(0) \o Val(WordBytes) \o Val(0) \o Do(<<"KECCAK256">>)

\* len dst src ->
MemoryCopy32 ==
  Val(0)
  \o Until(Do(<<"DUP4", "DUP2", "LT", "ISZERO">>),
           Do(<<"DUP1", "DUP3", "ADD", "MLOAD", "DUP2", "DUP5", "ADD", "MSTORE">>) \o Val(WordBytes) \o Do(<<"ADD">>))
  \o PopStackSlots(4)
MemoryCopy ==
  Until(Val(WordBytes) \o Do(<<"DUP4", "LT">>),
        Do(<<"DUP1", "MLOAD", "DUP3", "MSTORE", "SWAP1">>) \o Val(WordBytes) \o Do(<<"ADD", "SWAP1">>)
        \o Val(WordBytes) \o Do(<<"ADD">>) \o Val(WordBytes) \o Do(<<"DUP4", "SUB", "SWAP3", "POP">>))
  \o Val(1) \o Do(<<"DUP4">>) \o Val(WordBytes) \o Do(<<"SUB">>) \o Val(2^ByteBits) \o Do(<<"EXP", "SUB">>)
  \o Do(<<"DUP1", "NOT", "DUP3", "MLOAD", "AND", "DUP4", "MLOAD", "DUP3", "AND", "OR", "DUP4", "MSTORE">>)
  \o PopStackSlots(4)

RECURSIVE ConvertType(_, _, _, _, _), StoreInMemoryDynamic(_, _), PushZeroValue(_)
RECURSIVE StorageRetrieve(_, _), StorageStore(_, _, _), StorageSetToZero(_, _)
RECURSIVE CopyArrayToMemory(_, _), CopyArrayToStorage(_, _)

\* The words of a string literal, left aligned; mempos -> (strings over four words are
\* copied from the code, with the same effect)
LiteralWord(bytes, k) == FromBigEndian(Window(bytes, k * WordBytes, WordBytes))
StoreStringData(bytes) ==
  Concat([k \in 1..(RoundUp(Len(bytes)) \div WordBytes) |-> Val(LiteralWord(bytes, k - 1)) \o StoreInMemoryDynamic(Uint, TRUE)])
  \o Do(<<"POP">>)

IsExternalFunction(t) == t.cat = "Function" /\ t.kind = "External"

\* offset -> value
LoadFromMemoryHelper(t, fromCalldata, pad) ==
  LET size == CalldataEncodedSize(t, pad)
      shift == (WordBytes - size) * ByteBits
      leftAligned == t.cat = "FixedBytes"
      cut == size # WordBytes /\ ~ IsExternalFunction(t)
      cleanup == ~ (cut /\ (leftAligned \/ (t.cat = "Integer" /\ ~ t.signed)))
  IN  IF size = 0 THEN Do(<<"POP">>) \o Val(0)
      ELSE IF size > WordBytes THEN Fail("load")
      ELSE Do(IF fromCalldata THEN <<"CALLDATALOAD">> ELSE <<"MLOAD">>)
           \o (IF IsExternalFunction(t) THEN SplitExternalFunctionType(TRUE)
               ELSE IF cut THEN RightShiftNumberOnStack(shift) \o (IF leftAligned THEN LeftShiftNumberOnStack(shift) ELSE << >>)
               ELSE << >>)
           \o (IF fromCalldata THEN ConvertType(t, t, cleanup, FALSE, TRUE) ELSE << >>)

\* offset -> value [offset'] with keep
LoadFromMemoryDynamic(t, fromCalldata, pad, keep) ==
  (IF keep THEN Do(<<"DUP1">>) ELSE << >>)
  \o IF t.cat = "Array"
     THEN Expect(~ IsDynamicallySized(t) /\ ~ fromCalldata /\ pad)
          \o (IF keep THEN Val(MemorySize(t)) \o Do(<<"ADD">>) ELSE << >>)
     ELSE LoadFromMemoryHelper(t, fromCalldata, pad)
          \o (IF keep THEN MoveToStackTop(SizeOnStack(t), 1) \o Val(CalldataEncodedSize(t, pad)) \o Do(<<"ADD">>) ELSE << >>)

\* mempos value -> mempos'
PrepareMemoryStore(t, pad) ==
  LET size == CalldataEncodedSize(t, pad)
  IN  Expect(SizeOnStack(t) = 1 /\ size \in 1..WordBytes)
      \o ConvertType(t, t, TRUE, FALSE, FALSE)
      \o (IF size # WordBytes /\ t.cat # "FixedBytes" /\ ~ pad THEN LeftShiftNumberOnStack((WordBytes - size) * ByteBits) ELSE << >>)

StoreInMemoryDynamic(t, pad) ==
  CASE IsReference(t) -> Expect(t.loc = "Memory") \o StoreInMemoryDynamic(Uint, pad)
    [] t.cat = "StringLiteral" ->
         Do(<<"DUP1">>) \o StoreStringData(t.value)
         \o Val(IF pad THEN Max({WordBytes, RoundUp(Len(t.value))}) ELSE Len(t.value)) \o Do(<<"ADD">>)
    [] IsExternalFunction(t) ->
         CombineExternalFunctionType(TRUE) \o Do(<<"DUP2", "MSTORE">>)
         \o Val(IF pad THEN WordBytes ELSE AddressBytes + SelectorBytes) \o Do(<<"ADD">>)
    [] ~ IsReference(t) /\ ~ IsExternalFunction(t) /\ IsValueType(t) ->
         PrepareMemoryStore(t, pad) \o Do(<<"DUP2", "MSTORE">>) \o Val(CalldataEncodedSize(t, pad)) \o Do(<<"ADD">>)
    [] OTHER -> Fail("memory store")

\* length mempos -> mempos'
ZeroInitialiseMemoryArray(t) ==
  (IF HasSimpleZeroValueInMemory(t.base)
   THEN Val(IF IsByteArray(t) THEN 1 ELSE MemoryHeadSize(t.base))
        \o Do(<<"DUP3", "MUL", "DUP1", "CODESIZE", "DUP4", "CODECOPY", "ADD">>)
   ELSE Repeat(PushZeroValue(t.base) \o StoreInMemoryDynamic(t.base, TRUE)
               \o Do(<<"SWAP1">>) \o Val(1) \o Do(<<"SWAP1", "SUB", "SWAP1", "DUP2">>)))
  \o Do(<<"SWAP1", "POP">>)

PushZeroValue(t) ==
  IF t.cat = "Function" /\ t.kind = "Internal" THEN <<Entry(LowLevel("invalidFunction", Null, Null))>>
  ELSE IF ~ IsReference(t) \/ t.loc = "Storage" THEN Times(SizeOnStack(t), Val(0))
  ELSE IF IsDynamicallySized(t) THEN Val(ZeroPointer)
  ELSE CallLowLevelFunction(LowLevel("pushZeroValue", t, Null), 0)

PushZeroValueBody(t) ==
  Val(Max({WordBytes, CalldataEncodedSize(t, TRUE)})) \o AllocateMemory \o Do(<<"DUP1">>)
  \o (IF t.cat = "Struct"
      THEN Concat([k \in 1..Len(StructMembers(t)) |->
                     PushZeroValue(StructMembers(t)[k].type) \o StoreInMemoryDynamic(StructMembers(t)[k].type, TRUE)])
      ELSE IF t.length > 0 THEN Val(t.length) \o Do(<<"SWAP1">>) \o ZeroInitialiseMemoryArray(t) ELSE << >>)
  \o Do(<<"POP">>)

-----------------------------------------------------------------------------
(* ArrayUtils *)

\* Items of this size share slots: storageBytes <= 16
Packed(t) == StorageBytes(t) <= WordBytes \div 2

\* ref [length] ... -> ref [length] ... length
RetrieveLength(t, depth) ==
  IF ~ IsDynamicallySized(t) THEN Val(t.length)
  ELSE Dup(1 + depth)
       \o (CASE t.loc = "CallData" -> << >>
             [] t.loc = "Memory" -> Do(<<"MLOAD">>)
             [] t.loc = "Storage" ->
                  Do(<<"SLOAD">>)
                  \o (IF IsByteArray(t)
                      THEN Val(1) \o Do(<<"DUP2">>) \o Val(1) \o Do(<<"AND", "ISZERO">>) \o Val(2^ByteBits)
                           \o Do(<<"MUL", "SUB", "AND">>) \o Val(2) \o Do(<<"SWAP1", "DIV">>)
                      ELSE << >>))

\* length -> the slots or bytes it takes
ConvertLengthToSize(t, pad) ==
  CASE t.loc = "Storage" ->
         IF StorageSize(t.base) > 1 THEN Val(StorageSize(t.base)) \o Do(<<"MUL">>)
         ELSE IF ~ Packed(t.base) THEN << >>
         ELSE LET perSlot == WordBytes \div StorageBytes(t.base)
              IN  Val(perSlot - 1) \o Do(<<"ADD">>) \o Val(perSlot) \o Do(<<"SWAP1", "DIV">>)
    [] t.loc # "Storage" /\ ~ IsByteArray(t) ->
         Val(IF t.loc = "Memory" THEN MemoryHeadSize(t.base) ELSE CalldataEncodedSize(t.base, TRUE)) \o Do(<<"MUL">>)
    [] t.loc # "Storage" /\ IsByteArray(t) ->
         IF pad THEN Val(WordBytes - 1) \o Do(<<"ADD">>) \o Val(WordBytes) \o Do(<<"DUP1", "SWAP2", "DIV", "MUL">>) ELSE << >>

\* ref [length] index -> position, in storage slot byte
AccessIndex(t, check) ==
  LET perSlot == WordBytes \div StorageBytes(t.base)
      place == (IF IsDynamicallySized(t) THEN ComputeHashStatic ELSE << >>) \o Do(<<"SWAP1">>)
               \o (IF Packed(t.base)
                   THEN Val(perSlot) \o Do(<<"SWAP2", "DUP3", "DUP3", "DIV", "ADD", "SWAP2", "SWAP1", "MOD">>)
                        \o (IF StorageBytes(t.base) # 1 THEN Val(StorageBytes(t.base)) \o Do(<<"MUL">>) ELSE << >>)
                   ELSE (IF StorageSize(t.base) # 1 THEN Val(StorageSize(t.base)) \o Do(<<"MUL">>) ELSE << >>)
                        \o Do(<<"ADD">>) \o Val(0))
  IN  (IF check THEN RetrieveLength(t, 1) \o Do(<<"DUP2", "LT", "ISZERO">>) \o AppendConditionalInvalid ELSE << >>)
      \o (IF t.loc = "CallData" /\ IsDynamicallySized(t) THEN Do(<<"SWAP1", "POP">>) ELSE << >>)
      \o Do(<<"SWAP1">>)
      \o IF t.loc = "Storage"
         THEN IF IsByteArray(t)
              THEN Do(<<"SWAP1", "DUP2", "SLOAD">>) \o Val(1) \o Do(<<"AND", "ISZERO">>) \o SkipIf(Do(<<"SWAP1">>) \o place)
              ELSE place
         ELSE (IF t.loc = "Memory" /\ IsDynamicallySized(t) THEN Val(WordBytes) \o Do(<<"ADD">>) ELSE << >>)
              \o (IF IsByteArray(t) THEN << >>
                  ELSE Do(<<"SWAP1">>) \o Val(IF t.loc = "CallData" THEN CalldataEncodedSize(t.base, TRUE) ELSE MemoryHeadSize(t))
                       \o Do(<<"MUL">>))
              \o Do(<<"ADD">>)

\* Moves a byte offset and its slot on the stack to the next element.
IncrementByteOffset(size, offsetPos, slotPos) ==
  LET up == IF offsetPos > 1 THEN Swap(offsetPos - 1) ELSE << >>
  IN  up \o Val(size) \o Do(<<"ADD">>) \o up
      \o Val(WordBytes) \o Dup(1 + offsetPos) \o Val(size - 1) \o Do(<<"ADD", "DIV">>)
      \o Swap(slotPos) \o Dup(slotPos + 1) \o Do(<<"ADD">>) \o Swap(slotPos)
      \o Val(1) \o Do(<<"SUB">>)
      \o (IF offsetPos = 1 THEN Do(<<"MUL">>) ELSE Dup(offsetPos + 1) \o Do(<<"MUL">>) \o Swap(offsetPos) \o Do(<<"POP">>))

\* end pos -> end
ClearStorageLoop(t) == CallLowLevelFunction(LowLevel("clearStorageLoop", t, Null), 2)
ClearStorageLoopBody(t) ==
  IF t.cat = "Mapping" THEN Do(<<"POP">>)
  ELSE Until(Do(<<"DUP1", "DUP3", "GT", "ISZERO">>),
             Val(0) \o StorageSetToZero(t, FALSE) \o Do(<<"POP">>) \o Val(StorageSize(t)) \o Do(<<"ADD">>))
       \o Do(<<"POP">>)
ElementsToClear(t) == IF IsByteArray(t) \/ StorageBytes(t.base) < WordBytes THEN Uint ELSE t.base

\* ref ->
ClearDynamicArray(t) ==
  LET long == ConvertLengthToSize(t, FALSE) \o Do(<<"SWAP1">>) \o ComputeHashStatic \o Do(<<"SWAP1", "DUP2", "ADD", "SWAP1">>)
              \o ClearStorageLoop(ElementsToClear(t))
      short == Do(<<"POP">>) \o <<JumpBy(Len(long))>>
  IN  RetrieveLength(t, 0) \o Val(0) \o Do(<<"DUP3", "SSTORE">>)
      \o (IF IsByteArray(t) THEN Do(<<"DUP1">>) \o Val(WordBytes - 1) \o Do(<<"LT">>) \o SkipIf(short) ELSE << >>)
      \o long \o Do(<<"POP">>)

\* slot byte ->
ClearArray(t) == CallLowLevelFunction(LowLevel("clearArray", t, Null), 2)
ClearArrayBody(t) ==
  Do(<<"POP">>)
  \o CASE IsDynamicallySized(t) -> ClearDynamicArray(t)
       [] ~ IsDynamicallySized(t) /\ (t.length = 0 \/ t.base.cat = "Mapping") -> Do(<<"POP">>)
       [] t.length > 0 /\ IsValueType(t.base) /\ StorageSize(t) <= 5 ->
            Times(StorageSize(t) - 1, Val(0) \o Do(<<"DUP2", "SSTORE">>) \o Val(1) \o Do(<<"ADD">>))
            \o Val(0) \o Do(<<"SWAP1", "SSTORE">>)
       [] t.length \in 1..4 /\ ~ IsValueType(t.base) /\ t.base.cat # "Mapping" ->
            Times(t.length - 1, Val(0) \o StorageSetToZero(t.base, FALSE) \o Do(<<"POP">>) \o Val(StorageSize(t.base)) \o Do(<<"ADD">>))
            \o Val(0) \o StorageSetToZero(t.base, TRUE)
       [] OTHER -> Do(<<"DUP1">>) \o Val(t.length) \o ConvertLengthToSize(t, FALSE) \o Do(<<"ADD", "SWAP1">>)
                   \o ClearStorageLoop(IF StorageBytes(t.base) < WordBytes THEN Uint ELSE t.base) \o Do(<<"POP">>)

\* ref new_length ->
ResizeDynamicArray(t) == CallLowLevelFunction(LowLevel("resizeDynamicArray", t, Null), 2)
ResizeDynamicArrayBody(t) ==
  LET isLong == Val(WordBytes - 1) \o Do(<<"LT">>)
      shrink == ConvertLengthToSize(t, FALSE) \o Do(<<"DUP2">>) \o ConvertLengthToSize(t, FALSE)
                \o Do(<<"DUP4">>) \o ComputeHashStatic \o Do(<<"SWAP2", "DUP3", "ADD", "SWAP2", "ADD">>)
                \o ClearStorageLoop(ElementsToClear(t))
      regular == Do(<<"DUP2">>)
                 \o (IF IsByteArray(t) THEN Do(<<"DUP1", "ADD">>) \o Val(1) \o Do(<<"ADD">>) ELSE << >>)
                 \o Do(<<"DUP4", "SSTORE", "DUP2", "DUP2", "GT", "ISZERO">>) \o SkipIf(shrink)
      toLong == Val(2^ByteBits - 1) \o Do(<<"NOT", "AND", "DUP4">>) \o ComputeHashStatic
                \o Do(<<"SSTORE", "DUP2", "DUP1", "ADD">>) \o Val(1) \o Do(<<"ADD", "DUP4", "SSTORE">>)
      toShort == Do(<<"DUP3">>) \o Val(ByteBits) \o Do(<<"MUL">>) \o Val(WordBits) \o Do(<<"SUB">>) \o Val(2)
                 \o Do(<<"EXP", "DUP1", "SWAP2", "DIV", "MUL", "DUP3", "DUP1", "ADD", "OR", "DUP4", "SSTORE">>)
      fetch == Do(<<"POP", "DUP3">>) \o ComputeHashStatic \o Do(<<"DUP1", "SLOAD", "SWAP1", "DUP3">>)
               \o ConvertLengthToSize(t, FALSE) \o Do(<<"DUP2", "ADD", "SWAP1">>) \o ClearStorageLoop(Uint) \o Do(<<"POP">>)
      \* ref new_length length ref_value: by whether the old and the new length are long
      fromLongRegular == Do(<<"POP">>) \o regular
      fromLong == Do(<<"DUP3">>) \o isLong \o SkipIf(fetch \o toShort \o <<JumpBy(Len(fromLongRegular))>>) \o fromLongRegular
      fromShort == Do(<<"DUP3">>) \o isLong \o SkipIf(toShort \o <<JumpBy(Len(toLong) + 1 + Len(fromLong))>>)
                   \o toLong \o <<JumpBy(Len(fromLong))>>
  IN  RetrieveLength(t, 1)
      \o (IF IsByteArray(t) THEN Do(<<"DUP3", "SLOAD", "DUP2">>) \o isLong \o SkipIf(fromShort) \o fromLong ELSE regular)
      \o PopStackSlots(3)

\* ref -> new_length
IncrementDynamicArraySize(t) ==
  LET grow == Do(<<"DUP3">>) \o StoreInMemory(0) \o Do(<<"DUP2">>) \o Val(2^ByteBits - 1) \o Do(<<"NOT", "AND">>)
              \o Val(WordBytes) \o Val(0) \o Do(<<"KECCAK256", "SSTORE">>)
              \o Val(2 * WordBytes + 1) \o Do(<<"DUP4", "SSTORE">>) \o Val(WordBytes) \o Do(<<"SWAP3", "POP">>)
      add == Val(2) \o Do(<<"DUP3", "ADD", "DUP4", "SSTORE", "DUP2">>) \o Val(1) \o Do(<<"AND">>)
             \o SkipIf(Do(<<"DUP1", "SWAP2", "POP">>))
             \o Val(1) \o Val(2) \o Do(<<"DUP4", "DIV", "ADD", "SWAP3", "POP">>) \o <<JumpBy(Len(grow))>>
  IN  IF IsByteArray(t)      \* ref data shifted_length
      THEN Do(<<"DUP1", "SLOAD", "DUP1">>) \o Val(2 * WordBytes - 1) \o Do(<<"AND">>)
           \o Val(2 * (WordBytes - 1)) \o Do(<<"DUP2", "EQ">>) \o SkipIf(add) \o grow \o PopStackSlots(2)
      ELSE Val(1) \o Do(<<"DUP2", "SLOAD", "ADD", "DUP1", "DUP3", "SSTORE", "SWAP1", "POP">>)

\* Mutant: only the length changes.
PopWithoutClearing(t) ==
  RetrieveLength(t, 0) \o Do(<<"DUP1", "ISZERO">>) \o AppendConditionalInvalid \o Val(1) \o Do(<<"SWAP1", "SUB", "SWAP1", "SSTORE">>)

\* ref ->
PopStorageArrayElement(t) ==
  LET \* ref slot_value
      short == Val(2) \o Do(<<"DUP2", "DIV">>) \o Val(WordBytes - 1) \o Do(<<"AND", "DUP1">>) \o SkipIf(AppendInvalid)
               \* ref slot_value length
               \o Val(1) \o Do(<<"DUP2">>) \o Val(WordBytes + 1) \o Do(<<"SUB">>) \o Val(2^ByteBits) \o Do(<<"EXP", "SUB", "NOT">>)
               \o Do(<<"DUP3", "AND">>) \o Val(2) \o Val(1) \o Do(<<"DUP4", "SUB", "MUL", "OR", "DUP4", "SSTORE", "POP">>)
      \* ref slot_value length slot
      wordToShort == Do(<<"DUP1", "SLOAD">>) \o Val(0) \o Do(<<"DUP3", "SSTORE">>) \o Val(2^ByteBits - 1) \o Do(<<"NOT", "AND">>)
                     \o Val(2 * (WordBytes - 1)) \o Do(<<"OR", "DUP5", "SSTORE">>)
      \* ref slot_value length slot last offset
      last == Val(1) \o Do(<<"DUP3", "SUB">>) \o Val(WordBytes) \o Do(<<"DUP2", "DIV", "DUP3", "ADD", "SWAP1">>)
              \o Val(WordBytes - 1) \o Do(<<"AND">>)
              \o Val(1) \o Do(<<"DUP2">>) \o Val(WordBytes) \o Do(<<"SUB">>) \o Val(2^ByteBits)
              \o Do(<<"EXP", "SUB", "NOT", "DUP3", "SLOAD", "AND", "DUP3", "SSTORE">>)
              \o Val(2) \o Do(<<"DUP6", "SUB", "DUP7", "SSTORE">>) \o PopStackSlots(2)
      long == Do(<<"DUP2">>) \o StoreInMemory(0) \o Val(2) \o Do(<<"DUP2", "DIV">>) \o Val(WordBytes) \o Val(0) \o Do(<<"KECCAK256">>)
              \o Val(WordBytes) \o Do(<<"DUP3", "EQ">>) \o SkipIf(last \o <<JumpBy(Len(wordToShort))>>) \o wordToShort
              \o PopStackSlots(2)
  IN  IF IsByteArray(t)
      THEN Do(<<"DUP1", "SLOAD", "DUP1">>) \o Val(1) \o Do(<<"AND">>) \o SkipIf(short \o <<JumpBy(Len(long))>>) \o long \o PopStackSlots(2)
      ELSE RetrieveLength(t, 0) \o Do(<<"DUP1", "ISZERO">>) \o AppendConditionalInvalid
           \o Val(1) \o Do(<<"SWAP1", "SUB", "DUP2", "DUP2">>) \o AccessIndex(t, FALSE)
           \o StorageSetToZero(t.base, TRUE) \o Do(<<"SWAP1", "SSTORE">>)

\* The size of an element in memory; the elements of an ordinary array are always padded.
ElementSize(t) == IF IsByteArray(t) THEN 1 ELSE CalldataEncodedSize(t.base, TRUE)
ScaleToBytes(t) == IF ElementSize(t) > 1 THEN Val(ElementSize(t)) \o Do(<<"MUL">>) ELSE << >>

\* target source [len] -> target'
CopyCalldataArrayToMemory(t, pad) ==
  (IF IsDynamicallySized(t) THEN << >> ELSE Val(t.length)) \o ScaleToBytes(t)
  \o Do(<<"DUP1", "DUP3", "DUP5", "CALLDATACOPY">>)
  \o (IF pad THEN Val(0) \o Do(<<"DUP2", "DUP5", "ADD", "MSTORE">>) \o Val(WordBytes - 1) \o Do(<<"NOT">>)
                  \o Val(WordBytes - 1) \o Do(<<"DUP3", "ADD", "AND", "SWAP1", "POP">>) ELSE << >>)
  \o Do(<<"DUP1", "DUP4", "ADD", "SWAP3", "POP", "POP", "POP">>)

\* An element that is on the stack goes to memory
CopyElementToMemory(t, pad) ==
  IF t.base.cat = "Array" THEN CopyArrayToMemory(t.base, pad) ELSE StoreInMemoryDynamic(t.base, TRUE)

CopyMemoryArrayElementwise(t, pad) ==
  Val(0) \o Do(<<"SWAP3">>)
  \o Until(Do(<<"DUP2", "DUP5", "LT", "ISZERO">>),
           Do(<<"DUP3", "DUP5">>) \o AccessIndex(t, FALSE)
           \o (IF IsValueType(t.base) THEN LoadFromMemoryDynamic(t.base, FALSE, TRUE, FALSE) ELSE Do(<<"MLOAD">>))
           \o CopyElementToMemory(t, pad) \o Do(<<"SWAP3">>) \o Val(1) \o Do(<<"ADD", "SWAP3">>))
  \o Do(<<"SWAP3">>) \o PopStackSlots(3)

CopyMemoryArrayBytewise(t, pad) ==
  LET size == ElementSize(t)
      padding == pad /\ (IF IsDynamicallySized(t) THEN size % WordBytes # 0 ELSE (t.length * size) % WordBytes # 0)
      roundOff == Do(<<"DUP1", "DUP3", "SUB", "DUP1", "MLOAD">>) \o Val(1) \o Do(<<"DUP4">>) \o Val(WordBytes) \o Do(<<"SUB">>)
                  \o Val(2^ByteBits) \o Do(<<"EXP", "SUB", "NOT", "AND", "DUP2", "MSTORE">>)
                  \o Val(WordBytes) \o Do(<<"ADD", "SWAP2", "POP">>)
  IN  (IF IsDynamicallySized(t) THEN Do(<<"SWAP1">>) \o Val(WordBytes) \o Do(<<"ADD", "SWAP1">>) ELSE << >>)
      \o ScaleToBytes(t) \o Do(<<"DUP1", "DUP4", "DUP4">>)
      \o (IF size % WordBytes = 0 \/ pad THEN MemoryCopy32 ELSE MemoryCopy)
      \o Do(<<"SWAP1", "POP">>)
      \o (IF padding
          THEN Do(<<"SWAP1", "DUP2", "ADD", "SWAP1">>) \o Val(WordBytes - 1) \o Do(<<"AND">>)
               \o (IF IsDynamicallySized(t) THEN Do(<<"DUP1", "ISZERO">>) \o SkipIf(roundOff) ELSE roundOff)
               \o Do(<<"POP">>)
          ELSE Do(<<"ADD">>))

CopyStorageArrayToMemory(t, pad) ==
  LET haveByteOffset == ~ IsByteArray(t) /\ Packed(t.base)
      \* memory_end slot [byte] memory_offset
      slotwise ==
        ScaleToBytes(t) \o Do(<<"DUP3", "ADD", "SWAP2">>)
        \o (IF IsDynamicallySized(t) THEN Do(<<"SWAP1">>) \o ComputeHashStatic \o Do(<<"SWAP1">>) ELSE << >>)
        \o (IF haveByteOffset THEN Val(0) \o Do(<<"SWAP1">>) ELSE << >>)
        \o Repeat(
             (IF IsByteArray(t)
              THEN Do(<<"DUP2", "SLOAD", "DUP2", "MSTORE", "SWAP1">>) \o Val(1) \o Do(<<"ADD", "SWAP1">>) \o Val(WordBytes) \o Do(<<"ADD">>)
              ELSE (IF haveByteOffset THEN Do(<<"DUP3", "DUP3">>) ELSE Do(<<"DUP2">>) \o Val(0))
                   \o StorageRetrieve(t.base, TRUE) \o CopyElementToMemory(t, pad)
                   \o (IF haveByteOffset THEN IncrementByteOffset(StorageBytes(t.base), 2, 3)
                       ELSE Do(<<"SWAP1">>) \o Val(StorageSize(t.base)) \o Do(<<"ADD", "SWAP1">>)))
             \o Do(<<"DUP1">>) \o Dup(IF haveByteOffset THEN 5 ELSE 4) \o Do(<<"GT">>))
        \o (IF haveByteOffset THEN Do(<<"SWAP1", "POP">>) ELSE << >>)
        \o (IF pad /\ ElementSize(t) % WordBytes # 0
            THEN Do(<<"DUP3", "SWAP1", "SUB">>) \o Val(WordBytes - 1) \o Do(<<"AND", "DUP3", "ADD", "SWAP2">>) ELSE << >>)
      short == Val(2^ByteBits) \o Do(<<"DUP1", "DUP4", "SLOAD", "DIV", "MUL", "DUP4", "MSTORE", "SWAP2">>)
               \o (IF pad THEN Val(WordBytes) ELSE Do(<<"DUP3">>)) \o Do(<<"ADD", "SWAP2">>) \o <<JumpBy(Len(slotwise))>>
  IN  RetrieveLength(t, 0) \o Do(<<"DUP1", "ISZERO">>)
      \o SkipIf((IF IsByteArray(t) THEN Do(<<"DUP1">>) \o Val(WordBytes - 1) \o Do(<<"LT">>) \o SkipIf(short) ELSE << >>) \o slotwise)
      \o PopStackSlots(2)

\* mempos ref [length] -> mempos'
CopyArrayToMemory(t, pad) ==
  Expect(~ IsDynamicallySized(t.base) /\ (IsByteArray(t) \/ ElementSize(t) >= WordBytes))
  \o CASE t.loc = "CallData" -> CopyCalldataArrayToMemory(t, pad)
       [] t.loc = "Memory" -> RetrieveLength(t, 0) \o (IF IsValueType(t.base) THEN CopyMemoryArrayBytewise(t, pad)
                                                       ELSE CopyMemoryArrayElementwise(t, pad))
       [] t.loc = "Storage" -> CopyStorageArrayToMemory(t, pad)

\* source [length] target -> target: the target is cleared where it was larger.
SourceBase(t) == IF IsByteArray(t) THEN Uint ELSE t.base
CopyArrayToStorage(target, source) ==
  Concat([k \in 1..SizeOnStack(source) |-> Swap(SizeOnStack(source) + 1 - k)])
  \o (IF source.loc # "CallData" \/ ~ IsDynamicallySized(source) THEN RetrieveLength(source, 0) ELSE << >>)
  \o (IF source.loc = "Memory" /\ IsDynamicallySized(source) THEN Do(<<"SWAP1">>) \o Val(WordBytes) \o Do(<<"ADD", "SWAP1">>) ELSE << >>)
  \o CallLowLevelFunction(LowLevel("copyArrayToStorage", source, target), 3)

\* The elements of type from at source_data_pos are copied one by one to elements of
\* type to at target_data_pos.  A value of the same type in storage is copied slot by
\* slot, and an offset into a slot is kept for each side that needs one.
\* target_data_pos source_data_end source_data_pos [target_byte] [source_byte]
CopyElementsToStorage(source, target) ==
  LET to == SourceBase(target)
      from == SourceBase(source)
      inStorage == source.loc = "Storage"
      direct == inStorage /\ IsValueType(from) /\ SameType(from, to)
      byteSource == ~ direct /\ inStorage /\ Packed(from)
      byteTarget == ~ direct /\ Packed(to)
      n == (IF byteSource THEN 1 ELSE 0) + (IF byteTarget THEN 1 ELSE 0)
      value == Dup(3 + n)
               \o (IF inStorage THEN (IF byteSource THEN Do(<<"DUP2">>) ELSE Val(0)) \o StorageRetrieve(from, TRUE)
                   ELSE IF IsValueType(from) THEN LoadFromMemoryDynamic(from, source.loc = "CallData", TRUE, FALSE)
                   ELSE Fail("unimplemented"))
               \o Dup(2 + n + SizeOnStack(from)) \o (IF byteTarget THEN Dup(1 + n + SizeOnStack(from)) ELSE Val(0))
               \o StorageStore(to, from, TRUE)
      copy == CASE from.cat = "Array" ->
                     Do(<<"DUP3">>) \o (IF from.loc = "Memory" THEN Do(<<"MLOAD">>) ELSE << >>) \o Do(<<"DUP3">>)
                     \o CopyArrayToStorage(to, from) \o Do(<<"POP">>)
                [] from.cat # "Array" /\ direct -> Do(<<"DUP3", "SLOAD", "DUP3", "SSTORE">>)
                [] OTHER -> value
      nextSource == IF byteSource THEN IncrementByteOffset(StorageBytes(from), 1, IF byteTarget THEN 5 ELSE 4)
                    ELSE Swap(2 + n) \o Val(IF inStorage THEN StorageSize(from)
                                            ELSE IF source.loc = "Memory" THEN MemoryHeadSize(from) ELSE CalldataEncodedSize(from, TRUE))
                         \o Do(<<"ADD">>) \o Swap(2 + n)
      nextTarget == IF byteTarget THEN IncrementByteOffset(StorageBytes(to), n, n + 2)
                    ELSE Swap(1 + n) \o Val(StorageSize(to)) \o Do(<<"ADD">>) \o Swap(1 + n)
      \* clears the elements left over in the last slot of the target
      clearSlot == Until(Dup(n) \o Do(<<"ISZERO">>),
                         Dup(2 + n) \o Dup(1 + n) \o StorageSetToZero(to, TRUE) \o IncrementByteOffset(StorageBytes(to), n, n + 2))
                   \o Do(<<"POP">>)
  IN  (IF byteTarget THEN Val(0) ELSE << >>) \o (IF byteSource THEN Val(0) ELSE << >>)
      \o Until(Dup(3 + n) \o Dup(2 + n) \o Do(<<"GT", "ISZERO">>), copy \o nextSource \o nextTarget)
      \o (IF byteTarget THEN clearSlot ELSE << >>) \o (IF byteSource THEN Do(<<"POP">>) ELSE << >>)

\* target_ref source_ref source_length -> target_ref
CopyArrayToStorageBody(source, target) ==
  LET inStorage == source.loc = "Storage"
      loop == (IF inStorage /\ IsDynamicallySized(source) THEN ComputeHashStatic ELSE << >>)
              \o Do(<<"SWAP2">>) \o ConvertLengthToSize(source, FALSE) \o Do(<<"DUP3", "ADD">>)
              \o CopyElementsToStorage(source, target)
      whole == Do(<<"DUP3", "ISZERO">>) \o SkipIf(loop)
      long == Do(<<"DUP3", "DUP1", "ADD">>) \o Val(1) \o Do(<<"ADD", "DUP6", "SSTORE">>) \o whole
      short == (IF inStorage THEN Do(<<"DUP1", "SLOAD", "DUP6", "SSTORE">>)
                ELSE Do(<<"DUP1">>) \o LoadFromMemoryDynamic(SourceBase(source), source.loc = "CallData", TRUE, FALSE)
                     \o Val(2^ByteBits - 1) \o Do(<<"NOT", "AND", "DUP4", "DUP1", "ADD", "OR", "DUP6", "SSTORE">>))
               \o <<JumpBy(Len(long))>>
  IN  Do(<<"DUP3">>) \o RetrieveLength(target, 0)
      \o (IF IsDynamicallySized(target) /\ ~ IsByteArray(target) THEN Do(<<"DUP3", "DUP3", "SSTORE">>) ELSE << >>)
      \o IF SourceBase(source).cat = "Mapping" THEN PopStackSlots(4)
         ELSE Do(<<"SWAP1">>) \o (IF IsDynamicallySized(target) THEN ComputeHashStatic ELSE << >>)
              \o Do(<<"SWAP1">>) \o ConvertLengthToSize(target, FALSE) \o Do(<<"DUP2", "ADD", "SWAP3">>)
              \* target_ref target_data_end source_length target_data_pos source_ref
              \o (IF IsByteArray(target) THEN Do(<<"DUP3">>) \o Val(WordBytes - 1) \o Do(<<"LT">>) \o SkipIf(short) \o long ELSE whole)
              \o Do(<<"POP", "SWAP1", "POP">>) \o ClearStorageLoop(SourceBase(target)) \o Do(<<"POP">>)

-----------------------------------------------------------------------------
(* CompilerUtils::convertType.  cleanup: the higher order bits may be      *)
(* dirty and must not be afterwards; chop: the sign bits are cut off;      *)
(* decoding: the value is an argument and not trusted.                     *)

ConvertFixedBytes(t, to, cleanup) ==
  CASE to.cat = "Integer" ->
         RightShiftNumberOnStack(WordBits - t.bytes * ByteBits)
         \o (IF to.bits < t.bytes * ByteBits THEN ConvertType(Integer(t.bytes * ByteBits, FALSE), to, cleanup, FALSE, FALSE) ELSE << >>)
    [] to.cat = "Address" -> Expect(t.bytes = AddressBytes) \o RightShiftNumberOnStack(WordBits - AddressBits)
    [] to.cat = "FixedBytes" ->
         IF t.bytes = 0 \/ to.bytes = 0 THEN Do(<<"POP">>) \o Val(0)
         ELSE IF to.bytes > t.bytes \/ cleanup
         THEN Mask(WordBytes - Min({t.bytes, to.bytes})) \o Do(<<"NOT", "AND">>) ELSE << >>
    [] OTHER -> Fail("conversion")

CheckEnum(name, decoding) ==
  Val(Len(Enums[name]) - 1) \o Do(<<"DUP2", "GT">>)
  \o (IF decoding THEN AppendConditionalRevert(FALSE) ELSE AppendConditionalInvalid)

\* from Address, Integer, Contract and RationalNumber
ConvertNumber(t, to, cleanup, chop) ==
  LET as(x) == IF x.cat = "Integer" THEN x ELSE Integer(AddressBits, FALSE)
  IN  CASE to.cat = "FixedBytes" ->
             Expect(t.cat # "Contract" /\ (t.cat = "Address" => to.bytes = AddressBytes))
             \o (IF t.cat = "Integer" /\ to.bytes * ByteBits > t.bits THEN CleanHigherOrderBits(t) ELSE << >>)
             \o LeftShiftNumberOnStack(WordBits - to.bytes * ByteBits)
        [] to.cat = "Enum" ->
             Expect(t.cat # "Address" /\ MobileType(t) # Null)
             \o ConvertType(t, MobileType(t), TRUE, FALSE, FALSE) \o CheckEnum(to.name, FALSE)
        [] to.cat \in {"Integer", "Contract", "Address"} ->
             IF t.cat = "RationalNumber"
             THEN Expect(~ IsFractional(t) /\ ~ (chop /\ to.cat = "Integer" /\ to.signed))
                  \o (IF as(to).bits < IntegerTypeOf(t).bits /\ cleanup THEN CleanHigherOrderBits(as(to)) ELSE << >>)
             ELSE (IF as(to).bits > as(t).bits THEN CleanHigherOrderBits(as(t))
                   ELSE IF cleanup THEN CleanHigherOrderBits(as(to)) ELSE << >>)
                  \o (IF chop /\ to.cat = "Integer" /\ to.signed /\ as(t).bits < WordBits
                      THEN Val(2^as(t).bits - 1) \o Do(<<"AND">>) ELSE << >>)
        [] OTHER -> Fail("conversion")

ConvertStringLiteral(t, to) ==
  CASE to.cat = "FixedBytes" ->
         Val(LiteralWord(t.value, 0) - (LiteralWord(t.value, 0) % 2^(WordBits - ByteBits * to.bytes)))
    [] to.cat = "Array" /\ IsByteArray(to) ->
         Val(WordBytes + RoundUp(Len(t.value))) \o AllocateMemory \o Do(<<"DUP1">>) \o Val(Len(t.value))
         \o StoreInMemoryDynamic(Uint, TRUE) \o StoreStringData(t.value)
    [] OTHER -> Fail("conversion")

\* Copies an array to memory unless it is there.
ConvertArray(t, to, cleanup) ==
  LET size == SizeOnStack(t)
      dynamic == IsDynamicallySized(to)
      \* mem_start source length counter mem_data_pos
      elementwise ==
        Val(0) \o Do(<<"SWAP1">>)
        \o Until(Do(<<"DUP3", "DUP3", "LT", "ISZERO">>),
                 CopyToStackTop(3 + size, size) \o CopyToStackTop(2 + size, 1) \o AccessIndex(t, FALSE)
                 \o (IF t.loc = "Storage" THEN StorageRetrieve(t.base, TRUE) ELSE << >>)
                 \o ConvertType(t.base, to.base, cleanup, FALSE, FALSE) \o StoreInMemoryDynamic(to.base, TRUE)
                 \o Do(<<"SWAP1">>) \o Val(1) \o Do(<<"ADD", "SWAP1">>))
        \o Do(<<"POP">>)
  IN  CASE to.loc = "Storage" -> Expect((to.pointer \/ (IsByteArray(t) /\ IsByteArray(to))) /\ t.loc = "Storage")
        [] to.loc = "CallData" -> Expect(IsByteArray(to) /\ IsByteArray(t) /\ t.loc = "CallData")
        [] to.loc = "Memory" ->
             IF t.loc = "Memory" THEN << >>
             ELSE RetrieveLength(t, 0) \o Do(<<"DUP1">>) \o ConvertLengthToSize(to, TRUE)
                  \o (IF dynamic THEN Val(WordBytes) \o Do(<<"ADD">>) ELSE << >>)
                  \o AllocateMemory \o Do(<<"DUP1">>) \o MoveIntoStack(2 + size, 1)
                  \o (IF dynamic THEN Do(<<"DUP2">>) \o StoreInMemoryDynamic(Uint, TRUE) ELSE << >>)
                  \* mem_start source length mem_data_pos
                  \o (IF IsValueType(to.base) THEN CopyToStackTop(2 + size, size) \o CopyArrayToMemory(t, TRUE) ELSE elementwise)
                  \o PopStackSlots(2 + size)

ConvertStruct(t, to) ==
  LET members == SelectSeq(StructMembers(t), LAMBDA m : CanLiveOutsideStorage(m.type))
      member(m) ==
        LET offsets == StorageOffsetsOfMember(t, m.name)
            target == StructMembers(to)[MemberIndex(to, m.name)].type
        IN  Val(offsets[1]) \o Do(<<"DUP3", "ADD">>) \o Val(offsets[2]) \o StorageRetrieve(m.type, TRUE)
            \o ConvertType(m.type, target, TRUE, FALSE, FALSE) \o StoreInMemoryDynamic(target, TRUE)
  IN  CASE to.loc = "Storage" -> Expect(to.pointer /\ t.loc = "Storage")
        [] to.loc = "CallData" -> Fail("conversion")
        [] to.loc = "Memory" ->
             IF t.loc = "Memory" THEN << >>
             ELSE Expect(t.loc = "Storage") \o Val(MemorySize(t)) \o AllocateMemory \o Do(<<"SWAP1", "DUP2">>)
                  \o Concat([k \in 1..Len(members) |-> member(members[k])]) \o PopStackSlots(2)

\* Converts one component after the other and moves it back into its place.
ConvertTuple(t, to, cleanup) ==
  LET from == t.components
      sizeOf(x) == IF x = Null THEN 0 ELSE SizeOnStack(x)
      depth[k \in 1..(Len(from) + 1)] == IF k = 1 THEN SizeOnStack(t) ELSE depth[k - 1] - sizeOf(from[k - 1])
      component(k) ==
        LET s == sizeOf(from[k])
            g == sizeOf(to.components[k])
        IN  IF from[k] = Null THEN Expect(to.components[k] = Null)
            ELSE IF to.components[k] # Null /\ SameType(from[k], to.components[k]) /\ ~ cleanup THEN << >>
            ELSE (IF to.components[k] = Null THEN << >>
                  ELSE CopyToStackTop(depth[k], s) \o ConvertType(from[k], to.components[k], cleanup, FALSE, FALSE))
                 \o Times(Min({s, g}), Swap(depth[k] + g - s) \o Do(<<"POP">>))
                 \o Times(s - Min({s, g}), MoveToStackTop(depth[k] - 1, 1) \o Do(<<"POP">>))
                 \o (IF g > s THEN MoveIntoStack(depth[k] + g - s - 1, g - s) ELSE << >>)
  IN  Expect(Len(from) = Len(to.components)) \o Concat([k \in 1..Len(from) |-> component(k)])

ConvertType(t, to, cleanup, chop, decoding) ==
  IF SameType(t, to) /\ ~ cleanup THEN << >>
  ELSE CASE t.cat = "FixedBytes" -> ConvertFixedBytes(t, to, cleanup)
         [] t.cat = "Enum" -> Expect(t = to \/ to.cat = "Integer") \o CheckEnum(t.name, decoding)
         [] t.cat = "FixedPoint" -> Fail("unimplemented")
         [] t.cat \in {"Address", "Integer", "Contract", "RationalNumber"} -> ConvertNumber(t, to, cleanup, chop)
         [] t.cat = "StringLiteral" -> ConvertStringLiteral(t, to)
         [] t.cat = "Array" -> IF to.cat = "Array" THEN ConvertArray(t, to, cleanup) ELSE Fail("conversion")
         [] t.cat = "Struct" -> IF to.cat = "Struct" THEN ConvertStruct(t, to) ELSE Fail("conversion")
         [] t.cat = "Tuple" -> ConvertTuple(t, to, cleanup)
         [] t.cat = "Bool" -> Expect(to = t) \o (IF cleanup THEN Do(<<"ISZERO", "ISZERO">>) ELSE << >>)
         [] t.cat = "Function" /\ to.cat = "Address" -> Expect(t.kind = "External") \o Do(<<"POP">>)
         [] OTHER ->
              Expect(IF t.cat = "Function" /\ to.cat = "Function"
                     THEN /\ IsImplicitlyConvertibleTo(t, to) /\ SizeOnStack(t) = SizeOnStack(to)
                          /\ t.kind \in {"Internal", "External"} /\ t.kind = to.kind
                     ELSE SameType(t, to))
              \o (IF cleanup /\ CanBeStored(to) /\ StorageBytes(to) < WordBytes THEN Mask(StorageBytes(to)) \o Do(<<"AND">>) ELSE << >>)

-----------------------------------------------------------------------------
(* LValue: places that can be read, written and deleted.  A reference to a *)
(* place in storage is slot byte, one to memory its address.               *)

\* slot byte -> [slot byte] value
StorageRetrieve(t, remove) ==
  IF ~ IsValueType(t) THEN Do(IF remove THEN <<"POP">> ELSE <<"DUP2">>)
  ELSE (IF remove THEN << >> ELSE CopyToStackTop(2, 2))
       \o IF StorageBytes(t) = WordBytes THEN Do(<<"POP", "SLOAD">>)
          ELSE Do(<<"SWAP1", "SLOAD", "SWAP1">>) \o Val(2^ByteBits) \o Do(<<"EXP", "SWAP1", "DIV">>)
               \o CASE t.cat = "FixedPoint" -> Fail("unimplemented")
                    [] t.cat = "FixedBytes" -> LeftShiftNumberOnStack(WordBits - ByteBits * StorageBytes(t))
                    [] t.cat = "Integer" /\ t.signed -> Val(StorageBytes(t) - 1) \o Do(<<"SIGNEXTEND">>)
                    [] IsExternalFunction(t) -> SplitExternalFunctionType(FALSE)
                    [] OTHER -> Mask(StorageBytes(t)) \o Do(<<"AND">>)

\* Mutant: the higher order bits are not cleaned.
StorageStoreUncleaned(t, source, move) ==
  Val(2^ByteBits) \o Do(<<"EXP", "DUP2", "SLOAD", "DUP2">>) \o Mask(StorageBytes(t)) \o Do(<<"MUL", "NOT", "AND", "SWAP1">>)
  \o CopyToStackTop(3 + SizeOnStack(t), SizeOnStack(t))
  \o Do(<<"MUL", "OR", "SWAP1", "SSTORE">>) \o (IF move THEN PopStackSlots(SizeOnStack(t)) ELSE << >>)

\* value slot byte -> [value]: the other bytes of the slot stay as they are.
StorageStoreValue(t, source, move) ==
  IF StorageBytes(t) = WordBytes
  THEN Do(<<"POP">>) \o (IF move THEN << >> ELSE Do(<<"DUP2", "SWAP1">>))
       \o Do(<<"SWAP1">>) \o ConvertType(source, t, TRUE, FALSE, FALSE) \o Do(<<"SWAP1", "SSTORE">>)
  ELSE Val(2^ByteBits) \o Do(<<"EXP", "DUP2", "SLOAD", "DUP2">>) \o Mask(StorageBytes(t)) \o Do(<<"MUL", "NOT", "AND", "SWAP1">>)
       \* value slot cleared_value multiplier
       \o CopyToStackTop(3 + SizeOnStack(t), SizeOnStack(t))
       \o (CASE t.cat = "Function" ->
                  Expect(SameType(source, t))
                  \o (IF t.kind = "External" THEN CombineExternalFunctionType(FALSE) ELSE Mask(StorageBytes(t)) \o Do(<<"AND">>))
             [] t.cat = "FixedBytes" -> Expect(source.cat = "FixedBytes") \o RightShiftNumberOnStack(WordBits - ByteBits * t.bytes)
             [] OTHER -> ConvertType(source, t, TRUE, TRUE, FALSE))
       \o Do(<<"MUL", "OR", "SWAP1", "SSTORE">>)
       \o (IF move THEN PopStackSlots(SizeOnStack(t)) ELSE << >>)

\* source_ref slot byte -> [slot]: all members but the mappings
StorageStoreStruct(t, source, move) ==
  LET kept == SelectSeq(StructMembers(t), LAMBDA m : m.type.cat # "Mapping")
      member(m) ==
        LET from == StructMembers(source)[MemberIndex(source, m.name)].type
            offsets == StorageOffsetsOfMember(t, m.name)
        IN  (IF source.loc = "Storage"
             THEN Val(StorageOffsetsOfMember(source, m.name)[1]) \o Do(<<"DUP3", "ADD">>)
                  \o Val(StorageOffsetsOfMember(source, m.name)[2]) \o StorageRetrieve(from, TRUE)
             ELSE Val(MemoryOffsetOfMember(source, m.name)) \o Do(<<"DUP3", "ADD">>)
                  \o (IF IsValueType(from) THEN LoadFromMemoryDynamic(from, FALSE, TRUE, FALSE) ELSE Do(<<"MLOAD">>)))
            \o Dup(1 + SizeOnStack(from)) \o Val(offsets[1]) \o Do(<<"ADD">>) \o Val(offsets[2])
            \o StorageStore(m.type, from, TRUE)
  IN  Expect(t.name = source.name /\ source.loc # "CallData") \o Do(<<"POP">>)
      \o Concat([k \in 1..Len(kept) |-> member(kept[k])])
      \o (IF move THEN PopStackSlots(2) ELSE Do(<<"SWAP1", "POP">>))

StorageStore(t, source, move) ==
  IF IsValueType(t) THEN StorageStoreValue(t, source, move)
  ELSE IF source.cat # t.cat THEN Fail("assignment")
  ELSE CASE t.cat = "Array" -> Do(<<"POP">>) \o CopyArrayToStorage(t, source) \o (IF move THEN Do(<<"POP">>) ELSE << >>)
         [] t.cat = "Struct" -> StorageStoreStruct(t, source, move)
         [] OTHER -> Fail("assignment")

\* slot byte -> [slot byte]
StorageSetToZero(t, remove) ==
  LET kept == SelectSeq(StructMembers(t), LAMBDA m : m.type.cat # "Mapping")
      member(m) == Val(StorageOffsetsOfMember(t, m.name)[1]) \o Do(<<"DUP3", "ADD">>)
                   \o Val(StorageOffsetsOfMember(t, m.name)[2]) \o StorageSetToZero(m.type, TRUE)
      keep == IF remove THEN << >> ELSE CopyToStackTop(2, 2)
  IN  CASE t.cat = "Array" -> keep \o ClearArray(t)
        [] t.cat = "Struct" ->
             Concat([k \in 1..Len(kept) |-> member(kept[k])]) \o (IF remove THEN PopStackSlots(2) ELSE << >>)
        [] ~ IsReference(t) /\ IsValueType(t) ->
             keep \o (IF StorageBytes(t) = WordBytes THEN Do(<<"POP">>) \o Val(0) \o Do(<<"SWAP1", "SSTORE">>)
                      ELSE Val(2^ByteBits) \o Do(<<"EXP", "DUP2", "SLOAD", "SWAP1">>) \o Mask(StorageBytes(t))
                           \o Do(<<"MUL", "NOT", "AND", "SWAP1", "SSTORE">>))
        [] OTHER -> Fail("clearing")

\* value address -> [value]
MemoryStore(t, source, padded, move) ==
  LET size == SizeOnStack(t)
  IN  IF IsValueType(t)
      THEN Expect(IsValueType(source)) \o MoveIntoStack(SizeOnStack(source), 1) \o ConvertType(source, t, TRUE, FALSE, FALSE)
           \o (IF move THEN << >> ELSE MoveToStackTop(size, 1) \o CopyToStackTop(1 + size, size))
           \o (IF padded THEN StoreInMemoryDynamic(t, TRUE) \o Do(<<"POP">>)
               ELSE Expect(CalldataEncodedSize(t, FALSE) = 1)
                    \o (IF t.cat = "FixedBytes" THEN Val(0) \o Do(<<"BYTE">>) ELSE << >>) \o Do(<<"SWAP1", "MSTORE8">>))
      ELSE Expect(SameType(source, t)) \o (IF move THEN << >> ELSE Do(<<"DUP2", "SWAP1">>)) \o Do(<<"MSTORE">>)

\* Places: a stack variable at the height base, memory, storage, an element of bytes in
\* storage, the length of an array, a tuple of places (Null where there is none).
StackVariable(t, base) == [place |-> "Stack", type |-> t, base |-> base]
MemoryItem(t, padded) == [place |-> "Memory", type |-> t, padded |-> padded]
StorageItem(t) == [place |-> "Storage", type |-> t]
StorageByteArrayElement == [place |-> "ByteArrayElement", type |-> FixedBytes(1)]
StorageArrayLength(t) == [place |-> "ArrayLength", type |-> Uint, array |-> t]
TupleObject(places) == [place |-> "Tuple", places |-> places]

RECURSIVE LValueSize(_), StoreValue(_, _, _, _)
LValueSize(lv) ==
  CASE lv.place = "Stack" -> 0
    [] lv.place \in {"Memory", "ArrayLength"} -> 1
    [] lv.place \in {"Storage", "ByteArrayElement"} -> 2
    [] lv.place = "Tuple" ->
         LET sum[k \in 0..Len(lv.places)] ==
               IF k = 0 THEN 0 ELSE sum[k - 1] + (IF lv.places[k] = Null THEN 0 ELSE LValueSize(lv.places[k]))
         IN  sum[Len(lv.places)]

StackRetrieve(lv, height) == CopyToStackTop(height - lv.base, SizeOnStack(lv.type))
MemoryRetrieve(lv, remove) ==
  IF IsValueType(lv.type)
  THEN (IF remove THEN << >> ELSE Do(<<"DUP1">>)) \o LoadFromMemoryDynamic(lv.type, FALSE, lv.padded, FALSE)
  ELSE Do(<<"MLOAD">>)
ByteArrayElementRetrieve(remove) ==
  Do(IF remove THEN <<"SWAP1", "SLOAD", "SWAP1", "BYTE">> ELSE <<"DUP2", "SLOAD", "DUP2", "BYTE">>)
  \o Val(2^(WordBits - ByteBits)) \o Do(<<"MUL">>)
ArrayLengthRetrieve(lv, remove) == RetrieveLength(lv.array, 0) \o (IF remove THEN Do(<<"SWAP1", "POP">>) ELSE << >>)

\* The code for a stack of the given height.
RetrieveValue(lv, height, remove) ==
  CASE lv.place = "Stack" -> StackRetrieve(lv, height)
    [] lv.place = "Memory" -> MemoryRetrieve(lv, remove)
    [] lv.place = "Storage" -> StorageRetrieve(lv.type, remove)
    [] lv.place = "ByteArrayElement" -> ByteArrayElementRetrieve(remove)
    [] lv.place = "ArrayLength" -> ArrayLengthRetrieve(lv, remove)
    [] lv.place = "Tuple" -> Fail("tuple")

\* TupleObject::storeValue: the last place is written first; each value is copied to the
\* top and the reference of its place moved above it.
StoreTuple(lv, source, height) ==
  LET n == Len(lv.places)
      size(k) == SizeOnStack(source.components[k])
      reference(k) == IF lv.places[k] = Null THEN 0 ELSE LValueSize(lv.places[k])
      \* before place k is written: the depth of the values done, and the stack
      valuePos[k \in 0..n] == IF k = n THEN LValueSize(lv)
                              ELSE IF lv.places[k + 1] = Null THEN valuePos[k + 1] ELSE valuePos[k + 1] + size(k + 1) - reference(k + 1)
      now[k \in 0..n] == IF k = n THEN height ELSE now[k + 1] - reference(k + 1)
      place(k) ==
        IF lv.places[k] = Null THEN Expect(source.components[k] = Null)
        ELSE CopyToStackTop(valuePos[k] + size(k), size(k)) \o MoveToStackTop(size(k), reference(k))
             \o StoreValue(lv.places[k], source.components[k], now[k] + size(k), TRUE)
  IN  Expect(Len(source.components) = n) \o Concat([k \in 1..n |-> place(n + 1 - k)]) \o PopStackSlots(SizeOnStack(source))

StackStore(lv, height, move) ==
  LET size == SizeOnStack(lv.type)
      diff == height - lv.base - size
  IN  (IF diff > 0 THEN Times(size, Swap(diff) \o Do(<<"POP">>)) ELSE << >>)
      \o (IF move THEN << >> ELSE StackRetrieve(lv, height - size))
ByteArrayElementStore(move) ==
  Val(WordBytes - 1) \o Do(<<"SUB">>) \o Val(2^ByteBits) \o Do(<<"EXP", "DUP2", "SLOAD", "DUP2">>)
  \o Val(2^ByteBits - 1) \o Do(<<"MUL", "NOT", "AND", "SWAP1">>)
  \o Val(2^(WordBits - ByteBits)) \o Do(<<"DUP5", "DIV", "MUL", "OR", "SWAP1", "SSTORE">>)
  \o (IF move THEN Do(<<"POP">>) ELSE << >>)
ArrayLengthStore(lv, move) == Do(IF move THEN <<"SWAP1">> ELSE <<"DUP2">>) \o ResizeDynamicArray(lv.array)

StoreValue(lv, source, height, move) ==
  CASE lv.place = "Stack" -> StackStore(lv, height, move)
    [] lv.place = "Memory" -> MemoryStore(lv.type, source, lv.padded, move)
    [] lv.place = "Storage" -> StorageStore(lv.type, source, move)
    [] lv.place = "ByteArrayElement" -> ByteArrayElementStore(move)
    [] lv.place = "ArrayLength" -> ArrayLengthStore(lv, move)
    [] lv.place = "Tuple" -> StoreTuple(lv, source, height)

StackSetToZero(lv, height) == PushZeroValue(lv.type) \o StackStore(lv, height + SizeOnStack(lv.type), TRUE)
MemorySetToZero(lv) == PushZeroValue(lv.type) \o StoreInMemoryDynamic(lv.type, lv.padded) \o Do(<<"POP">>)
ByteArrayElementSetToZero ==
  Val(WordBytes - 1) \o Do(<<"SUB">>) \o Val(2^ByteBits) \o Do(<<"EXP", "DUP2", "SLOAD", "SWAP1">>)
  \o Val(2^ByteBits - 1) \o Do(<<"MUL", "NOT", "AND", "SWAP1", "SSTORE">>)

SetToZero(lv, height, remove) ==
  CASE lv.place = "Stack" -> StackSetToZero(lv, height)
    [] lv.place = "Memory" -> Expect(remove) \o MemorySetToZero(lv)
    [] lv.place = "Storage" -> StorageSetToZero(lv.type, remove)
    [] lv.place = "ByteArrayElement" -> Expect(remove) \o ByteArrayElementSetToZero
    [] lv.place = "ArrayLength" -> Expect(remove) \o ClearDynamicArray(lv.array)
    [] lv.place = "Tuple" -> Fail("tuple")

-----------------------------------------------------------------------------
(* CompilerUtils: the ABI encoder and decoder of the first version.        *)

\* v1 ... vn mem -> mem': heads first, then the dynamic parts
EncodeToMemory(given, targets, pad, inPlace, library) ==
  LET types == [k \in 1..Len(given) |-> FullEncodingType(IF targets = << >> THEN given[k] ELSE targets[k], library, FALSE, ~ pad)]
      n == Len(given)
      argSize == SizesOnStack(given)
      dynamic(k) == IsDynamicallySized(types[k]) /\ ~ inPlace
      dynamics(k) == Cardinality({j \in 1..k : dynamic(j)})
      pos(k) == SizesOnStack(SubSeq(given, 1, k - 1))
      delayed(t) == DataStoredIn(t, "Storage") \/ DataStoredIn(t, "CallData") \/ t.cat \in {"StringLiteral", "Function"}
      forwarded(k) == DataStoredIn(given[k], "Storage") /\ IsValueType(types[k])
      stored(k) == IF ~ forwarded(k) /\ delayed(given[k]) THEN given[k] ELSE types[k]
      head(k) ==
        IF dynamic(k) THEN Do(<<"DUP1">>) \o Val(WordBytes) \o Do(<<"ADD">>) \o Expect(argSize + dynamics(k) < 16)
        ELSE CopyToStackTop(argSize - pos(k) + dynamics(k) + 2, SizeOnStack(given[k]))
             \o (IF forwarded(k) THEN Expect(library /\ SizeOnStack(given[k]) = 1)
                 ELSE IF delayed(given[k]) THEN << >> ELSE ConvertType(given[k], types[k], TRUE, FALSE, FALSE))
             \o (IF stored(k).cat = "Array" THEN CopyArrayToMemory(stored(k), pad) ELSE StoreInMemoryDynamic(stored(k), pad))
      r == dynamics(n)
      size(k) == SizeOnStack(given[k])
      tail(k) ==
        IF ~ dynamic(k) THEN << >>
        ELSE Dup(2 + r) \o Do(<<"DUP2", "SUB">>) \o Dup(2 + r - dynamics(k - 1)) \o Do(<<"MSTORE">>)
             \o (IF given[k].cat = "StringLiteral"
                 THEN Val(Len(given[k].value)) \o StoreInMemoryDynamic(Uint, TRUE) \o StoreInMemoryDynamic(given[k], pad)
                 ELSE Expect(given[k].cat = "Array") \o CopyToStackTop(argSize - pos(k) + r + 2, size(k)) \o Dup(1 + size(k))
                      \o RetrieveLength(given[k], 1) \o StoreInMemoryDynamic(Uint, TRUE) \o Swap(size(k) + 1) \o Do(<<"POP">>)
                      \o CopyArrayToMemory(given[k], pad))
  IN  IF \E k \in 1..n : types[k] = Null THEN Fail("unimplemented")
      ELSE IF n = 0 THEN << >>
      ELSE Do(<<"DUP1">>) \o Concat([k \in 1..n |-> head(k)]) \o Concat([k \in 1..n |-> tail(k)])
           \o Swap(argSize + r + 1) \o PopStackSlots(argSize + r + 1)

AbiEncode(given, targets, library) == EncodeToMemory(given, targets, TRUE, FALSE, library)
PackedEncode(given, targets) == EncodeToMemory(given, targets, FALSE, TRUE, FALSE)

RevertIf(condition) == condition \o When(AppendRevert)

\* input_end base_offset offset -> value input_end base_offset offset'
DecodeArrayFromMemory(t) ==
  LET itemSize == IF IsByteArray(t) THEN 1 ELSE CalldataEncodedSize(t.base, TRUE)
  IN  Expect(IsValueType(t.base) /\ t.loc = "Memory")
      \o IF IsDynamicallySized(t)
         THEN Do(<<"DUP1", "MLOAD">>) \o RevertIf(Val(LengthLimit) \o Do(<<"DUP2", "GT">>)) \o Do(<<"DUP3", "ADD">>)
              \* input_end base_offset offset ptr array_data_start
              \o Val(WordBytes) \o Do(<<"DUP2", "ADD">>) \o RevertIf(Do(<<"DUP5", "DUP2", "GT">>))
              \o RevertIf(Do(<<"DUP5">>) \o Val(itemSize) \o Do(<<"DUP4", "MLOAD", "MUL", "DUP3", "ADD", "GT">>)
                          \o Val(LengthLimit) \o Do(<<"DUP4", "MLOAD", "GT", "OR">>))
              \o Do(<<"POP">>) \o MoveIntoStack(3, 1) \o Val(WordBytes) \o Do(<<"ADD">>)
         ELSE MoveIntoStack(2, 1) \o Do(<<"DUP3">>) \o Val(CalldataEncodedSize(t, TRUE)) \o Do(<<"ADD">>)

DecodeArrayFromCalldata(t) ==
  LET calldata == CopyForLocation(t, "CallData", FALSE)
      itemSize == IF IsByteArray(t) THEN 1 ELSE CalldataEncodedSize(t.base, TRUE)
      size == SizeOnStack(t)
  IN  (IF IsDynamicallySized(calldata)
       THEN LoadFromMemoryDynamic(Uint, TRUE, TRUE, TRUE) \o Do(<<"SWAP1">>)
            \o RevertIf(Val(LengthLimit) \o Do(<<"DUP2", "GT">>)) \o Do(<<"DUP3", "ADD">>)
            \* input_end base_offset next_ptr array_head_ptr
            \o RevertIf(Do(<<"DUP4">>) \o Val(WordBytes) \o Do(<<"DUP3", "ADD", "GT">>))
            \o LoadFromMemoryDynamic(Uint, TRUE, TRUE, TRUE) \o Do(<<"SWAP2">>)
            \* input_end base_offset data_ptr array_length next_ptr
            \o RevertIf(Do(<<"DUP5">>) \o Val(itemSize) \o Do(<<"DUP4", "MUL", "DUP5", "ADD", "GT">>)
                        \o Val(LengthLimit) \o Do(<<"DUP4", "GT", "OR">>))
       ELSE Do(<<"DUP1">>) \o Val(CalldataEncodedSize(calldata, TRUE)) \o Do(<<"ADD">>))
      \o (IF t.loc = "Memory"
          THEN MoveIntoStack(SizeOnStack(calldata), 1) \o ConvertType(calldata, t, FALSE, FALSE, TRUE) \o MoveToStackTop(size, 1)
          ELSE << >>)
      \o MoveToStackTop(2 + size, 1) \o Do(<<"SWAP1">>) \o MoveToStackTop(2 + size, 1) \o Do(<<"SWAP1">>)

\* offset length -> v1 ... vn
AbiDecode(types, fromMemory) ==
  LET decoding == [k \in 1..Len(types) |-> DecodingType(types[k])]
      sum[k \in 0..Len(types)] == IF k = 0 THEN 0 ELSE sum[k - 1] + CalldataEncodedSize(decoding[k], TRUE)
      decode(t) ==
        IF t.cat = "Array"
        THEN Expect(~ IsDynamicallyEncoded(t.base)) \o (IF fromMemory THEN DecodeArrayFromMemory(t) ELSE DecodeArrayFromCalldata(t))
        ELSE Expect(~ IsDynamicallyEncoded(t)) \o LoadFromMemoryDynamic(t, ~ fromMemory, TRUE, TRUE)
             \o MoveToStackTop(1, SizeOnStack(t)) \o MoveIntoStack(3, SizeOnStack(t))
  IN  IF \E k \in 1..Len(types) : decoding[k] = Null THEN Fail("unimplemented")
      ELSE RevertIf(Val(sum[Len(types)]) \o Do(<<"DUP2", "LT">>))
           \o Do(<<"DUP2", "ADD", "SWAP1", "DUP1">>) \o Concat([k \in 1..Len(types) |-> decode(decoding[k])]) \o PopStackSlots(3)

-----------------------------------------------------------------------------
(* CompilerContext: low-level functions are generated once, after the code *)
(* that calls them.                                                        *)

LowLevelCode(f) ==
  CASE f.name = "invalidFunction" -> <<Label>> \o AppendInvalid
    [] f.name = "pushZeroValue" -> LowLevelFunction(PushZeroValueBody(f.type), 1)
    [] f.name = "clearStorageLoop" -> LowLevelFunction(ClearStorageLoopBody(f.type), 1)
    [] f.name = "clearArray" -> LowLevelFunction(ClearArrayBody(f.type), 0)
    [] f.name = "resizeDynamicArray" -> LowLevelFunction(ResizeDynamicArrayBody(f.type), 0)
    [] f.name = "copyArrayToStorage" -> LowLevelFunction(CopyArrayToStorageBody(f.type, f.other), 1)

EntriesIn(items) == {items[k].data : k \in {j \in 1..Len(items) : items[j].type = "Entry"}}
HasAssertion(items) == \E k \in 1..Len(items) : items[k].type = "Assertion"

\* appendMissingFunctions: code(f) is the code of a function; functions are appended
\* until none is missing.
RECURSIVE Link(_, _, _)
Link(code(_), items, entries) ==
  LET missing == EntriesIn(items) \ DOMAIN entries
      f == CHOOSE x \in missing : TRUE
  IN  IF missing = {} THEN [code |-> items, entries |-> entries]
      ELSE Link(code, Settled(items \o code(f)), [x \in DOMAIN entries \cup {f} |-> IF x = f THEN Len(items) + 1 ELSE entries[x]])

Linked(items) == Link(LowLevelCode, items \o Do(<<"STOP">>), << >>)

=============================================================================
