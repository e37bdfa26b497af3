--------------------------- MODULE Instructions ---------------------------
(***************************************************************************)
(* The instruction table of libevmasm (Instruction.cpp), the classes of    *)
(* instructions that optimisers, the gas meter and the view checker tell   *)
(* apart (SemanticInformation.cpp), and the items of an assembly.  PUSH1   *)
(* to PUSH32 are items of their own and are not in the table.              *)
(*                                                                         *)
(* In between, the arithmetic of the EVM on words of WordBits bits made of *)
(* bytes of ByteBits bits, the reference against which rewritten code is   *)
(* checked; it is no part of the compiler.  Arguments are given in the     *)
(* order of functional notation, the top of the stack first.               *)
(***************************************************************************)
EXTENDS Integers, Sequences, FiniteSets

DUP == <<"DUP1", "DUP2", "DUP3", "DUP4", "DUP5", "DUP6", "DUP7", "DUP8",
         "DUP9", "DUP10", "DUP11", "DUP12", "DUP13", "DUP14", "DUP15", "DUP16">>
SWAP == <<"SWAP1", "SWAP2", "SWAP3", "SWAP4", "SWAP5", "SWAP6", "SWAP7", "SWAP8",
          "SWAP9", "SWAP10", "SWAP11", "SWAP12", "SWAP13", "SWAP14", "SWAP15", "SWAP16">>
LOG == <<"LOG0", "LOG1", "LOG2", "LOG3", "LOG4">>

Elements(s) == {s[k] : k \in 1..Len(s)}
IndexOf(s, x) == CHOOSE k \in 1..Len(s) : s[k] = x

\* The instructions other than DUP, SWAP and LOG by the number of their arguments.
Taking == <<
  {"STOP", "ADDRESS", "ORIGIN", "CALLER", "CALLVALUE", "CALLDATASIZE", "CODESIZE", "GASPRICE",
   "RETURNDATASIZE", "COINBASE", "TIMESTAMP", "NUMBER", "DIFFICULTY", "GASLIMIT", "PC", "MSIZE",
   "GAS", "JUMPDEST", "INVALID"},
  {"NOT", "ISZERO", "BALANCE", "CALLDATALOAD", "EXTCODESIZE", "EXTCODEHASH", "BLOCKHASH", "POP",
   "MLOAD", "SLOAD", "JUMP", "SELFDESTRUCT"},
  {"ADD", "SUB", "MUL", "DIV", "SDIV", "MOD", "SMOD", "EXP", "LT", "GT", "SLT", "SGT", "EQ", "AND",
   "OR", "XOR", "BYTE", "SHL", "SHR", "SAR", "SIGNEXTEND", "KECCAK256", "MSTORE", "MSTORE8",
   "SSTORE", "JUMPI", "RETURN", "REVERT"},
  {"ADDMOD", "MULMOD", "CALLDATACOPY", "CODECOPY", "RETURNDATACOPY", "CREATE"},
  {"EXTCODECOPY", "CREATE2"},
  {"ETHASH"},
  {"DELEGATECALL", "STATICCALL"},
  {"CALL", "CALLCODE"} >>

ReturnNothing ==
  {"STOP", "POP", "CALLDATACOPY", "CODECOPY", "EXTCODECOPY", "RETURNDATACOPY", "MSTORE", "MSTORE8",
   "SSTORE", "JUMP", "JUMPI", "JUMPDEST", "RETURN", "REVERT", "INVALID", "SELFDESTRUCT"}
  \cup Elements(LOG)

\* InstructionInfo::sideEffects
SideEffects ==
  (ReturnNothing \ {"POP"})
  \cup {"KECCAK256", "MLOAD", "CREATE", "CREATE2", "CALL", "CALLCODE", "DELEGATECALL", "STATICCALL"}

\* InstructionInfo::gasPriceTier
Tier ==
  [Zero |-> {"STOP", "RETURN", "REVERT", "INVALID"},
   Base |-> (Taking[1] \ {"STOP", "INVALID", "JUMPDEST"}) \cup {"POP"},
   VeryLow |-> {"ADD", "SUB", "NOT", "LT", "GT", "SLT", "SGT", "EQ", "ISZERO", "AND", "OR", "XOR",
                "BYTE", "SHL", "SHR", "SAR", "CALLDATALOAD", "CALLDATACOPY", "CODECOPY",
                "RETURNDATACOPY", "MLOAD", "MSTORE", "MSTORE8"} \cup Elements(DUP) \cup Elements(SWAP),
   Low |-> {"MUL", "DIV", "SDIV", "MOD", "SMOD", "SIGNEXTEND"},
   Mid |-> {"ADDMOD", "MULMOD", "JUMP"},
   High |-> {"JUMPI"},
   Ext |-> {"BLOCKHASH", "ETHASH"},
   ExtCode |-> {"EXTCODESIZE", "EXTCODECOPY"},
   Balance |-> {"BALANCE", "EXTCODEHASH"},
   Special |-> {"EXP", "KECCAK256", "SLOAD", "SSTORE", "JUMPDEST", "CREATE", "CREATE2", "CALL",
                "CALLCODE", "DELEGATECALL", "STATICCALL", "SELFDESTRUCT"} \cup Elements(LOG)]

Instruction == (UNION Elements(Taking)) \cup Elements(DUP) \cup Elements(SWAP) \cup Elements(LOG)

\* c_instructionInfo
InstructionInfo ==
  [i \in Instruction |->
     CASE i \in Elements(DUP) -> [args |-> IndexOf(DUP, i), ret |-> IndexOf(DUP, i) + 1, sideEffects |-> FALSE]
       [] i \in Elements(SWAP) -> [args |-> IndexOf(SWAP, i) + 1, ret |-> IndexOf(SWAP, i) + 1, sideEffects |-> FALSE]
       [] i \in Elements(LOG) -> [args |-> IndexOf(LOG, i) + 1, ret |-> 0, sideEffects |-> TRUE]
       [] OTHER -> [args |-> (CHOOSE n \in 1..8 : i \in Taking[n]) - 1,
                    ret |-> IF i \in ReturnNothing THEN 0 ELSE 1,
                    sideEffects |-> i \in SideEffects]]

Commutative == {"ADD", "MUL", "EQ", "AND", "OR", "XOR"}
Jumps == {"JUMP", "JUMPI"}
ControlFlow == Jumps \cup {"RETURN", "SELFDESTRUCT", "STOP", "INVALID", "REVERT"}

\* Outcome depends on more than the arguments and the content of memory and storage.
NotDeterministic ==
  {"CALL", "CALLCODE", "DELEGATECALL", "STATICCALL", "CREATE", "CREATE2", "GAS", "PC", "MSIZE",
   "BALANCE", "EXTCODESIZE", "EXTCODEHASH", "RETURNDATACOPY", "RETURNDATASIZE"}

\* SemanticInformation::movable
Movable == (Instruction \ (SideEffects \cup Elements(DUP) \cup Elements(SWAP)))
           \ {"KECCAK256", "BALANCE", "EXTCODESIZE", "EXTCODEHASH", "RETURNDATASIZE", "SLOAD", "PC",
              "MSIZE", "GAS"}

InvalidatesMemory ==
  {"CALLDATACOPY", "CODECOPY", "EXTCODECOPY", "RETURNDATACOPY", "MSTORE", "MSTORE8", "CALL",
   "CALLCODE", "DELEGATECALL", "STATICCALL"}

InvalidatesStorage == {"CALL", "CALLCODE", "DELEGATECALL", "CREATE", "CREATE2", "SSTORE"}

InvalidInViewFunctions ==
  Elements(LOG) \cup Jumps
  \cup {"SSTORE", "CREATE", "CALL", "CALLCODE", "DELEGATECALL", "CREATE2", "SELFDESTRUCT"}

InvalidInPureFunctions ==
  InvalidInViewFunctions
  \cup {"ADDRESS", "BALANCE", "ORIGIN", "CALLER", "CALLVALUE", "GAS", "GASPRICE", "EXTCODESIZE",
        "EXTCODECOPY", "EXTCODEHASH", "BLOCKHASH", "COINBASE", "TIMESTAMP", "NUMBER", "DIFFICULTY",
        "GASLIMIT", "ETHASH", "STATICCALL", "SLOAD"}

\* SemanticInformation::breaksCSEAnalysisBlock for an operation
BreaksCSE(instruction, msizeImportant) ==
  /\ instruction \notin Elements(DUP) \cup Elements(SWAP) \cup {"SSTORE", "MSTORE"}
  /\ ~(~msizeImportant /\ instruction \in {"MLOAD", "KECCAK256"})
  /\ \/ instruction \in {"GAS", "PC", "MSIZE"}
     \/ InstructionInfo[instruction].sideEffects
     \/ InstructionInfo[instruction].args > 2

-----------------------------------------------------------------------------
(* Words *)

CONSTANTS WordBits, ByteBits

ASSUME WordsAssumption == /\ WordBits \in Nat \ {0} /\ ByteBits \in Nat \ {0}
                          /\ WordBits % ByteBits = 0

Base == 2^WordBits
Words == 0..(Base - 1)
AllOnes == Base - 1
WordBytes == WordBits \div ByteBits

Bit(x, n) == (x \div 2^n) % 2

BitwiseOp(op(_, _), x, y) ==
  LET sum[n \in 0..WordBits] ==
        IF n = 0 THEN 0 ELSE sum[n - 1] + 2^(n - 1) * op(Bit(x, n - 1), Bit(y, n - 1))
  IN  sum[WordBits]

And(x, y) == BitwiseOp(LAMBDA a, b : a * b, x, y)
Or(x, y) == BitwiseOp(LAMBDA a, b : a + b - a * b, x, y)
Xor(x, y) == BitwiseOp(LAMBDA a, b : (a + b) % 2, x, y)

Signed(x) == IF x >= 2^(WordBits - 1) THEN x - Base ELSE x
Unsigned(x) == x % Base
Truth(b) == IF b THEN 1 ELSE 0

\* Division towards zero and its remainder, which has the sign of x.
AbsVal(x) == IF x < 0 THEN -x ELSE x
Quotient(x, y) == LET q == AbsVal(x) \div AbsVal(y) IN IF (x < 0) = (y < 0) THEN q ELSE -q
Remainder(x, y) == x - y * Quotient(x, y)

Power(x, n) == LET p[k \in 0..n] == IF k = 0 THEN 1 % Base ELSE (x * p[k - 1]) % Base IN p[n]

\* The value an instruction without access to the state computes.
Pure == {"ADD", "MUL", "SUB", "DIV", "SDIV", "MOD", "SMOD", "EXP", "NOT", "LT", "GT", "SLT", "SGT",
         "EQ", "ISZERO", "AND", "OR", "XOR", "BYTE", "ADDMOD", "MULMOD", "SIGNEXTEND", "SHL", "SHR"}

Compute(instruction, a) ==
  CASE instruction = "ADD" -> Unsigned(a[1] + a[2])
    [] instruction = "MUL" -> Unsigned(a[1] * a[2])
    [] instruction = "SUB" -> Unsigned(a[1] - a[2])
    [] instruction = "DIV" -> IF a[2] = 0 THEN 0 ELSE a[1] \div a[2]
    [] instruction = "SDIV" -> IF a[2] = 0 THEN 0 ELSE Unsigned(Quotient(Signed(a[1]), Signed(a[2])))
    [] instruction = "MOD" -> IF a[2] = 0 THEN 0 ELSE a[1] % a[2]
    [] instruction = "SMOD" -> IF a[2] = 0 THEN 0 ELSE Unsigned(Remainder(Signed(a[1]), Signed(a[2])))
    [] instruction = "EXP" -> Power(a[1], a[2])
    [] instruction = "NOT" -> AllOnes - a[1]
    [] instruction = "LT" -> Truth(a[1] < a[2])
    [] instruction = "GT" -> Truth(a[1] > a[2])
    [] instruction = "SLT" -> Truth(Signed(a[1]) < Signed(a[2]))
    [] instruction = "SGT" -> Truth(Signed(a[1]) > Signed(a[2]))
    [] instruction = "EQ" -> Truth(a[1] = a[2])
    [] instruction = "ISZERO" -> Truth(a[1] = 0)
    [] instruction = "AND" -> And(a[1], a[2])
    [] instruction = "OR" -> Or(a[1], a[2])
    [] instruction = "XOR" -> Xor(a[1], a[2])
    [] instruction = "BYTE" ->
         IF a[1] >= WordBytes THEN 0
         ELSE (a[2] \div 2^(ByteBits * (WordBytes - 1 - a[1]))) % 2^ByteBits
    [] instruction = "ADDMOD" -> IF a[3] = 0 THEN 0 ELSE (a[1] + a[2]) % a[3]
    [] instruction = "MULMOD" -> IF a[3] = 0 THEN 0 ELSE (a[1] * a[2]) % a[3]
    [] instruction = "SIGNEXTEND" ->
         IF a[1] >= WordBytes - 1 THEN a[2]
         ELSE LET size == 2^(ByteBits * (a[1] + 1))
                  low == a[2] % size
              IN  IF low >= size \div 2 THEN Unsigned(low - size) ELSE low
    [] instruction = "SHL" -> IF a[1] >= WordBits THEN 0 ELSE Unsigned(a[2] * 2^a[1])
    [] instruction = "SHR" -> IF a[1] >= WordBits THEN 0 ELSE a[2] \div 2^a[1]

-----------------------------------------------------------------------------
(* AssemblyItem (AssemblyItem.{h,cpp}): a record [type, sub, data].  data  *)
(* is the instruction of an Operation, the pushed value, or the tag        *)
(* number; sub is the assembly a tag belongs to: Local (size_t(-1) in the  *)
(* code) or the index of a sub-assembly.  Source locations and jump types  *)
(* are left out: operator== ignores them.                                  *)

Local == 0

Op(instruction) == [type |-> "Operation", sub |-> Local, data |-> instruction]
Push(value) == [type |-> "Push", sub |-> Local, data |-> value]
PushData(value) == [type |-> "PushData", sub |-> Local, data |-> value]   \* data by its content
PushTag(sub, tag) == [type |-> "PushTag", sub |-> sub, data |-> tag]
Tag(tag) == [type |-> "Tag", sub |-> Local, data |-> tag]

IsOp(item, instructions) == item.type = "Operation" /\ item.data \in instructions

IsDupInstruction(item) == IsOp(item, Elements(DUP))
IsSwapInstruction(item) == IsOp(item, Elements(SWAP))
IsCommutativeOperation(item) == IsOp(item, Commutative)
AltersControlFlow(item) == IsOp(item, ControlFlow)

\* dev::bytesRequired: how many bytes a number needs
BytesOfNumber(x) == CHOOSE n \in 0..WordBytes : x < 2^(n * ByteBits) /\ (n > 0 => x >= 2^((n - 1) * ByteBits))

\* AssemblyItem::bytesRequired for an address length of 3
BytesRequired(item) ==
  CASE item.type = "Push" -> IF item.data = 0 THEN 2 ELSE 1 + BytesOfNumber(item.data)
    [] item.type \in {"PushTag", "PushData"} -> 4
    [] OTHER -> 1

\* eth::bytesRequired(items, 3)
BytesOf(items) ==
  LET sum[k \in 0..Len(items)] == IF k = 0 THEN 0 ELSE sum[k - 1] + BytesRequired(items[k])
  IN  sum[Len(items)]

\* The tags an item sequence defines, and the ones of assembly sub it pushes
\* (JumpdestRemover::referencedTags).
TagsIn(items) == {items[k].data : k \in {j \in 1..Len(items) : items[j].type = "Tag"}}

ReferencedTags(items, sub) ==
  {items[k].data : k \in {j \in 1..Len(items) : items[j].type = "PushTag" /\ items[j].sub = sub}}

=============================================================================
