-------------------------- MODULE ContractMachine --------------------------
(***************************************************************************)
(* The machine on which generated contract code runs: the reference for    *)
(* the code generator, no part of the compiler.  It has calldata, a world  *)
(* it can call, and as much memory as it is given.                         *)
(*                                                                         *)
(* Code is a sequence of items.  Where the code generator makes a tag and  *)
(* jumps to it, an item jumps by so many items (JumpIf, JumpBy) or pushes  *)
(* the position of a Label (Here); Entry pushes the position where the     *)
(* code of a function starts.  An Assertion is what the code generator     *)
(* emits when an assertion of its own fails.                               *)
(***************************************************************************)
EXTENDS EVM, SequencesExt

Item(type, data) == [type |-> type, sub |-> Local, data |-> data]
JumpIf(by) == Item("JumpIf", by)
JumpBy(by) == Item("JumpBy", by)
Here(by) == Item("Here", by)
Label == Item("Tag", 0)
Entry(f) == Item("Entry", f)
Assertion(why) == Item("Assertion", why)

\* world: [caller, value, self, success, returned]: who calls with how much, and what a
\* call from here returns.
Contract0(code, entries, stack, memory, storage, calldata, world) ==
  [code |-> code, entries |-> entries, pc |-> 1, stack |-> stack, memory |-> memory, storage |-> storage,
   calldata |-> calldata, world |-> world, returndata |-> << >>, output |-> << >>, calls |-> << >>, logs |-> << >>,
   status |-> "running"]

Load(m, slot) == IF slot \in DOMAIN m.storage THEN m.storage[slot] ELSE 0
Store(storage, slot, word) ==
  [x \in (DOMAIN storage \ {slot}) \cup (IF word = 0 THEN {} ELSE {slot}) |-> IF x = slot THEN word ELSE storage[x]]

FromBigEndian(bytes) ==
  LET sum[k \in 0..Len(bytes)] == IF k = 0 THEN 0 ELSE sum[k - 1] * 2^ByteBits + bytes[k] IN sum[Len(bytes)]

\* size bytes of data from offset on, zeros past the end
Window(data, offset, size) == [k \in 1..size |-> IF offset + k <= Len(data) THEN data[offset + k] ELSE 0]

\* keccak256, as far as storage relies on it: what lies at the hashes of different slots and
\* keys does not overlap, for slots below 8 and short keys and arrays.
Spread(bytes) ==
  LET rest == IF Len(bytes) > WordBytes THEN Len(bytes) - WordBytes ELSE 0
  IN  (2^(WordBits - 3) * FromBigEndian(SubSeq(bytes, rest + 1, Len(bytes))) + 16 * FromBigEndian(SubSeq(bytes, 1, rest)) + 8) % 2^WordBits

\* The memory an instruction reads or writes, as pairs of offset and size
Accessed(op, s) ==
  CASE op \in {"MLOAD", "MSTORE"} -> {<<s[1], WordBytes>>}
    [] op = "MSTORE8" -> {<<s[1], 1>>}
    [] op \in {"KECCAK256", "RETURN", "REVERT"} \cup Elements(LOG) -> {<<s[1], s[2]>>}
    [] op \in {"CALLDATACOPY", "CODECOPY", "RETURNDATACOPY"} -> {<<s[1], s[3]>>}
    [] op \in {"CREATE"} -> {<<s[2], s[3]>>}
    [] op \in {"CALL", "CALLCODE"} -> {<<s[4], s[5]>>, <<s[6], s[7]>>}
    [] op \in {"DELEGATECALL", "STATICCALL"} -> {<<s[3], s[4]>>, <<s[5], s[6]>>}
    [] OTHER -> {}

Stop(m, status, output) == [m EXCEPT !.status = status, !.output = output]

\* A call: what is passed is recorded, and what the world returns is written to memory.
CallOut(m, op, s) ==
  LET valued == op \in {"CALL", "CALLCODE"}
      a == IF valued THEN SubSeq(s, 4, 7) ELSE SubSeq(s, 3, 6)
      args == InstructionInfo[op].args
      answer == m.world.returned
      size == IF Len(answer) < a[4] THEN Len(answer) ELSE a[4]
  IN  [m EXCEPT !.pc = @ + 1,
                !.stack = <<Truth(m.world.success)>> \o Drop(s, args),
                !.calls = Append(@, [op |-> op, to |-> s[2], value |-> IF valued THEN s[3] ELSE 0,
                                     input |-> Bytes(m, a[1], a[2])]),
                !.memory = WriteBytes(@, a[3], SubSeq(answer, 1, size)),
                !.returndata = answer]

Execute0(m, op) ==
  LET s == m.stack
      args == InstructionInfo[op].args
      go(stack) == [m EXCEPT !.pc = @ + 1, !.stack = stack]
      next == go(Drop(s, args))
      result(word) == go(<<word>> \o Drop(s, args))
  IN  IF Len(s) < args \/ (\E a \in Accessed(op, s) : a[2] > 0 /\ a[1] + a[2] > Cardinality(DOMAIN m.memory))
      THEN Stop(m, "failed", << >>)
      ELSE CASE op \in Elements(DUP) -> go(<<s[args]>> \o s)
             [] op \in Elements(SWAP) -> go([s EXCEPT ![1] = s[args], ![args] = s[1]])
             [] op \in Pure -> result(Compute(op, s))
             [] op = "POP" -> next
             [] op = "MLOAD" -> result(WordAt(m, s[1]))
             [] op = "MSTORE" -> [next EXCEPT !.memory = WriteBytes(@, s[1], BigEndian(s[2]))]
             [] op = "MSTORE8" -> [next EXCEPT !.memory[s[1]] = s[2] % 2^ByteBits]
             [] op = "SLOAD" -> result(Load(m, s[1]))
             [] op = "SSTORE" -> [next EXCEPT !.storage = Store(@, s[1], s[2])]
             [] op = "KECCAK256" -> result(Spread(Bytes(m, s[1], s[2])))
             [] op = "CALLDATASIZE" -> result(Len(m.calldata))
             [] op = "CALLDATALOAD" -> result(FromBigEndian(Window(m.calldata, s[1], WordBytes)))
             [] op = "CALLDATACOPY" -> [next EXCEPT !.memory = WriteBytes(@, s[1], Window(m.calldata, s[2], s[3]))]
             [] op = "CODESIZE" -> result(AllOnes)
             [] op = "CODECOPY" -> [next EXCEPT !.memory = WriteBytes(@, s[1], [k \in 1..s[3] |-> 0])]
             [] op = "RETURNDATASIZE" -> result(Len(m.returndata))
             [] op = "RETURNDATACOPY" -> [next EXCEPT !.memory = WriteBytes(@, s[1], Window(m.returndata, s[2], s[3]))]
             [] op = "CALLER" -> result(m.world.caller)
             [] op = "CALLVALUE" -> result(m.world.value)
             [] op = "ADDRESS" -> result(m.world.self)
             [] op = "EXTCODESIZE" -> result(Truth(s[1] # 0))
             [] op = "GAS" -> result(AllOnes)
             [] op \in {"CALL", "CALLCODE", "DELEGATECALL", "STATICCALL"} -> CallOut(m, op, s)
             [] op \in Elements(LOG) ->
                  [next EXCEPT !.logs = Append(@, [topics |-> SubSeq(s, 3, args), data |-> Bytes(m, s[1], s[2])])]
             [] op = "JUMP" -> IF s[1] \in 1..Len(m.code) /\ m.code[s[1]].type = "Tag"
                               THEN [m EXCEPT !.pc = s[1], !.stack = Tail(s)] ELSE Stop(m, "failed", << >>)
             [] op \in {"STOP", "SELFDESTRUCT"} -> Stop(m, op, << >>)
             [] op \in {"RETURN", "REVERT"} -> Stop(m, op, Bytes(m, s[1], s[2]))
             [] op = "INVALID" -> Stop(m, "INVALID", << >>)
             [] OTHER -> IF InstructionInfo[op].ret = 0 THEN next ELSE result(1)

Step0(m) ==
  IF m.pc > Len(m.code) THEN Stop(m, "end", << >>)
  ELSE LET item == m.code[m.pc]
           push(word) == [m EXCEPT !.pc = @ + 1, !.stack = <<word>> \o @]
       IN  CASE item.type = "Operation" -> Execute0(m, item.data)
             [] item.type = "Push" -> push(item.data)
             [] item.type = "Tag" -> [m EXCEPT !.pc = @ + 1]
             [] item.type = "JumpBy" -> [m EXCEPT !.pc = @ + 1 + item.data]
             [] item.type = "JumpIf" ->
                  IF m.stack = << >> THEN Stop(m, "failed", << >>)
                  ELSE [m EXCEPT !.pc = IF m.stack[1] # 0 THEN @ + 1 + item.data ELSE @ + 1, !.stack = Tail(@)]
             [] item.type = "Here" -> push(m.pc + item.data)
             [] item.type = "Entry" -> push(m.entries[item.data])
             [] item.type \in {"PushSub", "PushSubSize", "PushProgramSize"} -> push(0)
             [] item.type \in {"PushLibraryAddress", "PushDeployTimeAddress"} -> push(1)
             [] item.type = "Assertion" -> Stop(m, "assertion", << >>)

\* The machine after at most n steps; TLC evaluates each half before the next.
RECURSIVE Run0(_, _)
Run0(m, n) ==
  IF n = 0 \/ m.status # "running" THEN m
  ELSE IF n = 1 THEN Step0(m)
  ELSE CHOOSE y \in {Run0(x, n - n \div 2) : x \in {Run0(m, n \div 2)}} : TRUE

=============================================================================
