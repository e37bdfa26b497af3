-------------------------------- MODULE EVM --------------------------------
(***************************************************************************)
(* A small EVM: the meaning of item sequences, against which the           *)
(* optimisers are checked.  It is the reference, no part of the compiler.  *)
(*                                                                         *)
(* Words have WordBits bits.  A pushed tag is a word that names the tag,   *)
(* not its position, so that moving code does not change it: TagBits       *)
(* bounds it, as 32 bits bound a tag position in the code.  What can be    *)
(* observed of an execution are storage and memory, how it ends and what   *)
(* it returns, and the stack if it runs off the end of the items (they may *)
(* be part of a block).  Gas and the program counter are not observed; a   *)
(* memory access past MemoryBytes runs out of gas.                         *)
(***************************************************************************)
EXTENDS Instructions

CONSTANTS TagBits,
          Fuel          \* executions longer than this are not compared

ASSUME EVMAssumption == TagBits \in 1..WordBits /\ Fuel \in Nat

TagMask == 2^TagBits - 1

MemoryBytes == 3 * WordBytes

\* The hash of a sequence of bytes: any function will do.
Keccak(bytes) ==
  LET sum[k \in 0..Len(bytes)] == IF k = 0 THEN 0 ELSE sum[k - 1] + (2 * k - 1) * (bytes[k] + 1) IN sum[Len(bytes)] % Base

BigEndian(word) == [k \in 1..WordBytes |-> (word \div 2^(ByteBits * (WordBytes - k))) % 2^ByteBits]

WriteBytes(memory, offset, bytes) ==
  [k \in DOMAIN memory |-> IF k \in offset..(offset + Len(bytes) - 1) THEN bytes[k - offset + 1] ELSE memory[k]]

Bytes(m, offset, size) == [k \in 1..size |-> m.memory[offset + k - 1]]

WordAt(m, offset) ==
  LET sum[k \in 0..WordBytes] == IF k = 0 THEN 0 ELSE sum[k - 1] * 2^ByteBits + m.memory[offset + k - 1]
  IN  sum[WordBytes]

\* The value an instruction with one result computes from its arguments, the top of
\* the stack first, on a machine that made these stores and has this input word.
Value(instruction, a, m) ==
  LET last == {k \in 1..Len(m.stores) : m.stores[k][1] = a[1] /\ \A j \in (k + 1)..Len(m.stores) : m.stores[j][1] # a[1]}
  IN  CASE instruction \in Pure -> Compute(instruction, a)
        [] instruction = "ETHASH" -> (a[1] + a[5]) % 2
        [] instruction = "CALLER" -> 1
        [] instruction = "CALLDATALOAD" -> (m.input + a[1]) % Base
        [] instruction = "CALLDATASIZE" -> WordBytes
        [] instruction = "SLOAD" /\ last # {} -> m.stores[CHOOSE k \in last : TRUE][2]
        [] instruction = "MLOAD" -> WordAt(m, a[1])
        [] instruction = "KECCAK256" -> Keccak(Bytes(m, a[1], a[2]))
        [] instruction = "MSIZE" -> m.msize % Base
        [] OTHER -> 0

\* A machine: next item, stack (the top first), stores made, and how it goes.
Machine(pc, stack, input) ==
  [pc |-> pc, stack |-> stack, stores |-> << >>, status |-> "running", input |-> input,
   memory |-> [k \in 0..(MemoryBytes - 1) |-> 0], msize |-> 0, output |-> << >>]

\* The memory an instruction touches: how many bytes from the first argument on
Touched(instruction, a) ==
  CASE instruction \in {"MLOAD", "MSTORE"} -> WordBytes
    [] instruction \in {"KECCAK256", "RETURN"} -> a[2]
    [] instruction = "CODECOPY" -> a[3]
    [] OTHER -> 0

Drop(s, n) == SubSeq(s, n + 1, Len(s))
Halt(m, status) == [m EXCEPT !.stack = << >>, !.status = status]

JumpTo(items, m, tag, stack) ==
  IF \E k \in 1..Len(items) : items[k] = Tag(tag)
  THEN [m EXCEPT !.pc = CHOOSE k \in 1..Len(items) : items[k] = Tag(tag), !.stack = stack]
  ELSE Halt(m, "failed")

Execute(items, m, instruction) ==
  LET s == m.stack
      args == InstructionInfo[instruction].args
      size == Touched(instruction, s)
      words == IF size = 0 THEN 0 ELSE (s[1] + size + WordBytes - 1) \div WordBytes
      grown == IF words > m.msize THEN words ELSE m.msize
      go(stack) == [m EXCEPT !.pc = @ + 1, !.stack = stack, !.msize = grown]
  IN  CASE Len(s) < args -> Halt(m, "failed")
        [] Len(s) >= args /\ size > 0 /\ s[1] + size > MemoryBytes -> Halt(m, "failed")
        [] Len(s) >= args /\ instruction = "MSTORE" /\ s[1] + size <= MemoryBytes ->
             [go(Drop(s, 2)) EXCEPT !.memory = WriteBytes(@, s[1], BigEndian(s[2]))]
        [] Len(s) >= args /\ instruction = "CODECOPY" /\ s[1] + size <= MemoryBytes ->
             [go(Drop(s, 3)) EXCEPT !.memory = WriteBytes(@, s[1], SubSeq(BigEndian(s[2]), 1, size))]
        [] Len(s) >= args /\ instruction = "RETURN" /\ (size = 0 \/ s[1] + size <= MemoryBytes) ->
             [Halt(m, "STOP") EXCEPT !.output = Bytes(m, s[1], size)]
        [] Len(s) >= args /\ instruction = "POP" -> go(Tail(s))
        [] Len(s) >= args /\ instruction \in Elements(DUP) -> go(<<s[args]>> \o s)
        [] Len(s) >= args /\ instruction \in Elements(SWAP) ->
             go([s EXCEPT ![1] = s[args], ![args] = s[1]])
        [] Len(s) >= args /\ instruction = "SSTORE" ->
             [go(Drop(s, 2)) EXCEPT !.stores = Append(@, <<s[1], s[2]>>)]
        [] Len(s) >= args /\ instruction = "JUMP" -> JumpTo(items, m, s[1], Tail(s))
        [] Len(s) >= args /\ instruction = "JUMPI" ->
             IF s[2] # 0 THEN JumpTo(items, m, s[1], Drop(s, 2)) ELSE go(Drop(s, 2))
        [] Len(s) >= args /\ instruction \in {"STOP", "REVERT", "INVALID", "SELFDESTRUCT"} -> Halt(m, instruction)
        [] OTHER -> go(IF InstructionInfo[instruction].ret = 0 THEN Drop(s, args)
                       ELSE <<Value(instruction, s, m)>> \o Drop(s, args))

Step(items, m) ==
  IF m.status # "running" THEN m
  ELSE IF m.pc > Len(items) THEN [m EXCEPT !.status = "end"]
  ELSE CASE items[m.pc].type = "Operation" -> Execute(items, m, items[m.pc].data)
         [] items[m.pc].type = "Tag" -> [m EXCEPT !.pc = @ + 1]
         [] OTHER -> [m EXCEPT !.pc = @ + 1, !.stack = <<items[m.pc].data>> \o @]

\* What is observed of the first steps of the execution that starts at item pc with
\* this stack and input.
RECURSIVE Run(_, _, _)
Run(items, m, n) ==
  IF n = 0 \/ m.status # "running" THEN m
  ELSE IF n = 1 THEN Step(items, m)
  ELSE Run(items, Run(items, m, n \div 2), n - n \div 2)

BehaviourOn(items, pc, stack, input, steps) ==
  LET last == Run(items, Machine(pc, stack, input), steps)
  IN  [stack |-> last.stack, stores |-> last.stores, status |-> last.status]

\* The machines that are compared start with something in storage and memory.
Started(pc, stack) ==
  [Machine(pc, stack, 0) EXCEPT !.stores = << <<0, 2 % Base>>, <<1, 1>> >>,
                                !.memory = [k \in DOMAIN @ |-> k % 2]]

\* The slots that differ from those of the started machine, with their contents
Storage(m) ==
  LET slots == {m.stores[k][1] : k \in 1..Len(m.stores)}
      before == Started(1, << >>)
  IN  {<<s, Value("SLOAD", <<s>>, m)>> : s \in {x \in slots : Value("SLOAD", <<x>>, m) # Value("SLOAD", <<x>>, before)}}

Behaviour(items, pc, stack, steps) ==
  LET last == Run(items, Started(pc, stack), steps)
  IN  [stack |-> last.stack, storage |-> Storage(last), memory |-> last.memory,
       status |-> last.status, output |-> last.output]

\* new, from item j, may replace old, from item i: with this stack it does what old does,
\* unless old fails (an underflow, a jump to a place that is no tag) or takes more than
\* Fuel steps.  new is given more steps than old: deduplicated code may pass more tags.
Implements(new, j, old, i, stack) ==
  LET spec == Behaviour(old, i, stack, Fuel)
  IN  spec.status \in {"failed", "running"} \/ Behaviour(new, j, stack, 2 * Fuel) = spec

=============================================================================
