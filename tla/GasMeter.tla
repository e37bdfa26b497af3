----------------------------- MODULE GasMeter -----------------------------
(***************************************************************************)
(* eth::GasMeter (libevmasm/GasMeter.cpp): an upper bound on the gas of an *)
(* item, from what a KnownState tells of its arguments; and beside it what *)
(* the EVM charges for a step of a machine.  EVM version: the default of   *)
(* the compiler, Byzantium, for costs that depend on it.  32 bytes are     *)
(* WordBytes.  A consumption is a number or Infinite; amounts near 2^256,  *)
(* where the code turns to infinite too, are out of the range of the model.*)
(*                                                                         *)
(* eth::ConstantOptimisationMethod (libevmasm/ConstantOptimiser.cpp): each *)
(* constant the code pushes is left as it is, copied from the data of the  *)
(* assembly, or computed, whichever is estimated to be cheapest.  A byte   *)
(* has ByteBits bits, so 0x100 is 2^ByteBits and 0x1ff is a window of      *)
(* ByteBits + 1 bits.  m_maxSteps goes with the routine it limits.         *)
(*                                                                         *)
(* At the end, eth::PathGasMeter (libevmasm/PathGasMeter.cpp) with the     *)
(* states the GasEstimator starts it from (GasEstimator.cpp in             *)
(* libsolidity/interface), on code whose constants the optimiser has       *)
(* replaced before.  One action handles one path of the queue.             *)
(***************************************************************************)
EXTENDS KnownState

GasCosts ==
  [extCode |-> 700, balance |-> 400, exp |-> 10, expByte |-> 50, keccak256 |-> 30,
   keccak256Word |-> 6, sload |-> 200, sstoreSet |-> 20000, sstoreReset |-> 5000, log |-> 375,
   logData |-> 8, logTopic |-> 375, selfdestruct |-> 5000, callNewAccount |-> 25000,
   memory |-> 3, quadCoeffDiv |-> 512, createData |-> 200, txDataZero |-> 4, txDataNonZero |-> 68,
   copy |-> 3, jumpdest |-> 1]

TierGas == [Zero |-> 0, Base |-> 2, VeryLow |-> 3, Low |-> 5, Mid |-> 8, High |-> 10, Ext |-> 20]

Infinite == -1
Plus(a, b) == IF a = Infinite \/ b = Infinite THEN Infinite ELSE a + b
Less(a, b) == a # Infinite /\ (b = Infinite \/ a < b)

RunGas(instruction) ==
  IF instruction = "JUMPDEST" THEN GasCosts.jumpdest
  ELSE TierGas[CHOOSE t \in DOMAIN TierGas : instruction \in Tier[t]]

PushGas == TierGas.VeryLow

DataGas(bytes, inCreation) ==
  LET byte(gas, b) == gas + (IF b # 0 THEN GasCosts.txDataNonZero ELSE GasCosts.txDataZero)
  IN  IF inCreation THEN Walk(byte, 0, bytes) ELSE GasCosts.createData * Len(bytes)

WordsOf(bytes) == (bytes + WordBytes - 1) \div WordBytes
MemoryCost(words) == GasCosts.memory * words + (words * words) \div GasCosts.quadCoeffDiv

----------------------------------------------------------------------------
(* The meter: [state, largest, gas], with the state before the item, the   *)
(* largest memory access so far and the gas of the item.                   *)

Meter(state, largest) == [state |-> state, largest |-> largest, gas |-> 0]
Charge(m, gas) == [m EXCEPT !.gas = Plus(@, gas)]

\* relativeStackElement: the argument number k is known as a class
Argument(m, k) == [m EXCEPT !.state = Reveal(@, @.height + 1 - k)]
ClassOf(m, k) == m.state.stack[m.state.height + 1 - k]
Constant(m, id) == ConstantOf(m.state.classes, id)
Unknown(m, id) == ~IsConstant(m.state.classes, id)

WordGas(m, multiplier, k) ==
  LET a == Argument(m, k) id == ClassOf(a, k)
  IN  Charge(a, IF Unknown(a, id) THEN Infinite ELSE multiplier * WordsOf(Constant(a, id)))

\* memoryGas of a position: what the access adds to the largest one
MemoryGasUpTo(m, id) ==
  LET new == Constant(m, id)
  IN  IF Unknown(m, id) THEN Charge(m, Infinite)
      ELSE IF new < m.largest THEN m
      ELSE [Charge(m, MemoryCost(WordsOf(new)) - MemoryCost(WordsOf(m.largest))) EXCEPT !.largest = new]

\* The access ends at argument k plus a number of bytes
MemoryGasFixed(m, k, bytes) ==
  LET a == Argument(m, k)
      size == Find(a.state.classes, Push(bytes), << >>, 0)
      end == Find(size.classes, Op("ADD"), <<ClassOf(a, k), size.id>>, 0)
  IN  MemoryGasUpTo([a EXCEPT !.state.classes = end.classes], end.id)

\* memoryGas(stackPosOffset, stackPosSize)
MemoryGas(m, k, size) ==
  LET a == Argument(Argument(m, size), k)
      end == Find(a.state.classes, Op("ADD"), <<ClassOf(a, k), ClassOf(a, size)>>, 0)
  IN  IF KnownZero(a.state.classes, ClassOf(a, size)) THEN a
      ELSE MemoryGasUpTo([a EXCEPT !.state.classes = end.classes], end.id)

\* Mutant: a slot that is known to be written to is taken for one that is not zero.
SstoreGasOfKnownSlot(m) ==
  LET a == Argument(Argument(m, 1), 2)
  IN  Charge(a, IF ClassOf(a, 1) \in DOMAIN a.state.storage THEN GasCosts.sstoreReset ELSE GasCosts.sstoreSet)

SstoreGas(m) ==
  LET a == Argument(Argument(m, 1), 2)
      slot == ClassOf(a, 1)
      known == slot \in DOMAIN a.state.storage
      nonZero == KnownNonZero(a.state.classes, a.state.storage[slot])
  IN  IF KnownZero(a.state.classes, ClassOf(a, 2)) THEN Charge(a, GasCosts.sstoreReset)
      ELSE IF ~known THEN Charge(a, GasCosts.sstoreSet)
      ELSE Charge([a EXCEPT !.state.classes = nonZero.classes],
                  IF nonZero.holds THEN GasCosts.sstoreReset ELSE GasCosts.sstoreSet)

ExpGas(m) ==
  LET a == Argument(m, 2)
  IN  Charge(a, GasCosts.exp + GasCosts.expByte
                  * (IF Unknown(a, ClassOf(a, 2)) THEN WordBytes ELSE BytesOfNumber(Constant(a, ClassOf(a, 2)))))

LogGas(m, topics) ==
  LET a == MemoryGas(Charge(m, GasCosts.log + GasCosts.logTopic * topics), 1, 2)
  IN  Charge(a, IF Unknown(a, ClassOf(a, 2)) THEN Infinite ELSE GasCosts.logData * Constant(a, ClassOf(a, 2)))

OperationGas(m, i) ==
  CASE i = "SSTORE" -> SstoreGas(m)
    [] i = "SLOAD" -> Charge(m, GasCosts.sload)
    [] i \in {"RETURN", "REVERT"} -> MemoryGas(Charge(m, RunGas(i)), 1, 2)
    [] i \in {"MLOAD", "MSTORE"} -> MemoryGasFixed(Charge(m, RunGas(i)), 1, WordBytes)
    [] i = "MSTORE8" -> MemoryGasFixed(Charge(m, RunGas(i)), 1, 1)
    [] i = "KECCAK256" -> WordGas(MemoryGas(Charge(m, GasCosts.keccak256), 1, 2), GasCosts.keccak256Word, 2)
    [] i \in {"CALLDATACOPY", "CODECOPY", "RETURNDATACOPY"} ->
         WordGas(MemoryGas(Charge(m, RunGas(i)), 1, 3), GasCosts.copy, 3)
    [] i = "EXTCODECOPY" -> WordGas(MemoryGas(Charge(m, GasCosts.extCode), 2, 4), GasCosts.copy, 4)
    [] i = "EXTCODESIZE" -> Charge(m, GasCosts.extCode)
    [] i \in {"EXTCODEHASH", "BALANCE"} -> Charge(m, GasCosts.balance)
    [] i \in Elements(LOG) -> LogGas(m, IndexOf(LOG, i) - 1)
    [] i \in {"CALL", "CALLCODE", "DELEGATECALL", "STATICCALL", "CREATE", "CREATE2"} -> Charge(m, Infinite)
    [] i = "SELFDESTRUCT" -> Charge(m, GasCosts.selfdestruct + GasCosts.callNewAccount)
    [] i = "EXP" -> ExpGas(m)
    [] OTHER -> Charge(m, RunGas(i))

\* The meter after the item
EstimateMax(m, item) ==
  LET zero == [m EXCEPT !.gas = 0]
      charged == CASE item.type = "Operation" -> OperationGas(zero, item.data)
                   [] item.type = "Tag" -> Charge(zero, GasCosts.jumpdest)
                   [] item.type \in {"Push", "PushTag", "PushData"} -> Charge(zero, PushGas)
                   [] OTHER -> Charge(zero, Infinite)
  IN  [charged EXCEPT !.state = FeedItem(@, item).state]

----------------------------------------------------------------------------
(* What the EVM charges for the next step of a machine, and for a whole    *)
(* execution: 0 if it fails or takes more than n steps.  A jump to a place *)
(* that is no tag is how a function that is looked at alone returns.       *)

StepCost(items, m) ==
  LET item == items[m.pc]
      i == item.data
      a == m.stack
      size == Touched(i, a)
      words == IF size = 0 THEN 0 ELSE WordsOf(a[1] + size)
      growth == IF words > m.msize THEN MemoryCost(words) - MemoryCost(m.msize) ELSE 0
      dynamic == CASE i = "SSTORE" -> IF a[2] # 0 /\ Value("SLOAD", a, m) = 0 THEN GasCosts.sstoreSet ELSE GasCosts.sstoreReset
                   [] i = "SLOAD" -> GasCosts.sload
                   [] i = "KECCAK256" -> GasCosts.keccak256 + GasCosts.keccak256Word * WordsOf(a[2])
                   [] i = "CODECOPY" -> PushGas + GasCosts.copy * WordsOf(a[3])
                   [] i = "EXP" -> GasCosts.exp + GasCosts.expByte * BytesOfNumber(a[2])
                   [] OTHER -> RunGas(i)
  IN  CASE m.pc > Len(items) -> 0
        [] m.pc <= Len(items) /\ item.type = "Tag" -> GasCosts.jumpdest
        [] m.pc <= Len(items) /\ item.type \notin {"Tag", "Operation"} -> PushGas
        [] m.pc <= Len(items) /\ item.type = "Operation" -> growth + dynamic

RECURSIVE GasUsed(_, _, _, _)
GasUsed(items, m, n, gas) ==
  LET next == Step(items, m)
      returns == items[m.pc] = Op("JUMP") /\ m.stack # << >>
  IN  CASE m.status # "running" -> gas
        [] m.status = "running" /\ (n = 0 \/ (next.status = "failed" /\ ~returns)) -> 0
        [] OTHER -> GasUsed(items, next, n - 1, gas + StepCost(items, m))

-----------------------------------------------------------------------------
(* The constant optimiser *)

CONSTANT MaxSteps       \* m_maxSteps: how many decompositions are tried, 10000
ASSUME StepsAssumption == MaxSteps \in Nat

\* Params: isCreation, runs and multiplicity
SimpleRunGas(items) ==
  Walk(LAMBDA gas, item : gas + (CASE item.type = "Push" -> PushGas
                                   [] item = Op("EXP") -> GasCosts.exp
                                   [] item.type = "Operation" /\ item # Op("EXP") -> RunGas(item.data)
                                   [] OTHER -> 0), 0, items)

ByteGas(params) == IF params.isCreation THEN GasCosts.txDataNonZero ELSE GasCosts.createData

CombineGas(params, runGas, repeatedDataGas, uniqueDataGas) ==
  params.runs * runGas + params.multiplicity * repeatedDataGas + uniqueDataGas

\* toCompactBigEndian(value, 1)
CompactBytes(value) == LET b == BytesOfNumber(value) IN SubSeq(BigEndian(value), WordBytes + 1 - (IF b = 0 THEN 1 ELSE b), WordBytes)

LiteralGas(params, value) ==
  CombineGas(params, PushGas, ByteGas(params) + DataGas(CompactBytes(value), params.isCreation), 0)

----------------------------------------------------------------------------
\* CodeCopyMethod

\* Mutant: memory is not backed up.
CopyRoutineOverMemory(data) ==
  <<Push(0), Op("DUP1"), Push(WordBytes), PushData(data), Op("DUP3"), Op("CODECOPY"), Op("MLOAD"), Op("SWAP1"), Op("POP")>>

CopyRoutine(data) ==
  <<Push(0), Op("DUP1"), Op("MLOAD"), Push(WordBytes), PushData(data), Op("DUP4"), Op("CODECOPY"),
    Op("DUP2"), Op("MLOAD"), Op("SWAP2"), Op("MSTORE")>>

CopyGas(params, value) ==
  CombineGas(params, SimpleRunGas(CopyRoutine(value)) + GasCosts.copy,
             BytesOf(CopyRoutine(value)) * ByteGas(params), DataGas(BigEndian(value), params.isCreation))

----------------------------------------------------------------------------
\* ComputeMethod

RoutineGas(params, routine) ==
  LET exps == Cardinality({k \in 1..Len(routine) : routine[k] = Op("EXP")})
  IN  CombineGas(params, SimpleRunGas(routine) + exps * (GasCosts.exp + GasCosts.expByte),
                 BytesOf(routine) * ByteGas(params), 0)

\* The items that compute a value, and the steps left: [items, steps]
Routine(items, steps) == [items |-> items, steps |-> steps]

\* value = upper * 2^bits + lower, where lower is small and may be negative
Decomposition(value, bits) ==
  LET low == value % 2^bits
      negative == 2^bits - low < low
  IN  [bits |-> bits, lower |-> IF negative THEN low - 2^bits ELSE low,
       upper |-> value \div 2^bits + (IF negative THEN 1 ELSE 0)]

\* The decompositions that are tried, from the highest bit down
Decompositions(value) ==
  LET all == [k \in 1..(WordBits - 1 - ByteBits) |-> Decomposition(value, WordBits - k)]
      window(bits) == (value \div 2^(bits - ByteBits)) % 2^(ByteBits + 1)
      tried(d) == /\ window(d.bits) \in {2^ByteBits - 1, 2^ByteBits}
                  /\ d.upper # 0 /\ AbsVal(d.lower) < 2^(d.bits - ByteBits)
  IN  SelectSeq(all, tried)

RECURSIVE FindRepresentation(_, _, _)

Compose(params, d, steps) ==
  LET none == Routine(<< >>, steps)
      lower == IF d.lower = 0 THEN none ELSE FindRepresentation(params, AbsVal(d.lower), steps)
      upper == IF d.upper = 1 THEN Routine(<< >>, lower.steps) ELSE FindRepresentation(params, d.upper, lower.steps)
  IN  Routine(lower.items \o <<Push(d.bits), Push(2), Op("EXP")>>
              \o (IF d.upper = 1 THEN << >> ELSE Append(upper.items, Op("MUL")))
              \o (IF d.lower > 0 THEN <<Op("ADD")>> ELSE IF d.lower < 0 THEN <<Op("SUB")>> ELSE << >>),
              upper.steps)

FindRepresentation(params, value, steps) ==
  LET negated == FindRepresentation(params, AllOnes - value, steps)
      try(best, d) ==
        LET new == Compose(params, d, best.steps)
            cheaper == RoutineGas(params, new.items) < RoutineGas(params, best.items)
        IN  IF best.steps = 0 THEN best
            ELSE Routine(IF cheaper THEN new.items ELSE best.items, IF new.steps > 0 THEN new.steps - 1 ELSE 0)
  IN  IF value < 2^(2 * ByteBits) THEN Routine(<<Push(value)>>, steps)
      ELSE IF BytesOfNumber(AllOnes - value) < BytesOfNumber(value)
      THEN Routine(Append(negated.items, Op("NOT")), negated.steps)
      ELSE Walk(try, Routine(<<Push(value)>>, steps), Decompositions(value))

\* The tiny EVM of checkRepresentation: MUL, EXP, ADD, SUB and NOT on a stack
CheckRepresentation(value, routine) ==
  LET failed == <<-1>>
      step(stack, item) ==
        IF stack = failed THEN stack
        ELSE IF item.type = "Push" THEN <<item.data>> \o stack
        ELSE IF \/ ~IsOp(item, {"MUL", "EXP", "ADD", "SUB", "NOT"}) \/ Len(stack) < InstructionInfo[item.data].args
                \/ item = Op("EXP") /\ stack[2] > WordBits - 1
        THEN failed
        ELSE <<Compute(item.data, stack)>> \o SubSeq(stack, InstructionInfo[item.data].args + 1, Len(stack))
  IN  Walk(step, << >>, routine) = <<value>>

----------------------------------------------------------------------------
\* optimiseConstants: [items, thrown]

Multiplicity(items, value) == Cardinality({k \in 1..Len(items) : items[k] = Push(value)})

\* What replaces the pushes of a value; no items if they are left as they are.
Replacement(items, isCreation, runs, value) ==
  LET params == [isCreation |-> isCreation, runs |-> runs, multiplicity |-> Multiplicity(items, value)]
      computed == FindRepresentation(params, value, MaxSteps).items
      literalGas == LiteralGas(params, value)
      copyGas == CopyGas(params, value)
      computeGas == RoutineGas(params, computed)
  IN  [thrown |-> ~CheckRepresentation(value, computed),
       items |-> IF copyGas < literalGas /\ copyGas < computeGas THEN CopyRoutine(value)
                 ELSE IF computeGas < literalGas /\ computeGas <= copyGas THEN computed
                 ELSE << >>]

OptimiseConstants(items, isCreation, runs) ==
  LET values == {items[k].data : k \in {j \in 1..Len(items) : items[j].type = "Push" /\ items[j].data >= 2^ByteBits}}
      replacements == [v \in values |-> Replacement(items, isCreation, runs, v)]
      replaced(item) == IF item.type = "Push" /\ item.data \in values /\ replacements[item.data].items # << >>
                        THEN replacements[item.data].items ELSE <<item>>
  IN  [thrown |-> \E v \in values : replacements[v].thrown,
       items |-> Concat([k \in 1..Len(items) |-> replaced(items[k])])]

-----------------------------------------------------------------------------
(* The meter of paths *)

CONSTANTS Estimates,      \* [code, isCreation, runs, entry]: what is estimated
          Inputs,         \* [stack, input]: the machines the estimate is compared with
          SelectorBits    \* bits of a word below the selector: 224

VARIABLES task,       \* one of Estimates
          items,      \* the code after the constant optimiser
          phase,
          queue,      \* m_queue: one path per index
          highest,    \* m_highestGasUsagePerJumpdest
          gas,        \* the largest consumption of a path that ended
          dropped     \* history: queue() gave a path up for a costlier one

vars == <<task, items, phase, queue, highest, gas, dropped>>

NoPaths == [i \in {} |-> 0]

Init ==
  /\ task \in Estimates
  /\ items = task.code
  /\ phase = "constants"
  /\ queue = NoPaths /\ highest = NoPaths
  /\ gas = 0 /\ dropped = FALSE

Path(index, state, largest, used, visited) ==
  [index |-> index, state |-> state, largest |-> largest, gas |-> used, visited |-> visited]

\* ExpressionClasses::forceEqual: the expression is of the class from now on
ForceEqual(classes, id, item, arguments) ==
  [classes EXCEPT !.expressions = @ @@ (Expression(item, arguments, 0) :> id)]

\* functionalEstimation with a signature: the selector is known, and that there is one.
StateForSelector(selector) ==
  LET hash == Find(NoClasses, Push(selector), << >>, 0)
      zero == Find(hash.classes, Push(0), << >>, 0)
      calldata == Find(zero.classes, Op("CALLDATALOAD"), <<zero.id>>, 0)
      shift == Find(calldata.classes, Push(2^SelectorBits), << >>, 0)
      divided == ForceEqual(shift.classes, hash.id, Op("DIV"), <<calldata.id, shift.id>>)
      size == Find(divided, Op("CALLDATASIZE"), << >>, 0)
      bytes == Find(size.classes, Push((WordBits - SelectorBits) \div ByteBits), << >>, 0)
  IN  [EmptyState EXCEPT !.classes = ForceEqual(bytes.classes, zero.id, Op("LT"), <<size.id, bytes.id>>)]

\* functionalEstimation of an internal function: below its parameters is a tag it returns to.
InvalidTag == 99
StateForFunction(parameters) ==
  LET pushed == FeedItem(EmptyState, PushTag(Local, InvalidTag)).state
  IN  IF parameters = 0 THEN pushed ELSE FeedItem(pushed, Op(SWAP[parameters])).state

StartState(entry) ==
  CASE entry.kind = "selector" -> StateForSelector(entry.selector)
    [] entry.kind = "function" -> StateForFunction(entry.parameters)
    [] entry.kind = "start" -> EmptyState

StartIndex(entry, code) ==
  IF entry.kind = "function" THEN CHOOSE k \in 1..Len(code) : code[k] = Tag(entry.tag) ELSE 1

\* (What the actions compute is a parameter of theirs: TLC explores a definition before it
\* evaluates it, but not its parameters.)
OptimiseBy(optimised(_, _, _), start(_)) ==
  /\ phase = "constants"
  /\ \E r \in {optimised(task.code, task.isCreation, task.runs)} :
       LET index == StartIndex(task.entry, r.items)
       IN  /\ items' = r.items
           /\ phase' = IF r.thrown THEN "thrown" ELSE "paths"
           /\ queue' = (index :> Path(index, start(task.entry), 0, 0, {}))
           /\ highest' = (index :> 0)
  /\ UNCHANGED <<task, gas, dropped>>

OptimiseItems == OptimiseBy(OptimiseConstants, StartState)

----------------------------------------------------------------------------
\* handleQueueItem

\* tagsInExpression: the jump goes to a pushed tag, or nobody knows where.
JumpTags(state) ==
  LET item == Representative(state.classes, state.stack[state.height]).item
  IN  IF item.type = "PushTag" THEN {item.data} ELSE {}

TargetIndex(code, tag) ==
  IF \E k \in 1..Len(code) : code[k] = Tag(tag) THEN CHOOSE k \in 1..Len(code) : code[k] = Tag(tag) ELSE Len(code) + 1

\* The walk along a path: where it is, what it found, and the paths it queues
Queued(code, w, tags) ==
  LET path(tag) == Path(TargetIndex(code, tag), w.meter.state, w.meter.largest, w.gas, w.visited)
  IN  [w EXCEPT !.paths = IF tags = {} THEN @ ELSE Append(@, path(CHOOSE t \in tags : TRUE))]

EndPath(w, used) == [w EXCEPT !.ended = TRUE, !.gas = used]

WalkItem(code, w, index) ==
  LET item == code[index]
      known == Reveal(Reveal(w.meter.state, w.meter.state.height), w.meter.state.height - 1)
      condition == known.stack[known.height - 1]
      nonZero == KnownNonZero(known.classes, condition)
      mayJump == item = Op("JUMP") \/ (item = Op("JUMPI") /\ (nonZero.holds \/ ~KnownZero(known.classes, condition)))
      asked == IF item = Op("JUMPI") THEN [known EXCEPT !.classes = nonZero.classes]
               ELSE IF item = Op("JUMP") THEN Reveal(w.meter.state, w.meter.state.height) ELSE w.meter.state
      tags == IF mayJump THEN JumpTags(asked) ELSE {}
      stops == IF item = Op("JUMPI") THEN nonZero.holds ELSE AltersControlFlow(item)
      meter == EstimateMax([w.meter EXCEPT !.state = asked], item)
      after == Queued(code, [w EXCEPT !.meter = meter, !.gas = Plus(@, meter.gas),
                                !.visited = IF item.type = "Tag" THEN @ \cup {index} ELSE @], tags)
  IN  IF w.ended \/ w.gas = Infinite THEN w
      ELSE IF (item.type = "Tag" /\ index \in w.visited) \/ (mayJump /\ tags = {}) THEN EndPath(w, Infinite)
      ELSE [after EXCEPT !.ended = stops]

WalkPath(code, path) ==
  LET start == [meter |-> Meter(path.state, path.largest), gas |-> path.gas, visited |-> path.visited,
                paths |-> << >>, ended |-> FALSE]
      step(w, index) == WalkItem(code, w, index)
  IN  IF path.index > Len(code) \/ (path.index > 1 /\ code[path.index].type # "Tag") THEN start
      ELSE Walk(step, start, [k \in 1..(Len(code) + 1 - path.index) |-> path.index + k - 1])

\* queue(): only the costliest path to an index is kept.
Enqueue(q, path) ==
  IF path.index \in DOMAIN q.highest /\ Less(path.gas, q.highest[path.index]) THEN [q EXCEPT !.dropped = TRUE]
  ELSE [queue |-> Put(q.queue, path.index, path), highest |-> Put(q.highest, path.index, path.gas),
        dropped |-> q.dropped \/ path.index \in DOMAIN q.queue]

HandleBy(walked(_, _)) ==
  /\ phase = "paths" /\ DOMAIN queue # {} /\ gas # Infinite
  /\ LET last == CHOOSE i \in DOMAIN queue : \A j \in DOMAIN queue : j <= i
     IN  \E w \in {walked(items, queue[last])} :
           LET q == Walk(Enqueue, [queue |-> Keep(queue, DOMAIN queue \ {last}), highest |-> highest, dropped |-> dropped], w.paths)
           IN  /\ queue' = q.queue /\ highest' = q.highest /\ dropped' = q.dropped
               /\ gas' = IF Less(gas, w.gas) THEN w.gas ELSE gas
  /\ UNCHANGED <<task, items, phase>>

HandleQueueItem == HandleBy(WalkPath)

Finish ==
  /\ phase = "paths" /\ (DOMAIN queue = {} \/ gas = Infinite)
  /\ phase' = "end"
  /\ UNCHANGED <<task, items, queue, highest, gas, dropped>>

Next == OptimiseItems \/ HandleQueueItem \/ Finish

Spec == Init /\ [][Next]_vars

----------------------------------------------------------------------------
\* The machine that the estimate is about: at a function its stack has the parameters and
\* the tag to return to; with a selector the input has it.
MachineFor(entry, i) ==
  LET selected == [Started(1, i.stack) EXCEPT !.input = entry.selector * 2^SelectorBits + (i.input % 2^SelectorBits)]
  IN  CASE entry.kind = "selector" -> selected
        [] entry.kind = "function" -> Started(StartIndex(entry, items), SubSeq(i.stack, 1, entry.parameters) \o <<InvalidTag>>)
        [] entry.kind = "start" -> [Started(1, i.stack) EXCEPT !.input = i.input]

\* The code computes what it did before its constants were replaced, and leaves memory as it
\* was; "Invalid constant expression created." is never thrown.
ConstantsPreserved ==
  phase # "constants" =>
    /\ phase # "thrown"
    /\ \A i \in Inputs : Implements(items, 1, task.code, 1, i.stack)

\* No execution uses more gas than estimated, unless the meter gave up a path ("This is not
\* exact as different state might influence higher gas costs at a later point in time").
GasBounded ==
  phase = "end" /\ ~dropped /\ gas # Infinite =>
    \A i \in Inputs : GasUsed(items, MachineFor(task.entry, i), Fuel, 0) <= gas

=============================================================================
