------------------- MODULE CommonSubexpressionEliminator -------------------
(***************************************************************************)
(* eth::CommonSubexpressionEliminator and CSECodeGenerator                 *)
(* (libevmasm/CommonSubexpressionEliminator.cpp): a block is fed to a      *)
(* KnownState, and the stack, stores and loads it ends with are generated  *)
(* anew from the classes.  An exception ends the generation: its name is   *)
(* kept in the field thrown of the generator, and each step of the         *)
(* generator leaves a generator that has thrown as it is.                  *)
(***************************************************************************)
EXTENDS KnownState

CONSTANT ReachableStack    \* the deepest element DUP and SWAP reach: 16
ASSUME ReachableAssumption == ReachableStack \in 1..16

OptimizerException == "OptimizerException"
StackTooDeep == "StackTooDeepException"
NotAvailable == "ItemNotAvailableException"

Throw(g, exception) == [g EXCEPT !.thrown = exception]
Throws(g) == g.thrown # ""

ItemDeposit(item) == IF item.type = "Operation" THEN Deposit(item.data) ELSE 1
AppendItem(g, item) == [g EXCEPT !.items = Append(@, item), !.height = @ + ItemDeposit(item)]

\* m_stack[height] = class, with m_classPositions; and the reverse
Place(g, height, c) ==
  [g EXCEPT !.stack = Put(@, height, c),
            !.positions = Put(@, c, (IF c \in DOMAIN @ THEN @[c] ELSE {}) \cup {height})]
Erase(g, height) ==
  [g EXCEPT !.positions[g.stack[height]] = @ \ {height}, !.stack = Keep(@, DOMAIN @ \ {height})]

Highest(S) == CHOOSE x \in S : \A y \in S : y <= x
ClassElementPosition(g, c) == Highest(g.positions[c])
HasPosition(g, c) == c \in DOMAIN g.positions /\ g.positions[c] # {}

----------------------------------------------------------------------------
\* appendDup, appendOrRemoveSwap, removeStackTopIfPossible

AppendDup(g, from) ==
  LET n == 1 + g.height - from
  IN  CASE Throws(g) -> g
        [] ~Throws(g) /\ n > ReachableStack -> Throw(g, StackTooDeep)
        [] ~Throws(g) /\ n < 1 -> Throw(g, OptimizerException)
        [] OTHER -> Place(AppendItem(g, Op(DUP[n])), g.height + 1, g.stack[from])

\* Two equal swaps in a row cancel out.
CancelSwaps(g) ==
  LET n == Len(g.items)
  IN  IF n >= 2 /\ IsSwapInstruction(g.items[n]) /\ g.items[n - 1] = g.items[n]
      THEN [g EXCEPT !.items = SubSeq(@, 1, n - 2)] ELSE g

AppendOrRemoveSwap(g, from) ==
  LET n == g.height - from
      top == g.stack[g.height]
      other == g.stack[from]
      swapped == Place(Place(Erase(Erase(g, g.height), from), from, top), g.height, other)
  IN  CASE Throws(g) \/ n = 0 -> g
        [] ~Throws(g) /\ n > ReachableStack -> Throw(g, StackTooDeep)
        [] ~Throws(g) /\ n < 0 -> Throw(g, OptimizerException)
        [] OTHER -> CancelSwaps(AppendItem(IF top = other THEN g ELSE swapped, Op(SWAP[n])))

\* The element may leave its position: another copy stays, or no class still needs it.
CanBeRemoved(g, c, result, from) ==
  LET haveCopy == Cardinality(g.positions[c]) > 1
  IN  IF c \in g.final
      THEN haveCopy /\ (from \in DOMAIN g.target => g.target[from] # c)
      ELSE haveCopy \/ \A p \in g.neededBy : p[1] = c => p[2] = result \/ p[2] \in DOMAIN g.positions

NoResult == 0
TopCanBeRemoved(g) ==
  /\ ~Throws(g) /\ DOMAIN g.stack # {}
  /\ g.height \in DOMAIN g.stack /\ CanBeRemoved(g, g.stack[g.height], NoResult, g.height)

RemoveStackTopIfPossible(g) ==
  IF ~Throws(g) /\ DOMAIN g.stack # {} /\ g.height \notin DOMAIN g.stack THEN Throw(g, OptimizerException)
  ELSE IF TopCanBeRemoved(g) THEN AppendItem(Erase(g, g.height), Op("POP"))
  ELSE g

RECURSIVE RemoveSurplus(_)
RemoveSurplus(g) ==
  LET next == RemoveStackTopIfPossible(g)
  IN  IF ~Throws(next) /\ TopCanBeRemoved(g) THEN RemoveSurplus(next) ELSE next

----------------------------------------------------------------------------
\* addDependencies: what has to be generated, and before what

KnownToBeIndependent(classes, e, slot) ==
  LET from == e.arguments[1]
      difference == Find(classes, Op("SUB"), <<slot, from>>, 0)
      c == difference.classes
      offset == ConstantOf(c, difference.id)
      short == IsConstant(c, e.arguments[2])
      length == ConstantOf(c, e.arguments[2])
  IN  CASE e.item.data = "SLOAD" -> KnownToBeDifferent(classes, slot, from)
        [] e.item.data = "MLOAD" -> KnownToBeDifferentBy32(classes, slot, from)
        [] e.item.data = "KECCAK256" ->
             Known(c, \/ short /\ length = 0
                      \/ /\ IsConstant(c, difference.id)
                         /\ \/ Signed(offset) <= -WordBytes
                            \/ short /\ Signed(offset) >= 0 /\ offset >= length)

\* The last of these stores, all to one slot, before the sequence number; the first if none.
LatestStore(ops, sequenceNumber) ==
  LET earlier == {k \in 2..Len(ops) : ops[k].seq < sequenceNumber}
  IN  ops[IF earlier = {} THEN 1 ELSE Highest(earlier)].expression

RECURSIVE AddDependencies(_, _)

AddDependencies(g, c) ==
  LET e == Representative(g.classes, c)
      need(w, d) == [AddDependencies(w, d) EXCEPT !.neededBy = @ \cup {<<d, c>>}]
      withArguments == Walk(need, g, e.arguments)
      target == IF e.item = Op("SLOAD") THEN "Storage" ELSE "Memory"
      needStore(w, s) ==
        LET known == KnownToBeIndependent(w.classes, e, s.slot)
            asked == [w EXCEPT !.classes = known.classes]
        IN  IF s.target # target \/ s.ops[1].seq > e.seq THEN w
            ELSE IF known.holds THEN asked ELSE need(asked, LatestStore(s.ops, e.seq))
  IN  IF Throws(g) \/ c \in DOMAIN g.positions \/ (\E p \in g.neededBy : p[1] = c) THEN g
      ELSE IF e.item.type = "UndefinedItem" THEN Throw(g, NotAvailable)
      ELSE IF ~IsOp(e.item, {"SLOAD", "MLOAD", "KECCAK256"}) \/ Throws(withArguments) THEN withArguments
      ELSE Walk(needStore, withArguments, g.stores)

----------------------------------------------------------------------------
\* generateClassElement

\* One argument, or two, are brought to the top of the stack in their order: copied, or
\* moved if their place can be given up.
ArrangeOne(g, a, c) ==
  IF CanBeRemoved(g, a, c, ClassElementPosition(g, a)) THEN AppendOrRemoveSwap(g, ClassElementPosition(g, a))
  ELSE AppendDup(g, ClassElementPosition(g, a))

ArrangeTwo(g, a, b, c) ==
  LET removable(w, x) == CanBeRemoved(w, x, c, ClassElementPosition(w, x))
      move(w, x) == IF Throws(w) THEN w ELSE AppendOrRemoveSwap(w, ClassElementPosition(w, x))
      copy(w, x) == IF Throws(w) THEN w ELSE AppendDup(w, ClassElementPosition(w, x))
      moved == move(g, b)
      copied == copy(g, a)
  IN  IF removable(g, b)
      THEN CASE Throws(moved) -> moved
             [] ~Throws(moved) /\ a = b -> AppendDup(moved, moved.height)
             [] ~Throws(moved) /\ a # b /\ removable(moved, a) ->
                  move(AppendOrRemoveSwap(moved, moved.height - 1), a)
             [] OTHER -> copy(moved, a)
      ELSE IF a = b THEN AppendDup(copied, copied.height)
      ELSE IF removable(g, a) THEN LET w == copy(move(g, a), b) IN AppendOrRemoveSwap(w, w.height - 1)
      ELSE copy(copy(g, b), a)

RECURSIVE DropSwaps(_)
DropSwaps(g) ==
  IF g.items # << >> /\ g.items[Len(g.items)] = Op("SWAP1")
  THEN DropSwaps(AppendOrRemoveSwap(g, g.height - 1)) ELSE g

\* The arguments are on top: the item takes them and its class is generated.
Emit(g, e, c) ==
  LET n == Len(e.arguments)
      ready == IF IsCommutativeOperation(e.item) THEN DropSwaps(g) ELSE g
      taken == WalkDomain(LAMBDA w, k : Erase(w, ready.height + 1 - k), ready, e.arguments)
      done == AppendItem(taken, e.item)
      present == \A k \in 1..n : g.height + 1 - k \in DOMAIN g.stack /\ g.stack[g.height + 1 - k] = e.arguments[k]
      gives == e.item.type # "Operation" \/ InstructionInfo[e.item.data].ret = 1
  IN  CASE Throws(g) -> g
        [] ~Throws(g) /\ (n > 2 \/ ~present) -> Throw(g, OptimizerException)
        [] ~Throws(g) /\ n <= 2 /\ present /\ gives -> Place(done, done.height, c)
        [] OTHER -> [done EXCEPT !.positions = @ @@ (c :> {})]

RECURSIVE GenerateClassElement(_, _, _)

GenerateClassElement(g, c, allowSequenced) ==
  LET high == \E x \in DOMAIN g.positions : \E p \in g.positions[x] : p > g.height
      clean == RemoveStackTopIfPossible(g)
      e == Representative(g.classes, c)
      n == Len(e.arguments)
      all == WalkBack(LAMBDA a, w : GenerateClassElement(w, a, FALSE), e.arguments, clean)
      arranged == IF Throws(all) \/ (\E k \in 1..n : ~HasPosition(all, e.arguments[k])) THEN Throw(all, IF Throws(all) THEN all.thrown ELSE OptimizerException)
                  ELSE IF n = 1 THEN ArrangeOne(all, e.arguments[1], c)
                  ELSE IF n = 2 THEN ArrangeTwo(all, e.arguments[1], e.arguments[2], c)
                  ELSE all
  IN  IF Throws(g) THEN g
      ELSE IF high \/ Throws(clean) THEN Throw(g, OptimizerException)
      ELSE IF c \in DOMAIN clean.positions
      THEN IF clean.positions[c] = {} THEN Throw(clean, OptimizerException) ELSE clean
      ELSE IF (e.seq # 0 /\ ~allowSequenced) \/ e.item.type = "UndefinedItem" THEN Throw(clean, OptimizerException)
      ELSE Emit(arranged, e, c)

----------------------------------------------------------------------------
\* generateCode

\* The needed classes with a sequence number, in its order
Sequenced(g) ==
  LET ids == {id \in UNION {{p[1], p[2]} : p \in g.neededBy} : Representative(g.classes, id).seq # 0}
      seq(id) == Representative(g.classes, id).seq
      before(x, y) == seq(x) < seq(y) \/ (seq(x) = seq(y) /\ x < y)
  IN  [k \in 1..Cardinality(ids) |-> CHOOSE x \in ids : Cardinality({y \in ids : before(y, x)}) = k - 1]

GenerateSequenced(g, initialSeq) ==
  LET ids == Sequenced(g)
      generate(w, id) == IF id \in DOMAIN w.positions THEN w ELSE GenerateClassElement(w, id, TRUE)
  IN  IF Throws(g) THEN g
      ELSE IF \E k \in 1..Len(ids) : Representative(g.classes, ids[k]).seq < initialSeq THEN Throw(g, StackTooDeep)
      ELSE Walk(generate, g, ids)

\* The class is brought to its place in the target stack.
GenerateTarget(g, height) ==
  LET c == g.target[height]
      made == GenerateClassElement(g, c, FALSE)
      position == ClassElementPosition(made, c)
      moved == IF position < height THEN AppendDup(made, position) ELSE AppendOrRemoveSwap(made, position)
  IN  IF Throws(g) \/ (height \in DOMAIN g.stack /\ g.stack[height] = c) THEN g
      ELSE IF Throws(made) THEN made
      ELSE IF ~HasPosition(made, c) THEN Throw(made, OptimizerException)
      ELSE IF height \in made.positions[c] THEN made
      ELSE AppendOrRemoveSwap(moved, height)

\* m_storeOperations: by target (memory first) and slot
GroupStores(ops) ==
  LET of(target) ==
        LET slots == Ascending({ops[k].slot : k \in {j \in 1..Len(ops) : ops[j].target = target}})
        IN  [n \in 1..Len(slots) |->
               [target |-> target, slot |-> slots[n],
                ops |-> SelectSeq(ops, LAMBDA op : op.target = target /\ op.slot = slots[n])]]
  IN  of("Memory") \o of("Storage")

GenerateCode(classes, storeOps, initialSeq, initialHeight, initial, target) ==
  LET empty == [items |-> << >>, height |-> initialHeight, stack |-> Nothing, positions |-> Nothing,
                target |-> target, final |-> {target[h] : h \in DOMAIN target}, neededBy |-> {},
                classes |-> classes, stores |-> GroupStores(storeOps), thrown |-> ""]
      heights == Ascending(DOMAIN target)
      placed == Walk(LAMBDA g, h : Place(g, h, initial[h]), empty, Ascending(DOMAIN initial))
      stored == Walk(LAMBDA g, s : AddDependencies(g, s.ops[Len(s.ops)].expression), placed, placed.stores)
      needed == Walk(LAMBDA g, h : AddDependencies(g, target[h]), stored, heights)
      made == RemoveSurplus(Walk(GenerateTarget, GenerateSequenced(needed, initialSeq), heights))
      finalHeight == IF target # Nothing THEN Highest(DOMAIN target)
                     ELSE IF initial # Nothing THEN Ascending(DOMAIN initial)[1] - 1
                     ELSE initialHeight
  IN  IF ~Throws(made) /\ made.height # finalHeight THEN Throw(made, OptimizerException) ELSE made

----------------------------------------------------------------------------
\* feedItems, optimizeBreakingItem and getOptimizedItems, from an empty state

Eliminator == [state |-> EmptyState, ops |-> << >>, breaking |-> << >>]

Feed(e, item) ==
  LET r == FeedItem(e.state, item) IN [e EXCEPT !.state = r.state, !.ops = @ \o r.op]

OptimizeBreakingItem(e) ==
  LET known == [e EXCEPT !.state = Reveal(@, @.height - 1)]
      argument == known.state.stack[e.state.height - 1]
      nonZero == KnownNonZero(known.state.classes, argument)
      asked == [known EXCEPT !.state.classes = nonZero.classes]
      popped(w) == Feed(Feed(w, Op("POP")), Op("POP"))
  IN  CASE e.breaking = <<Op("JUMPI")>> ->
             IF nonZero.holds THEN [Feed(Feed(asked, Op("SWAP1")), Op("POP")) EXCEPT !.breaking = <<Op("JUMP")>>]
             ELSE IF KnownZero(asked.state.classes, argument) THEN [popped(asked) EXCEPT !.breaking = << >>]
             ELSE asked
        [] e.breaking = <<Op("RETURN")>> ->
             IF KnownZero(known.state.classes, argument) THEN [popped(known) EXCEPT !.breaking = <<Op("STOP")>>]
             ELSE known
        [] OTHER -> e

\* [items, thrown]
GetOptimizedItems(eliminator) ==
  LET e == OptimizeBreakingItem(eliminator)
      lowest == IF e.state.stack = Nothing THEN e.state.height + 1
                ELSE Ascending(DOMAIN e.state.stack \cup {e.state.height + 1})[1]
      start == Walk(Reveal, [EmptyState EXCEPT !.classes = e.state.classes],
                    [k \in 1..(1 - lowest) |-> lowest + k - 1])
      end == Walk(Reveal, [e.state EXCEPT !.classes = start.classes],
                  [k \in 1..(e.state.height + 1 - lowest) |-> lowest + k - 1])
      g == GenerateCode(end.classes, e.ops, EmptyState.seq, EmptyState.height, start.stack, end.stack)
  IN  [items |-> g.items \o e.breaking, thrown |-> g.thrown]

BreaksBlock(item, usesMSize) ==
  \/ item.type \in {"Tag", "UndefinedItem"}
  \/ item.type = "Operation" /\ BreaksCSE(item.data, usesMSize)

OptimizedChunk(chunk, usesMSize) ==
  LET n == Len(chunk)
      breaks == n > 0 /\ BreaksBlock(chunk[n], usesMSize)
      fed == Walk(Feed, Eliminator, IF breaks THEN SubSeq(chunk, 1, n - 1) ELSE chunk)
  IN  GetOptimizedItems([fed EXCEPT !.breaking = IF breaks THEN <<chunk[n]>> ELSE << >>])

\* Where the chunks of the items end: at items that break the analysis, and at the end
Chunks(items, usesMSize) ==
  LET ends == Ascending({k \in 1..Len(items) : k = Len(items) \/ BreaksBlock(items[k], usesMSize)})
  IN  [n \in 1..Len(ends) |-> SubSeq(items, IF n = 1 THEN 1 ELSE ends[n - 1] + 1, ends[n])]

=============================================================================
