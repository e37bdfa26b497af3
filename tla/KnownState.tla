---------------------------- MODULE KnownState ----------------------------
(***************************************************************************)
(* eth::ExpressionClasses and the rule matcher of libevmasm                *)
(* (ExpressionClasses.cpp, SimplificationRules.cpp).  The value is a       *)
(* record: the representative expression of each class, by its id, and the *)
(* class of each expression seen.  A lookup may add classes, so it gives   *)
(* back the classes with the id.                                           *)
(*                                                                         *)
(* eth::KnownState (libevmasm/KnownState.cpp): what is known of stack,     *)
(* storage and memory while the items of a block are fed one by one.  The  *)
(* contents are maps from stack heights, or classes of slots, to classes.  *)
(* The constants 32 and 128 of the code are WordBytes and KeccakLimit.     *)
(***************************************************************************)
EXTENDS EVM, RuleList, Walking

Expression(item, arguments, sequenceNumber) ==
  [item |-> item, arguments |-> arguments, seq |-> sequenceNumber]

NoClasses == [representatives |-> << >>, expressions |-> [e \in {} |-> 0]]
Found(classes, id) == [classes |-> classes, id |-> id]
NotSimplified == 0

UndefinedItem(data) == [type |-> "UndefinedItem", sub |-> Local, data |-> data]

IsDeterministic(item) == ~IsOp(item, NotDeterministic)
Representative(classes, id) == classes.representatives[id]
IsConstant(classes, id) == Representative(classes, id).item.type = "Push"
ConstantOf(classes, id) == Representative(classes, id).item.data

----------------------------------------------------------------------------
\* Rules::findFirstMatch and Pattern::matches

RulesFor ==
  [i \in Instruction |-> SelectSeq(SimplificationRules, LAMBDA rule : rule.pattern.f = i)]

MatchesBaseItem(p, item) ==
  CASE p.k = "any" -> TRUE
    [] p.k = "const" -> item.type = "Push"
    [] p.k = "lit" -> item.type = "Push" /\ item.data = p.n
    [] p.k = "op" -> item.type = "Operation" /\ item.data = p.f

RECURSIVE Matches(_, _, _, _, _)

\* The match groups after matching an expression that has this id, or none if it fails.
Matches(classes, p, expression, id, groups) ==
  LET fresh == p.k \in {"any", "const"} /\ p.f \notin DOMAIN groups
      same == p.k \in {"any", "const"} /\ p.f \in DOMAIN groups => groups[p.f] = id
      bound == IF fresh THEN groups @@ (p.f :> id) ELSE groups
      argument(sets, k) ==
        UNION {Matches(classes, p.args[k], Representative(classes, expression.arguments[k]),
                       expression.arguments[k], g) : g \in sets}
  IN  IF MatchesBaseItem(p, expression.item) /\ same
      THEN WalkDomain(argument, {bound}, p.args) ELSE {}

NoGroups == [g \in {} |-> 0]

FirstMatch(classes, expression) ==
  LET rules == RulesFor[expression.item.data]
      groups(k) == Matches(classes, rules[k].pattern, expression, NotSimplified, NoGroups)
      matching[k \in 1..(Len(rules) + 1)] ==
        IF k > Len(rules) THEN {}
        ELSE LET m == groups(k)
             IN  IF m = {} THEN matching[k + 1] ELSE {[action |-> rules[k].action, groups |-> g] : g \in m}
  IN  matching[1]

----------------------------------------------------------------------------
\* find, tryToSimplify and rebuildExpression

RECURSIVE Find(_, _, _, _), RebuildExpression(_, _, _)

TryToSimplify(classes, expression) ==
  LET matches == IF expression.item.type = "Operation" /\ IsDeterministic(expression.item)
                 THEN FirstMatch(classes, expression) ELSE {}
  IN  IF matches = {} THEN Found(classes, NotSimplified)
      ELSE LET m == CHOOSE x \in matches : TRUE IN RebuildExpression(classes, m.action, m.groups)

RebuildExpression(classes, template, groups) ==
  LET constant(p) == IF p.k = "lit" THEN p.n ELSE ConstantOf(classes, groups[p.f])
      value == ConstantArithmetic(template.f, [k \in 1..Len(template.args) |-> constant(template.args[k])])
      argument(built, p) ==
        LET r == RebuildExpression(built.classes, p, groups)
        IN  [classes |-> r.classes, ids |-> Append(built.ids, r.id)]
      arguments == Walk(argument, [classes |-> classes, ids |-> << >>], template.args)
  IN  CASE template.k \in {"any", "const"} -> Found(classes, groups[template.f])
        [] template.k = "lit" -> Find(classes, Push(template.n), << >>, 0)
        [] template.k = "val" -> Find(classes, Push(value), << >>, 0)
        [] template.k = "op" -> Find(arguments.classes, Op(template.f), arguments.ids, 0)

SortedPair(s) == IF s[1] <= s[2] THEN s ELSE <<s[2], s[1]>>

\* The class of an expression, which is added unless it is known or can be simplified.
Find(classes, item, arguments, sequenceNumber) ==
  LET sorted == IF IsCommutativeOperation(item) THEN SortedPair(arguments) ELSE arguments
      e == Expression(item, sorted, sequenceNumber)
      simple == TryToSimplify(classes, e)
      added == Append(simple.classes.representatives, e)
      insert(id) == simple.classes.expressions @@ (e :> id)
  IN  IF IsDeterministic(item) /\ e \in DOMAIN classes.expressions
      THEN Found(classes, classes.expressions[e])
      ELSE IF simple.id # NotSimplified
      THEN Found([simple.classes EXCEPT !.expressions = insert(simple.id)], simple.id)
      ELSE Found([representatives |-> added, expressions |-> insert(Len(added))], Len(added))

----------------------------------------------------------------------------
\* What is known of classes: [classes, holds]

Known(classes, holds) == [classes |-> classes, holds |-> holds]

KnownZero(classes, id) == IsConstant(classes, id) /\ ConstantOf(classes, id) = 0

KnownNonZero(classes, id) ==
  LET r == Find(classes, Op("ISZERO"), <<id>>, 0) IN Known(r.classes, KnownZero(r.classes, r.id))

KnownToBeDifferent(classes, a, b) ==
  LET r == Find(classes, Op("SUB"), <<a, b>>, 0) IN KnownNonZero(r.classes, r.id)

\* The words at the two addresses do not overlap: the difference is outside -31..31.
KnownToBeDifferentBy32(classes, a, b) ==
  LET r == Find(classes, Op("SUB"), <<a, b>>, 0)
  IN  Known(r.classes, /\ IsConstant(r.classes, r.id)
                       /\ Unsigned(ConstantOf(r.classes, r.id) + WordBytes - 1) > 2 * (WordBytes - 1))

-----------------------------------------------------------------------------
(* KnownState *)

CONSTANT KeccakLimit    \* the longest data a hash is computed of
ASSUME KeccakAssumption == KeccakLimit \in Nat

Nothing == [x \in {} |-> 0]
Keep(map, S) == [x \in DOMAIN map \cap S |-> map[x]]
Put(map, x, y) == (x :> y) @@ map

EmptyState ==
  [height |-> 0, stack |-> Nothing, storage |-> Nothing, memory |-> Nothing, seq |-> 1,
   hashes |-> Nothing, classes |-> NoClasses]

\* stackElement: an element that is not known yet is a class of its own
Reveal(state, height) ==
  LET r == Find(state.classes, UndefinedItem(height), << >>, 0)
  IN  IF height \in DOMAIN state.stack THEN state
      ELSE [state EXCEPT !.classes = r.classes, !.stack = Put(@, height, r.id)]

RevealArguments(state, n) ==
  WalkDomain(LAMBDA s, k : Reveal(s, state.height + 1 - k), state, [k \in 1..n |-> k])

SetClass(state, height, r) == [state EXCEPT !.classes = r.classes, !.stack = Put(@, height, r.id)]

----------------------------------------------------------------------------
\* Storage and memory.  A store gives the new state and the store operation, if it has one.

NoStore == << >>
Stored(state, op) == [state |-> state, op |-> op]

\* Mutant: knowledge about other slots survives a store.
ForgetNothing(state, target, slot, value) == state

\* The contents that a store to the slot cannot change.
Forget(state, target, slot, value) ==
  LET contents == IF target = "Storage" THEN state.storage ELSE state.memory
      test(classes, x) == IF target = "Storage" THEN KnownToBeDifferent(classes, x, slot)
                          ELSE KnownToBeDifferentBy32(classes, x, slot)
      visit(w, x) ==
        LET r == test(w.classes, x)
        IN  [classes |-> r.classes,
             kept |-> IF r.holds \/ (target = "Storage" /\ contents[x] = value)
                      THEN w.kept \cup {x} ELSE w.kept]
      all == Walk(visit, [classes |-> state.classes, kept |-> {}], Ascending(DOMAIN contents))
      left == Keep(contents, all.kept)
  IN  IF target = "Storage" THEN [state EXCEPT !.classes = all.classes, !.storage = left]
      ELSE [state EXCEPT !.classes = all.classes, !.memory = left]

\* storeInStorage and storeInMemory
StoreIn(state, target, slot, value) ==
  LET contents == IF target = "Storage" THEN state.storage ELSE state.memory
      left == Forget(state, target, slot, value)
      item == IF target = "Storage" THEN Op("SSTORE") ELSE Op("MSTORE")
      r == Find(left.classes, item, <<slot, value>>, state.seq + 1)
      after == [left EXCEPT !.classes = r.classes, !.seq = state.seq + 2]
  IN  IF slot \in DOMAIN contents /\ contents[slot] = value THEN Stored(state, NoStore)
      ELSE Stored(IF target = "Storage" THEN [after EXCEPT !.storage = Put(@, slot, value)]
                  ELSE [after EXCEPT !.memory = Put(@, slot, value)],
                  <<[target |-> target, slot |-> slot, seq |-> state.seq + 1, expression |-> r.id]>>)

\* loadFromStorage and loadFromMemory: the state with the content of the slot known
LoadFromStorage(state, slot) ==
  LET r == Find(state.classes, Op("SLOAD"), <<slot>>, state.seq)
  IN  IF slot \in DOMAIN state.storage THEN state
      ELSE [state EXCEPT !.classes = r.classes, !.storage = Put(@, slot, r.id)]

LoadFromMemory(state, slot) ==
  LET r == Find(state.classes, Op("MLOAD"), <<slot>>, state.seq)
  IN  IF slot \in DOMAIN state.memory THEN state
      ELSE [state EXCEPT !.classes = r.classes, !.memory = Put(@, slot, r.id)]

\* applyKeccak256: the hash is a function of the words it reads, and a constant if they are
ApplyKeccak256(state, start, length, height) ==
  LET words == (ConstantOf(state.classes, length) + WordBytes - 1) \div WordBytes
      read(w, k) ==
        LET offset == Find(w.state.classes, Push((k - 1) * WordBytes), << >>, 0)
            slot == Find(offset.classes, Op("ADD"), <<start, offset.id>>, 0)
            loaded == LoadFromMemory([w.state EXCEPT !.classes = slot.classes], slot.id)
        IN  [state |-> loaded, arguments |-> Append(w.arguments, loaded.memory[slot.id])]
      all == WalkDomain(read, [state |-> state, arguments |-> << >>], [k \in 1..words |-> k])
      constant == \A k \in 1..words : IsConstant(all.state.classes, all.arguments[k])
      data == Concat([k \in 1..words |-> BigEndian(ConstantOf(all.state.classes, all.arguments[k]))])
      hash == Push(Keccak(SubSeq(data, 1, ConstantOf(state.classes, length))))
      unknown(s) == Find(s.classes, Op("KECCAK256"), <<start, length>>, s.seq)
      r == IF constant THEN Find(all.state.classes, hash, << >>, 0) ELSE unknown(all.state)
      new == SetClass(all.state, height, r)
  IN  IF ~IsConstant(state.classes, length) \/ ConstantOf(state.classes, length) > KeccakLimit
      THEN SetClass(state, height, unknown(state))
      ELSE IF all.arguments \in DOMAIN all.state.hashes
      THEN [all.state EXCEPT !.stack = Put(@, height, all.state.hashes[all.arguments])]
      ELSE [new EXCEPT !.hashes = Put(@, all.arguments, r.id)]

----------------------------------------------------------------------------
\* feedItem

FeedPush(state, item) ==
  [SetClass(state, state.height + 1, Find(state.classes, item, << >>, 0)) EXCEPT !.height = @ + 1]

\* A call and the like: what it may have changed is forgotten.
Invalidate(state, instruction) ==
  LET memory == instruction \in InvalidatesMemory
      storage == instruction \in InvalidatesStorage
  IN  [state EXCEPT !.memory = IF memory THEN Nothing ELSE @, !.storage = IF storage THEN Nothing ELSE @,
                    !.seq = IF memory \/ storage THEN @ + 2 ELSE @]

Deposit(instruction) == InstructionInfo[instruction].ret - InstructionInfo[instruction].args

\* The operation on the elements of the stack, which stays as high as it is
Apply(state, instruction) ==
  LET info == InstructionInfo[instruction]
      known == RevealArguments(state, info.args)
      arg(k) == known.stack[state.height + 1 - k]
      to == state.height + Deposit(instruction)
      changed == Invalidate(known, instruction)
      loaded == IF instruction = "SLOAD" THEN LoadFromStorage(known, arg(1)) ELSE LoadFromMemory(known, arg(1))
      content == IF instruction = "SLOAD" THEN loaded.storage ELSE loaded.memory
      result == Find(changed.classes, Op(instruction), [k \in 1..info.args |-> arg(k)], 0)
  IN  CASE instruction = "SSTORE" -> StoreIn(known, "Storage", arg(1), arg(2))
        [] instruction = "MSTORE" -> StoreIn(known, "Memory", arg(1), arg(2))
        [] instruction \in {"SLOAD", "MLOAD"} ->
             Stored([loaded EXCEPT !.stack = Put(@, to, content[arg(1)])], NoStore)
        [] instruction = "KECCAK256" -> Stored(ApplyKeccak256(known, arg(1), arg(2), to), NoStore)
        [] OTHER -> Stored(IF info.ret = 1 THEN SetClass(changed, to, result) ELSE changed, NoStore)

FeedItem(state, item) ==
  LET h == state.height
      n == InstructionInfo[item.data].args
      dup == Reveal(state, h + 1 - n)
      swap == Reveal(Reveal(state, h), h + 1 - n)
      r == CASE IsDupInstruction(item) -> Stored([dup EXCEPT !.stack = Put(@, h + 1, dup.stack[h + 1 - n])], NoStore)
             [] IsSwapInstruction(item) ->
                  Stored([swap EXCEPT !.stack = Put(Put(@, h, swap.stack[h + 1 - n]), h + 1 - n, swap.stack[h])], NoStore)
             [] item.data = "POP" -> Stored(state, NoStore)
             [] OTHER -> Apply(state, item.data)
      top == h + Deposit(item.data)
  IN  CASE item.type = "Tag" -> Stored(state, NoStore)
        [] item.type \notin {"Tag", "Operation"} -> Stored(FeedPush(state, item), NoStore)
        [] item.type = "Operation" ->
             [r EXCEPT !.state.height = top, !.state.stack = Keep(@, {x \in DOMAIN @ : x <= top})]

=============================================================================
