------------------------------ MODULE Peephole ------------------------------
(***************************************************************************)
(* eth::PeepholeOptimiser (libevmasm/PeepholeOptimiser.cpp).  A method     *)
(* looks at the items from the current position on; its result is the set  *)
(* of what it does: empty when it does not apply, else the one record that *)
(* says how many items it takes and what it puts out.                      *)
(***************************************************************************)
EXTENDS EVM

Applied(width, out) == {[width |-> width, out |-> out]}

PushTypes == {"Push", "PushTag"}

PushPop(in) ==
  IF /\ Len(in) >= 2 /\ in[2] = Op("POP")
     /\ IsDupInstruction(in[1]) \/ in[1].type \in PushTypes
  THEN Applied(2, << >>) ELSE {}

OpPop(in) ==
  IF /\ Len(in) >= 2 /\ in[2] = Op("POP")
     /\ in[1].type = "Operation"
     /\ InstructionInfo[in[1].data].ret = 1 /\ ~InstructionInfo[in[1].data].sideEffects
  THEN Applied(2, [j \in 1..InstructionInfo[in[1].data].args |-> Op("POP")]) ELSE {}

DoublePush(in) ==
  IF Len(in) >= 2 /\ in[1].type = "Push" /\ in[2].type = "Push" /\ in[1].data = in[2].data
  THEN Applied(2, <<in[1], Op("DUP1")>>) ELSE {}

DoubleSwap(in) ==
  IF Len(in) >= 2 /\ in[1] = in[2] /\ IsSwapInstruction(in[1])
  THEN Applied(2, << >>) ELSE {}

CommutativeSwap(in) ==
  IF Len(in) >= 2 /\ in[1] = Op("SWAP1") /\ IsCommutativeOperation(in[2])
  THEN Applied(2, <<in[2]>>) ELSE {}

SwappableOps == [LT |-> "GT", GT |-> "LT", SLT |-> "SGT", SGT |-> "SLT"]

SwapComparison(in) ==
  IF Len(in) >= 2 /\ in[1] = Op("SWAP1") /\ IsOp(in[2], DOMAIN SwappableOps)
  THEN Applied(2, <<Op(SwappableOps[in[2].data])>>) ELSE {}

JumpToNext(in) ==
  IF /\ Len(in) >= 3
     /\ in[1].type = "PushTag" /\ in[1].sub = Local
     /\ IsOp(in[2], {"JUMP", "JUMPI"})
     /\ in[3].type = "Tag" /\ in[1].data = in[3].data
  THEN Applied(3, IF in[2] = Op("JUMPI") THEN <<Op("POP"), in[3]>> ELSE <<in[3]>>) ELSE {}

\* Everything after a jump (or an end) up to the next tag.
Terminators == {"JUMP", "RETURN", "STOP", "INVALID", "SELFDESTRUCT", "REVERT"}

UnreachableCode(in) ==
  LET tags == {j \in 2..Len(in) : in[j].type = "Tag"}
      next == IF tags = {} THEN Len(in) + 1 ELSE CHOOSE j \in tags : \A l \in tags : j <= l
  IN  IF Len(in) >= 1 /\ IsOp(in[1], Terminators) /\ next > 2
      THEN Applied(next - 1, <<in[1]>>) ELSE {}

TagConjunctions(in) ==
  IF /\ Len(in) >= 3
     /\ in[1].type = "PushTag" /\ in[3] = Op("AND")
     /\ in[2].type = "Push" /\ And(in[2].data, TagMask) = TagMask
  THEN Applied(3, <<in[1]>>) ELSE {}

TruthyAnd(in) ==
  IF Len(in) >= 3 /\ in[1] = Push(0) /\ in[2] = Op("NOT") /\ in[3] = Op("AND")
  THEN Applied(3, << >>) ELSE {}

Identity(in) == Applied(1, <<in[1]>>)

\* The first method that applies.
a ?? b == IF a # {} THEN a ELSE b

\* applyMethods, in the order of its call in optimise()
ApplyMethods(in) ==
  PushPop(in) ?? (OpPop(in) ?? (DoublePush(in) ?? (DoubleSwap(in) ?? (CommutativeSwap(in)
    ?? (SwapComparison(in) ?? (JumpToNext(in) ?? (UnreachableCode(in)
    ?? (TagConjunctions(in) ?? (TruthyAnd(in) ?? Identity(in))))))))))

\* The loop of optimise(): m_optimisedItems when it has passed all items.
OptimisedItems(items) ==
  LET from[i \in 1..(Len(items) + 1)] ==
        IF i > Len(items) THEN << >>
        ELSE CHOOSE out \in {r.out \o from[i + r.width] :
                              r \in UNION {ApplyMethods(in) : in \in {SubSeq(items, i, Len(items))}}} :
               TRUE
  IN  from[1]

NumberOfPops(items) == Cardinality({k \in 1..Len(items) : items[k] = Op("POP")})

\* Mutant: as many pops as before are an improvement too.
ImprovesOrEqual(new, old) ==
  \/ Len(new) < Len(old)
  \/ /\ Len(new) = Len(old)
     /\ BytesOf(new) < BytesOf(old) \/ NumberOfPops(new) >= NumberOfPops(old)

\* The result is taken only if it is better.
Improves(new, old) ==
  \/ Len(new) < Len(old)
  \/ /\ Len(new) = Len(old)
     /\ BytesOf(new) < BytesOf(old) \/ NumberOfPops(new) > NumberOfPops(old)

=============================================================================
