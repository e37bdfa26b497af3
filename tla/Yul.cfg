CONSTANTS
  WordBits = 4
  ByteBits = 2
  AddressBits = 3
  YulFuel = 12
  TagBits = 4
  Fuel = 600
  ReachableSlots = 9
  InlineSize = 6
  InlineSizeConstArg = 12
  Rounds = 2
  YulPrograms <- SomePrograms
  Inputs <- SomeInputs
SPECIFICATION Spec
INVARIANTS OptimisedIsValid NoAssertionFails BehaviourKept CodeBehaves RulesSound
CHECK_DEADLOCK FALSE
