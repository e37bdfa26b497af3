CONSTANTS
  WordBits = 3
  ByteBits = 1
  TagBits = 3
  AddressBits = 2
  KeccakLimit = 6
  ReachableStack = 5
  Fuel = 16
  MaxCount = 10
  Tasks <- TwoHashes
  Stacks <- SomeStacks
SPECIFICATION Spec
INVARIANT CodePreserved
CHECK_DEADLOCK FALSE
