CONSTANTS
  WordBits = 3
  ByteBits = 1
  TagBits = 3
  AddressBits = 2
  KeccakLimit = 6
  ReachableStack = 5
  Fuel = 16
  MaxCount = 10
  Tasks <- SomeTasks
  Stacks <- SomeStacks
SPECIFICATION Spec
INVARIANTS CodePreserved ReplacementsSound
PROPERTY Terminates
CHECK_DEADLOCK FALSE
