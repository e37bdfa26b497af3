CONSTANTS
  WordBits = 24
  ByteBits = 1
  TagBits = 8
  AddressBits = 8
  KeccakLimit = 48
  Fuel = 60
  MaxSteps = 10
  SelectorBits = 18
  Estimates <- SomeEstimates
  Inputs <- SomeInputs
SPECIFICATION Spec
INVARIANTS ConstantsPreserved GasBounded
CHECK_DEADLOCK FALSE
