CONSTANTS
  WordBits = 8
  ByteBits = 2
  AddressBytes = 2
  SelectorBytes = 1
  InternalBytes = 1
  PrecisionBits = 20
  MaxDigits = 3
  FixedDigits = 1
  ExponentMax = 15
  TagBits = 8
  Fuel = 400
  BitwiseShifting = FALSE
  Returndata = TRUE
  LengthLimit = 64
  StaticCall = TRUE
  MaxEncodedSize = 1000
  Optimize = FALSE
  GasForOutside = TRUE
  CallGas = 7
  Stipend = 2
  Hash <- NoHash
  Operands <- SomeOperands
  OperatedTypes <- SomeOperatedTypes
  Contracts <- SomeContracts
  Structs <- NoStructs
  Enums <- SomeEnums
  ValueTypes <- SomeTypes
  Literals <- SomeLiterals
  Neighbours = 179
SPECIFICATION Spec
INVARIANTS ValueKept StopsAsMeant NeighboursKept
CHECK_DEADLOCK FALSE
