CONSTANTS
  WordBits = 12
  ByteBits = 3
  AddressBytes = 2
  SelectorBytes = 2
  InternalBytes = 2
  PrecisionBits = 20
  MaxDigits = 3
  FixedDigits = 1
  ExponentMax = 15
  TagBits = 12
  Fuel = 400
  BitwiseShifting = FALSE
  Returndata = TRUE
  StaticCall = TRUE
  LengthLimit = 64
  MaxEncodedSize = 1000
  Optimize = FALSE
  GasForOutside = TRUE
  CallGas = 7
  Stipend = 2
  MaxList = 5
  Menus = {"Copying"}
  Lengths = {0, 4}
  MaxText = 5
  MaxSteps = 1500
  Contracts <- SampleContracts
  Structs <- NoStructs
  Enums <- NoEnums
  Hash <- SignatureHash
SPECIFICATION Spec
INVARIANTS CopyClearsLeftovers
