CONSTANTS
  a = a
  b = b
  Source = {s1, s2, s3}
  Char = {a, b}
  Contexts <- SomeContexts
  Prefixes <- SomePrefixes
  Targets <- SomeTargets
  MaxRemappings = 3
  Paths <- SomePaths
  Importers <- SomeImporters
  Letter = {x}
  Colon = colon
  Equals = equals
  MaxLength = 8
SPECIFICATION ImportsSpec
INVARIANTS ClosureComputed TopologicalUpToCycles ChosenIsClosest MetadataReproducesRemapping
CHECK_DEADLOCK FALSE
