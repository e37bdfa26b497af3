CONSTANT Assemblies <- SomeAssemblies
SPECIFICATION AsmSpec
INVARIANTS TagsFit ReferencesExact LinksInPlace
PROPERTY AssembleEnds
CHECK_DEADLOCK FALSE
