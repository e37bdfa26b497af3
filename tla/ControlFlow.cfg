CONSTANTS None = None
          v = v
          w = w
          Variables <- TwoVariables
          Flows <- AllFlows
          MaxErrorsAllowed = 3
          MaxWarningsAllowed = 3
          MaxReports = 5
          MaxDepth = 32
          Sources <- AllSources
          SpareTokens <- SlippedIn
SPECIFICATION FlowSpec
INVARIANTS FlowEquations ReportsEveryPath ReportsOnlyPaths ErrorsAccountedFor ParsedAsWritten NothingIgnored
PROPERTY SearchEnds
CHECK_DEADLOCK FALSE
