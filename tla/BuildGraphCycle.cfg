SPECIFICATION Spec
CONSTANTS
    Outputs <- PairOutputs
    Externals <- NoExternals
    Providers <- PairProviders
    ProviderOf <- PairProviderOf
    Graphs <- PairGraphs
    Platforms <- PairPlatforms
    None = None
CHECK_DEADLOCK FALSE
INVARIANT TargetsAreOrdered
