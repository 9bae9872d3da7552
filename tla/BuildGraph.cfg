SPECIFICATION FairSpec
CONSTANTS
    Outputs <- MCOutputs
    Externals <- MCExternals
    Providers <- MCProviders
    ProviderOf <- MCProviderOf
    Graphs <- MCGraphs
    Platforms <- MCPlatforms
    None = None
CHECK_DEADLOCK FALSE
INVARIANTS TypeOK IndexIsGreatest NothingMissing NeededIsClosure OrderIsTopological OnlyCyclesFail
PROPERTY Terminates
