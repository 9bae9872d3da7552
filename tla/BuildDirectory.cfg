SPECIFICATION FairSpec
CONSTANTS
    p1 = p1  p2 = p2  i1 = i1  i2 = i2  h1 = h1  h2 = h2
    Processes <- MCProcesses
    Instances <- MCInstances
    Hashes <- MCHashes
    None = None
    MaxEdits = 1
    MaxKills = 2
INVARIANTS TypeOK Exclusive WorkMatchesMarker
PROPERTIES CollectionSparesRunning LockIsFreed
