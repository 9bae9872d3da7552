SPECIFICATION Spec
CONSTANTS
    p1 = p1  p2 = p2  i1 = i1  i2 = i2  h1 = h1  h2 = h2
    Processes <- MCProcesses
    Instances <- OneInstance
    Hashes <- MCHashes
    None = None
    MaxEdits = 1
    MaxKills = 0
PROPERTY CollectsOnlyOrphans
