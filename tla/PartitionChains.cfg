SPECIFICATION Spec
CONSTANTS
    Heads = 2
    PerTrack = 1
    Endless = 1000
    MaxLinks = 3
    Disks <- MCDisks
INVARIANTS
    TypeOK
    ChainIsForward
    IndexesDistinct
    FindsAll
PROPERTIES
    Ends
CHECK_DEADLOCK FALSE
