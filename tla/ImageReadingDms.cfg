SPECIFICATION Spec
CONSTANTS
    Sector = 2
    PackedWords = 1
    MaxTable = 16
    MaxSize = 40
    Far = 48
    Units = {2, 4}
    MaxRead = 5
    Images <- TwoCylinders
INVARIANTS
    ReadsTheDisk
CHECK_DEADLOCK FALSE
