SPECIFICATION Spec
CONSTANTS
    Threads = {t1}
    Catalogues <- UbiCatalogue
    Formats <- MCFormats
    Containers <- MCContainers
    Transforms <- MCTransforms
    Images <- MCImages
    Matched <- MCMatched
    Inside <- MCInside
    MaxDepth = 3
    MaxCalls = 2
    None = None
    Error = Error
    DataFormat = DataFormat
    Sector = 6
    PackedWords = 1
    MaxTable = 16
    Byte = 64
    Part = 7
    BootSum = 3285
    Absent = Absent
CHECK_DEADLOCK FALSE
INVARIANT OnlySameBytesArePassed
