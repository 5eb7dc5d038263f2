CONSTANTS
    Streams <- MCStreams
    READ_LINE_CHUNCK_SIZE <- MCChunk
    FileSizes <- MCFileSizes
    BodySizes <- MCBodySizes
    MaxShort <- MCMaxShort
    Ranges <- MCRanges
    p1 = p1
    p2 = p2
    Processes <- MCProcesses
    LOG_FILE_KEEP <- MCKeep
    MaxLogTime <- MCMaxLogTime
    ArgLists <- MCArgLists
    Texts <- MCTexts
    Urls <- MCUrls
SYMMETRY MCSymmetry
SPECIFICATION MCSpec
INVARIANTS
    LinesAreTheStream
    ExchangeIsWhole
    PortsAccounted
    LogKept
    TextRoundTrip
CHECK_DEADLOCK FALSE
