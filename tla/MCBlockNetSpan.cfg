CONSTANTS
    BlockSize = 4
    SectorsPerCluster = 2
    NbBlocks = 3
    CacheMax = 1
    GroupLen = 2
    Prefetch <- MCPrefetch
    Value <- MCValue
    Image <- MCImage
    Garbage <- MCGarbage
    Request <- MCSpanningRequest
    Addr = {a1, a2, a3}
    NULL = NULL
SPECIFICATION Spec
PROPERTIES
    ReadsModifiedData
CHECK_DEADLOCK FALSE
