SPECIFICATION SemSpec
CONSTANTS
    N = 4
    MaxDelay = 1
    List <- MCSems
    NULL = NULL
    Wild = Wild
    s1 = s1
    Boot <- MCPair
    Api = {}
    HeapBlocks = 6
    Sems <- MCSems
    SemBoot <- MCSems
    SemApi = {"take", "give"}
    InitCount = 0
    SemLimit = 1
    MaxGive = 1
INVARIANT WaitersAreListed
