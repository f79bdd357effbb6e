SPECIFICATION DriverSpec
CONSTANTS
    N = 4
    MaxDelay = 1
    List <- MCSems
    NULL = NULL
    Wild = Wild
    s1 = s1
    s2 = s2
    Boot <- MCPair
    Api = {}
    HeapBlocks = 8
    Sems <- MCSems
    SemBoot = {}
    SemApi = {"semcreate"}
    InitCount = 0
    SemLimit = 1
    MaxGive = 1
    Kinds = {"uart", "i2c"}
    DevApi = {"open", "config", "enable", "disable", "poll", "send", "receive"}
INVARIANTS  LockHasHolder
 
SYMMETRY MCSymmetry
