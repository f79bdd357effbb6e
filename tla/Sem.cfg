SPECIFICATION SemFairSpec
CONSTANTS
    N = 4
    MaxDelay = 2
    List <- MCSems
    NULL = NULL
    Wild = Wild
    s1 = s1
    Boot <- MCPair
    Api = {}
    HeapBlocks = 7
    Sems <- MCSems
    SemBoot = {}
    SemApi = {"take", "give", "semcreate", "semdelete"}
    InitCount = 1
    SemLimit = 1
    MaxGive = 2
INVARIANTS SemTypeOK ReadyIffUnblocked SleepersCount 
PROPERTY TimedTakeEnds
