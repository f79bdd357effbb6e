SPECIFICATION FlagsSpec
CONSTANTS
    N = 5
    MaxDelay = 1
    List <- MCLists
    NULL = NULL
    Wild = Wild
    list0 = list0
    list1 = list1
    WaitTasks <- MCWaitTasks
    Boot <- MCTasks
    Api = {}
    HeapBlocks = 9
    Posters <- MCPosters
    Pends <- MCPends
    Masks <- MCMasks
INVARIANTS FlagsTypeOK WaitersInActiveList AnyWaitersFindNone
PROPERTIES PostSatisfiesAll ConsumedOnce
