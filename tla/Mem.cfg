SPECIFICATION MemSpec
CONSTANTS
    NULL = NULL
    OS_HEAP_SIZE = 1024
    Requests <- MCRequests
    MaxLive = 3
INVARIANTS MemTypeOK BlocksTile NeighboursAgree FreeListsMatch RoomIsFound
PROPERTY AllocatorSpec
