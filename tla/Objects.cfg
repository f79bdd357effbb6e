SPECIFICATION ObjectsSpec
CHECK_DEADLOCK FALSE
CONSTANTS
    N = 4
    MaxDelay = 2
    List <- MCLists
    NULL = NULL
    Wild = Wild
    slots = slots
    messages = messages
    owners = owners
    SlotWait = slots
    InsertWait = messages
    TasksPending = owners
    Boot <- MCPair
    Api = {"delay"}
    HeapBlocks = 9
    Slots = 2
    Users <- MCUsers
INVARIANTS ObjectsTypeOK  QueueReadyIffUnblocked ReceiversAreListed
INVARIANTS MutualExclusion NobodyWaitsForFree RaisedIsOwner
CONSTRAINT MCBounds
PROPERTY FifoSpec
