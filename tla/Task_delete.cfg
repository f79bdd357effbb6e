SPECIFICATION Spec
CONSTANTS
    N = 4
    MaxDelay = 2
    List = {}
    NULL = NULL
    Wild = Wild
    Boot <- MCPair
    Api = {"delay", "suspend", "resume", "create", "delete", "return"}
    HeapBlocks = 8
INVARIANT TickEntriesCount
CHECK_DEADLOCK FALSE
