SPECIFICATION FairSpec
CONSTANTS
    N = 4
    MaxDelay = 3
    List = {}
    NULL = NULL
    Wild = Wild
    Boot <- MCPair
    Api = {"delay", "suspend", "resume"}
    HeapBlocks = 6
INVARIANTS TypeOK TimerMatchesDelay
PROPERTIES ClockSpec HighestRuns DelayEnds
