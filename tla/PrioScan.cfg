SPECIFICATION ScanSpec
CONSTANTS
    N = 31
    Used <- MCUsed
    Memory <- MCMemory
PROPERTY ScanAnswersATop
