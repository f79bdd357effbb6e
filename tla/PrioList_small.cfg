SPECIFICATION Spec
CONSTANTS
    N = 70
    Used <- MCUsed
    Memory <- MCMemory
INVARIANTS TypeOK GroupMirrorsTable FindIsHighest
PROPERTY AbsSpec
