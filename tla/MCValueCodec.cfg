CONSTANTS
    NUM = 0
    CODEPT = 1
    HASH_ONLY = 2
    TUPLE = 3
    IntBytes = 2
    PcBytes = 2
    Ints <- MCInts
    Pcs = {256}
    OpCodes = {7}
    NextHashes = {513}
    TupleSizes <- MCTupleSizes
    SetIndexes <- MCSetIndexes
    MaxStack = 2
    MaxDepth = 2
SPECIFICATION Spec
INVARIANT MarshalRoundTrip
INVARIANT CheckpointRoundTrip
INVARIANT ShallowFormParses
