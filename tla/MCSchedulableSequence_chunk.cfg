CONSTANTS
    BlockSize = 2
    Inputs = {4}
    Outputs = {1}
    Chunks <- AnyChunk
    MaxDraft = 0
SPECIFICATION Spec
CHECK_DEADLOCK FALSE
INVARIANTS
    RegisteredMeansComputed
