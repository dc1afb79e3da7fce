CONSTANTS
    BlockSize = 3
    Inputs = {1, 2, 3, 4, 5, 6, 7, 8}
    Outputs = {0, 1, 2, 3, 4, 5, 6, 7}
    Chunks <- AnyChunk
    MaxDraft = 4
SPECIFICATION Spec
CHECK_DEADLOCK FALSE
INVARIANTS
    TypeOK
    WithinLifetime
    PagesCoverStep
    NeverStuck
    OnlyTailUncomputed
