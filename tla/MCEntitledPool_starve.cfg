SPECIFICATION Spec
CONSTANTS
    r1 = r1
    r2 = r2
    r3 = r3
    Req = {r1, r2}
    NoReq = NoReq
    Block = {b1, b2, b3, b4}
    NoBlock = NoBlock
    NoHash = NoHash
    Chain <- Shared
    Prompt <- MCPrompt
    Cap <- MCCap
    Life <- MCLife
    Cached <- Left
SYMMETRY Symmetric
CHECK_DEADLOCK FALSE
INVARIANTS
    AdmittedDrawSucceeds
