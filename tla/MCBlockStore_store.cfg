CONSTANTS
    Block = {b1, b2}
    Hash = {h1, h2}
    Inner = {i1, i2, i3}
    NoBlock = NoBlock
    NoHash = NoHash
    NoInner = NoInner
    DefaultReset = FALSE
    MaxRefs = 2
    MaxPending = 1
SPECIFICATION FairSpec
INVARIANTS
    TypeOK
    PoolsAgree
    HeldSlotsBelong
    DuplicatePinsPrimary
    OptOutNeverCached
    PresenceIsShadow
PROPERTIES
    CacheSpec
    UnreachableBlocksReturn
