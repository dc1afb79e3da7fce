CONSTANTS
    Hash = {h1, h2}
    Handle = {a1, a2, a3, a4}
    NoHash = NoHash
    NoHandle = NoHandle
    Emitting = {h1}
    MaxRefs = 2
SPECIFICATION FairSpec
INVARIANTS
    TypeOK
    CanonicalRegistration
    EventsBalanced
PROPERTIES
    DeadEntriesGo
