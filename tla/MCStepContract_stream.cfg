CONSTANTS
    Name = {n1}
    NoName = NoName
    MaxRequests = 1
    MaxTokens = 2
    MaxSteps = 2
    Extras = {"facts", "good", "bad", "bare"}
SPECIFICATION FairSpec
INVARIANTS
    TypeOK
    FinishedMeansComplete
PROPERTIES
    NothingAfterTheEnd
    NobodyWaitsInVain
