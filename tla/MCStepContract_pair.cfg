CONSTANTS
    Name = {n1, n2}
    NoName = NoName
    MaxRequests = 2
    MaxTokens = 2
    MaxSteps = 1
    Extras = {"bare"}
SPECIFICATION Spec
SYMMETRY Sym
INVARIANTS
    OneAnswer
    TokensInOrder
    NeverForgotten
