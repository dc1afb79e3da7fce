--------------------------- MODULE MCGlm52Engine ---------------------------
EXTENDS Glm52Engine

CONSTANTS p1, p2, n1, n2, e1, b1

MCKind == [r \in Req |-> CASE r \in {p1, p2} -> "plain" [] r \in {n1, n2} -> "native"
                           [] r = e1 -> "eos" [] OTHER -> "bad"]
MCIn == [r \in Req |-> IF r \in {p1, p2} THEN 7 ELSE 4]
MCMaxOut == [r \in Req |-> 2]

Drafting == [reqs |-> {p1, n1}, fickle |-> {n1}, usable |-> 5,
             cache |-> TRUE, tier |-> TRUE, drafter |-> TRUE]
Ending == [reqs |-> {e1, b1}, fickle |-> {e1}, usable |-> 5,
             cache |-> TRUE, tier |-> TRUE, drafter |-> TRUE]
Restoring == [reqs |-> {p1, p2}, fickle |-> {}, usable |-> 4,
             cache |-> TRUE, tier |-> TRUE, drafter |-> FALSE]
Ahead == [reqs |-> {p1, p2, n1}, fickle |-> {p1}, usable |-> 6,
             cache |-> FALSE, tier |-> FALSE, drafter |-> FALSE]
Floor == [reqs |-> {n1, n2}, fickle |-> {}, usable |-> 4,
             cache |-> TRUE, tier |-> TRUE, drafter |-> TRUE]

AllSetups == {Drafting, Ending, Restoring, Ahead}
AheadSetup == {Ahead}
FloorSetup == {Floor}
=============================================================================
