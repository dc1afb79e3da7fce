----------------------------- MODULE PrefixCache -----------------------------
(***************************************************************************)
(* What a block store promises the code above it, with no locks, handles   *)
(* or pools: a block is free, exclusively owned, published under a hash,   *)
(* a second copy of a published block, or cached.  A hash has at most one  *)
(* canonical (shared or cached) block, a copy never outlives it, and a     *)
(* published block has to be given up before it can be written again.      *)
(***************************************************************************)
CONSTANTS Block, Hash, NoHash

VARIABLES use,  \* Block -> what the block is used for
          key   \* Block -> the hash it is published or cached under

vars == <<use, key>>

Canonical(h) == {b \in Block : use[b] \in {"shared", "cached"} /\ key[b] = h}
Copies(h) == {b \in Block : use[b] = "copy" /\ key[b] = h}

Init ==
    /\ use = [b \in Block |-> "free"]
    /\ key = [b \in Block |-> NoHash]

\* Exclusive ownership comes from free and from cached blocks only.
Take(S) ==
    /\ \A b \in S : use[b] \in {"free", "cached"}
    /\ use' = [b \in Block |-> IF b \in S THEN "exclusive" ELSE use[b]]
    /\ key' = [b \in Block |-> IF b \in S THEN NoHash ELSE key[b]]

Return(b) ==
    /\ use[b] = "exclusive"
    /\ use' = [use EXCEPT ![b] = "free"]
    /\ UNCHANGED key

Publish(b, h) ==
    /\ use[b] = "exclusive" /\ Canonical(h) = {}
    /\ use' = [use EXCEPT ![b] = "shared"]
    /\ key' = [key EXCEPT ![b] = h]

\* A copy next to the canonical block p, which the copy keeps shared.
PublishCopy(b, p, h) ==
    /\ use[b] = "exclusive" /\ p \in Canonical(h)
    /\ use' = [use EXCEPT ![b] = "copy", ![p] = "shared"]
    /\ key' = [key EXCEPT ![b] = h]

Hit(b) ==
    /\ use[b] = "cached"
    /\ use' = [use EXCEPT ![b] = "shared"]
    /\ UNCHANGED key

\* The canonical block is given up only when no copy leans on it.
GiveUp(b) ==
    /\ use[b] = "shared" /\ Copies(key[b]) = {}
    /\ \/ /\ use' = [use EXCEPT ![b] = "cached"]
          /\ UNCHANGED key
       \/ /\ use' = [use EXCEPT ![b] = "free"]
          /\ key' = [key EXCEPT ![b] = NoHash]

GiveUpCopy(b) ==
    /\ use[b] = "copy"
    /\ use' = [use EXCEPT ![b] = "free"]
    /\ key' = [key EXCEPT ![b] = NoHash]

Next ==
    \/ \E S \in SUBSET Block : Take(S)
    \/ \E b \in Block : \/ Return(b)
                        \/ Hit(b)
                        \/ GiveUp(b)
                        \/ GiveUpCopy(b)
                        \/ \E h \in Hash : \/ Publish(b, h)
                                           \/ \E p \in Block : PublishCopy(b, p, h)

Spec == Init /\ [][Next]_vars
=============================================================================
