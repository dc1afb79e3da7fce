---------------------------- MODULE MCEntitledPool ----------------------------
(* Three requests that share a prompt, which may be cached already. *)
EXTENDS EntitledPool, TLC

CONSTANTS r1, r2, r3

\* r1: two prompt blocks, page-aligned, so one of them may be reused; r2: one
\* complete block and a partial one; r3: two complete blocks and a partial one.
Shared == (r1 :> <<"a1", "a2", "a3">>) @@ (r2 :> <<"a1", "a2">>) @@ (r3 :> <<"a1", "a2">>)
MCPrompt == (r1 :> 2) @@ (r2 :> 1) @@ (r3 :> 2)
MCCap == (r1 :> 1) @@ (r2 :> 1) @@ (r3 :> 2)
MCLife == (r1 :> 3) @@ (r2 :> 2) @@ (r3 :> 3)

Left == {"a1", "a2"}

Symmetric == Permutations(Block)
===============================================================================
