--------------------------- MODULE MCBlockRegistry ---------------------------
(* Model-checking instance of BlockRegistry: interchangeable addresses. *)
EXTENDS BlockRegistry, TLC

Sym == Permutations(Handle)
=============================================================================
