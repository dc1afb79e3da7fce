----------------------------- MODULE MCBlockStore -----------------------------
(* Model-checking instance of BlockStore, for safety and liveness at once: *)
(* no symmetry.                                                            *)
EXTENDS BlockStore
=============================================================================
