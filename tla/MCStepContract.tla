---------------------------- MODULE MCStepContract ----------------------------
(* The step contract on a small instance: wire ids are interchangeable.   *)
EXTENDS StepContract, TLC

Sym == Permutations(Name)
=============================================================================
