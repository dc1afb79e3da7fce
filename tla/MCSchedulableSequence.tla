------------------------- MODULE MCSchedulableSequence -------------------------
(* Model-checking instance of SchedulableSequence: any chunk length. *)
EXTENDS SchedulableSequence

AnyChunk == 1..8
=============================================================================
