-------------------------- MODULE SchedulableSequence --------------------------
(***************************************************************************)
(* The two-phase sequence state machine every scheduler of the repository  *)
(* drives its KV through (kvbm-logical integrations/scheduled.rs over      *)
(* integrations/request.rs), as seen through the door RequestKv leaves     *)
(* open (pegainfer-kv-store pool.rs): prefix match, schedule, apply or     *)
(* revert, pad, adopt an external anchor, release.                         *)
(*                                                                         *)
(* Tokens and blocks are counted.  A schedule_* call draws the blocks the  *)
(* step needs, the forward pass writes KV for the step's positions, and    *)
(* apply_* moves kv_position over them and registers blocks, which other   *)
(* requests may match from then on.  A draw the block manager refuses      *)
(* leaves the sequence as it was, and so does every call whose             *)
(* precondition fails: neither is a step here.  Staging and registration   *)
(* are one call, so no block is staged between calls.                      *)
(***************************************************************************)
EXTENDS Integers

CONSTANTS BlockSize,
          Inputs,     \* prompt lengths
          Outputs,    \* max_output_tokens
          Chunks,     \* prefill chunk lengths the scheduler grants short of the prompt's rest
          MaxDraft    \* longest speculative span; 0 when the line does not speculate

ASSUME SequenceAssumption ==
    /\ BlockSize \in Nat \ {0} /\ Inputs \subseteq Nat \ {0} /\ Outputs \subseteq Nat
    /\ Chunks \subseteq Nat \ {0} /\ MaxDraft \in Nat

VARIABLES
    numInput,     \* num_input_tokens
    maxOutput,    \* max_output_tokens
    generated,    \* generated_tokens
    total,        \* tokens of the BlockSequence, pads included
    prefill,      \* prefill_position
    kv,           \* kv_position
    assigned,     \* registered or matched blocks held
    unassigned,   \* mutable blocks held
    state,        \* SequenceState: the operation scheduled, its tokens and its draw
    phase,        \* "live", "padded" by pad_tail_block, or "released"
    lifetime      \* EntitledSeq::lifetime_blocks, frozen at construction

tokens == <<numInput, maxOutput, generated, total>>
vars == <<numInput, maxOutput, generated, total, prefill, kv, assigned, unassigned,
          state, phase, lifetime>>

\* Mutant: plain division.
Floor(n) == n \div BlockSize

\* div_ceil by the block size.
Ceil(n) == (n + BlockSize - 1) \div BlockSize

Less(a, b) == IF a < b THEN a ELSE b

\* usize::saturating_sub.
Minus(a, b) == IF a > b THEN a - b ELSE 0

Idle == [op |-> "idle", tokens |-> 0, blocks |-> 0]

resident == assigned + unassigned
IsComplete == generated >= maxOutput
tail == Minus(total, kv)

Init ==
    /\ numInput \in Inputs /\ maxOutput \in Outputs
    /\ generated = 0 /\ total = numInput
    /\ prefill = 0 /\ kv = 0 /\ assigned = 0 /\ unassigned = 0
    /\ state = Idle /\ phase = "live"
    /\ lifetime = Ceil(numInput + maxOutput)

-----------------------------------------------------------------------------
(* Calls *)

\* The sequence's complete token blocks beyond the assigned ones, as far as
\* mutable blocks are at hand (stage_pending, register_staged).
Pending(t) == Less(Minus(t \div BlockSize, assigned), unassigned)

CompleteAndRegister(t) ==
    /\ assigned' = assigned + Pending(t)
    /\ unassigned' = unassigned - Pending(t)

\* Mutant: a full-prompt match is allowed.
MatchCapWhole == numInput \div BlockSize

\* One input token stays uncached.
MatchCap == (numInput - 1) \div BlockSize

\* The pool matched n leading blocks of a fresh request.
MatchAndAddPrefix(n) ==
    /\ phase = "live" /\ state = Idle /\ resident = 0 /\ prefill = 0
    /\ n \in 1..MatchCap
    /\ assigned' = n
    /\ prefill' = n * BlockSize /\ kv' = n * BlockSize
    /\ UNCHANGED <<tokens, unassigned, state, phase, lifetime>>

\* A schedule_* call that draws: the blocks arrive before the state changes.
Draw(op, n, blocks) ==
    /\ unassigned' = unassigned + blocks
    /\ state' = [op |-> op, tokens |-> n, blocks |-> blocks]
    /\ UNCHANGED <<tokens, prefill, kv, assigned, phase, lifetime>>

SchedulePrefill(n) ==
    /\ phase = "live" /\ state = Idle
    /\ prefill < numInput
    /\ n \in Chunks \cup {numInput - prefill} /\ prefill + n <= numInput
    /\ Draw("prefill", n, Minus(Ceil(prefill + n), resident))

\* The final chunk brings the first generated token, unless none is wanted.
ApplyPrefill ==
    LET new == prefill + state.tokens
        emitted == IF new >= numInput /\ maxOutput > 0 THEN 1 ELSE 0
    IN /\ state.op = "prefill" /\ phase = "live"
       /\ CompleteAndRegister(total)
       /\ prefill' = new /\ kv' = new
       /\ total' = total + emitted /\ generated' = generated + emitted
       /\ state' = Idle
       /\ UNCHANGED <<numInput, maxOutput, phase, lifetime>>

\* require_idle, require_prefill_complete, require_not_complete, require_one_dangling.
MayDecode == state = Idle /\ prefill >= numInput /\ ~IsComplete /\ tail = 1

ScheduleDecode ==
    /\ phase # "released" /\ MayDecode
    /\ Draw("decode", 1, Minus(Minus(total \div BlockSize, assigned) + 1, unassigned))

\* The dangling token's block is registered before the new token is appended.
ApplyDecode ==
    /\ state.op = "decode" /\ phase # "released"
    /\ CompleteAndRegister(total)
    /\ total' = total + 1 /\ generated' = generated + 1 /\ kv' = kv + 1
    /\ state' = Idle
    /\ UNCHANGED <<numInput, maxOutput, prefill, phase, lifetime>>

\* Mutant: the output budget is not counted in the span.
ScheduleSpeculativeUnclamped(n) ==
    /\ phase # "released" /\ MayDecode
    /\ Draw("speculative", n, Minus(Ceil(total + n), resident))

ScheduleSpeculative(n) ==
    LET span == Less(n, maxOutput - generated)
    IN /\ phase # "released" /\ MayDecode
       /\ Draw("speculative", span, Minus(Ceil(total + span), resident))

\* Mutant: the partial block left over is registered along with the complete ones.
ApplySpeculativeRegistersAll(accepted) ==
    LET t == total + accepted
    IN /\ state.op = "speculative" /\ phase # "released"
       /\ accepted <= state.tokens
       /\ total' = t /\ generated' = generated + accepted /\ kv' = kv + accepted
       /\ assigned' = assigned + Less(Minus(t \div BlockSize, assigned) + 1, unassigned)
       /\ unassigned' = 0
       /\ state' = Idle
       /\ UNCHANGED <<numInput, maxOutput, prefill, phase, lifetime>>

\* The accepted tokens are appended first; what they complete is registered,
\* and all but one of the blocks left over go back.
ApplySpeculative(accepted) ==
    LET t == total + accepted
        keep == IF generated + accepted >= maxOutput THEN 0 ELSE 1
    IN /\ state.op = "speculative" /\ phase # "released"
       /\ accepted <= state.tokens
       /\ total' = t /\ generated' = generated + accepted /\ kv' = kv + accepted
       /\ assigned' = assigned + Pending(t)
       /\ unassigned' = Less(unassigned - Pending(t), keep)
       /\ state' = Idle
       /\ UNCHANGED <<numInput, maxOutput, prefill, phase, lifetime>>

\* Mutant: the revert pops one block too many.
RevertScheduleOneMore ==
    /\ state # Idle /\ phase # "released"
    /\ unassigned' = unassigned - state.blocks - 1
    /\ state' = Idle
    /\ UNCHANGED <<tokens, prefill, kv, assigned, phase, lifetime>>

RevertSchedule ==
    /\ state # Idle /\ phase # "released"
    /\ unassigned' = Minus(unassigned, state.blocks)
    /\ state' = Idle
    /\ UNCHANGED <<tokens, prefill, kv, assigned, phase, lifetime>>

\* Completes the partial block with pad tokens and registers it.  The one
\* caller pads a finished prefill and never prefills again.
PadTailBlock ==
    LET t == Ceil(total) * BlockSize
    IN /\ phase = "live" /\ state = Idle /\ prefill >= numInput
       /\ kv % BlockSize # 0
       /\ total' = t
       /\ CompleteAndRegister(t)
       /\ phase' = "padded"
       /\ UNCHANGED <<numInput, maxOutput, generated, prefill, kv, state, lifetime>>

\* The one uncomputed input token becomes the dangling generated token.
AdoptExternalPrefillAnchor ==
    /\ phase = "live" /\ state = Idle
    /\ prefill = kv /\ prefill + 1 = numInput /\ tail = 1 /\ ~IsComplete
    /\ numInput' = numInput - 1 /\ generated' = generated + 1
    /\ UNCHANGED <<maxOutput, total, prefill, kv, assigned, unassigned, state, phase, lifetime>>

\* release() from Idle, or the guards dropped with the request at any point.
Release ==
    /\ phase # "released"
    /\ assigned' = 0 /\ unassigned' = 0
    /\ state' = Idle /\ phase' = "released"
    /\ UNCHANGED <<tokens, prefill, kv, lifetime>>

Next ==
    \/ \E n \in 1..MatchCap : MatchAndAddPrefix(n)
    \/ \E n \in 1..numInput : SchedulePrefill(n)
    \/ ApplyPrefill
    \/ ScheduleDecode
    \/ ApplyDecode
    \/ \E n \in 1..MaxDraft : ScheduleSpeculative(n)
    \/ \E accepted \in 0..MaxDraft : ApplySpeculative(accepted)
    \/ RevertSchedule
    \/ PadTailBlock
    \/ AdoptExternalPrefillAnchor
    \/ Release

Spec == Init /\ [][Next]_vars

-----------------------------------------------------------------------------
(* Properties *)

\* Every counter has its type, and a scheduled operation its span and draw.
TypeOK ==
    /\ numInput \in Nat /\ maxOutput \in Nat /\ generated \in Nat /\ total \in Nat
    /\ prefill \in Nat /\ kv \in Nat /\ assigned \in Nat /\ unassigned \in Nat
    /\ state \in [op : {"idle", "prefill", "decode", "speculative"}, tokens : Nat, blocks : Nat]
    /\ phase \in {"live", "padded", "released"} /\ lifetime \in Nat

\* No mix of prefix hits, chunks, decode and verify steps, reverts, pads and
\* anchor adoption makes a request hold more blocks than the lifetime it was
\* admitted for: EntitledSeq::remaining never goes negative, and the
\* full-lifetime budget of admission covers the peak draw.
WithinLifetime == resident <= lifetime

\* The pages a step hands to the forward pass (step_page_indices) cover every
\* position the pass writes, whatever was drawn, dropped or reverted before.
PagesCoverStep == state # Idle => kv + state.tokens <= resident * BlockSize

\* A live sequence that still owes tokens has a legal next step: input left to
\* prefill, or exactly one dangling token to decode.
NeverStuck ==
    (phase = "live" /\ state = Idle /\ ~IsComplete) => (prefill < numInput \/ tail = 1)

\* A block becomes matchable only after the GPU has computed its KV
\* (RequestSequence::stage_pending, register_staged).
RegisteredMeansComputed == phase = "live" => assigned * BlockSize <= kv

\* What the calls guarantee instead.  While the prompt is being prefilled the
\* uncomputed rows of registered blocks lie in the one block the last chunk ended
\* in (none, when it ended at a block boundary); afterwards the only such row is
\* the one of the dangling token.
OnlyTailUncomputed ==
    phase = "live" => IF prefill < numInput THEN assigned <= Ceil(kv)
                                            ELSE assigned * BlockSize <= kv + 1

\* A decode step leaves no registered row uncomputed, and so also settles the
\* one a verify step before it registered early.
DecodeSettles ==
    [][state.op = "decode" /\ generated' > generated => assigned' * BlockSize <= kv']_vars
=============================================================================
