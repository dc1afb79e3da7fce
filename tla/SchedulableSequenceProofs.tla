----------------------- MODULE SchedulableSequenceProofs -----------------------
(***************************************************************************)
(* For every block size, prompt length, output budget, chunking and draft  *)
(* length: the lifetime reservation covers the sequence's peak draw, the   *)
(* pages of a step cover what the step writes, a live sequence never runs  *)
(* out of legal steps, and registration runs ahead of the computed KV by   *)
(* no more than the tail.                                                  *)
(***************************************************************************)
EXTENDS SchedulableSequence, TLAPS

\* A position is covered by L blocks when it lies within their rows.
Capacity == lifetime * BlockSize

\* The token counts: everything the sequence may ever hold fits the lifetime,
\* and before padding the tokens are the input and what was generated.
TokensFit ==
    /\ generated <= maxOutput
    /\ numInput + maxOutput <= Capacity
    /\ total <= Capacity
    /\ numInput + generated <= total
    /\ phase = "live" => total = numInput + generated

\* Where kv_position stands: with the prefill while it lasts, one token short
\* of the tokens afterwards.
PositionExact ==
    /\ prefill < numInput => kv = prefill /\ generated = 0
    /\ prefill >= numInput /\ maxOutput > 0 => kv + 1 = numInput + generated
    /\ state.op = "prefill" => prefill + state.tokens <= numInput /\ prefill < numInput
    /\ state.op \in {"decode", "speculative"} =>
           /\ prefill >= numInput /\ total = numInput + generated
           /\ generated + state.tokens <= maxOutput /\ generated < maxOutput
    /\ state.op = "decode" => state.tokens = 1

\* A padded tail leaves more than one token uncomputed, so that the sequence
\* cannot decode past its capacity.
PaddedStops ==
    (phase = "padded" /\ ~IsComplete) => (total = numInput + generated \/ total >= kv + 2)

\* The blocks: registered ones hold complete token blocks only.
BlocksFit ==
    /\ assigned * BlockSize <= total
    /\ resident <= lifetime

IInv == TypeOK /\ TokensFit /\ PositionExact /\ PaddedStops /\ BlocksFit /\ PagesCoverStep

\* While the prompt is prefilled, the blocks held are those of the computed
\* positions and, once a chunk is scheduled, those of its positions; a revert
\* gives the difference back.
DrawnPrefix ==
    (phase = "live" /\ prefill < numInput) =>
        /\ state.blocks <= unassigned
        /\ resident - state.blocks <= Ceil(kv)
        /\ resident <= Ceil(kv + state.tokens)

\* A prompt whose request wants no output is computed to its last token.
PromptComputed == (prefill >= numInput /\ maxOutput = 0) => kv = numInput /\ generated = 0

RowsInv == DrawnPrefix /\ PromptComputed

-----------------------------------------------------------------------------
(* Arithmetic *)

\* What integer division means.
LEMMA DivFacts ==
    ASSUME NEW n \in Nat, NEW b \in Nat \ {0}
    PROVE  /\ n \div b \in Nat
           /\ (n \div b) * b <= n
           /\ n < (n \div b) * b + b
OBVIOUS

\* Multiplication by the block size keeps and reflects the order.
LEMMA Cancel ==
    ASSUME NEW x \in Nat, NEW y \in Nat, NEW b \in Nat \ {0}, x * b < y * b
    PROVE  x < y
OBVIOUS

\* The order-keeping half, with the types of the products.
LEMMA Scale ==
    ASSUME NEW x \in Nat, NEW y \in Nat, NEW b \in Nat \ {0}, x <= y
    PROVE  x * b <= y * b /\ x * b \in Nat /\ y * b \in Nat
OBVIOUS

\* div_ceil covers its argument, and is the least number of blocks that does.
LEMMA CeilFacts ==
    ASSUME NEW n \in Nat
    PROVE  /\ Ceil(n) \in Nat
           /\ n <= Ceil(n) * BlockSize
           /\ \A l \in Nat : n <= l * BlockSize => Ceil(n) <= l
<1>1. BlockSize \in Nat \ {0} /\ n + BlockSize - 1 \in Nat
  BY SequenceAssumption
<1>2. /\ Ceil(n) \in Nat
      /\ Ceil(n) * BlockSize <= n + BlockSize - 1
      /\ n + BlockSize - 1 < Ceil(n) * BlockSize + BlockSize
  BY <1>1, DivFacts DEF Ceil
<1>3. ASSUME NEW l \in Nat, n <= l * BlockSize
      PROVE  Ceil(n) <= l
  <2>1. Ceil(n) * BlockSize < (l + 1) * BlockSize
    BY <1>1, <1>2, <1>3
  <2>2. Ceil(n) < l + 1
    BY <1>1, <1>2, <2>1, Cancel
  <2> QED
    BY <1>2, <2>2
<1> HIDE DEF Ceil
<1>4. n <= Ceil(n) * BlockSize
  <2> DEFINE m == Ceil(n) * BlockSize
  <2>1. m \in Nat
    BY <1>1, <1>2, Scale
  <2>2. n + BlockSize - 1 < m + BlockSize
    BY <1>2
  <2> HIDE DEF m
  <2>3. n <= m
    BY <1>1, <2>1, <2>2
  <2> QED
    BY <2>3 DEF m
<1> QED
  BY <1>2, <1>3, <1>4

\* What complete_and_register_pending registers: no more than the blocks at
\* hand, and only complete token blocks.
LEMMA PendingFacts ==
    ASSUME NEW t \in Nat, assigned \in Nat, unassigned \in Nat, assigned * BlockSize <= t
    PROVE  /\ Pending(t) \in Nat
           /\ Pending(t) <= unassigned
           /\ (assigned + Pending(t)) * BlockSize <= t
<1> DEFINE q == t \div BlockSize
<1>1. BlockSize \in Nat \ {0}
  BY SequenceAssumption
<1>2. q \in Nat /\ q * BlockSize <= t /\ t < q * BlockSize + BlockSize
  BY <1>1, DivFacts
<1>3. assigned * BlockSize < (q + 1) * BlockSize
  BY <1>1, <1>2
<1> HIDE DEF q
<1>4. assigned < q + 1
  BY <1>1, <1>2, <1>3, Cancel
<1>5. /\ Pending(t) \in Nat /\ Pending(t) <= unassigned
      /\ assigned + Pending(t) <= q
  BY <1>2, <1>4 DEF Pending, Less, Minus, q
<1>6. (assigned + Pending(t)) * BlockSize <= q * BlockSize
  BY <1>1, <1>2, <1>5, Scale
<1> QED
  BY <1>1, <1>2, <1>5, <1>6, Scale

-----------------------------------------------------------------------------
(* The inductive invariant *)

\* A new sequence satisfies the invariant: no block held, the whole prompt pending.
LEMMA InitIInv == Init => IInv
<1> SUFFICES ASSUME Init PROVE IInv
  OBVIOUS
<1>1. numInput \in Nat \ {0} /\ maxOutput \in Nat /\ BlockSize \in Nat \ {0}
  BY SequenceAssumption DEF Init
<1>2. lifetime \in Nat /\ numInput + maxOutput <= lifetime * BlockSize
  BY <1>1, CeilFacts DEF Init
<1>3. lifetime * BlockSize \in Nat /\ 0 * BlockSize = 0
  BY <1>1, <1>2, Scale
<1> QED
  BY <1>1, <1>2, <1>3 DEF Init, IInv, TypeOK, TokensFit, PositionExact, PaddedStops, BlocksFit,
     PagesCoverStep, Capacity, Idle, resident, IsComplete

\* A match stops short of the prompt's last token.
LEMMA MatchShort ==
    ASSUME numInput \in Nat, NEW n \in Nat, n \in 1..MatchCap
    PROVE  numInput # 0 /\ n * BlockSize <= numInput - 1
<1>1. BlockSize \in Nat \ {0}
  BY SequenceAssumption
<1>2. numInput # 0
  <2>1. (0 - 1) \div BlockSize <= 0
    BY <1>1
  <2> QED
    BY <1>1, <2>1 DEF MatchCap
<1> QED
  <2> DEFINE q == (numInput - 1) \div BlockSize
  <2>1. q \in Nat /\ q * BlockSize <= numInput - 1
    BY <1>1, <1>2, DivFacts
  <2>2. n <= q
    BY <1>1 DEF MatchCap
  <2> HIDE DEF q
  <2>3. n * BlockSize <= q * BlockSize /\ q * BlockSize \in Nat /\ n * BlockSize \in Nat
    BY <1>1, <2>1, <2>2, Scale
  <2> QED
    BY <1>1, <1>2, <2>1, <2>3

\* A match of leading prompt blocks leaves input to prefill and stays within
\* the prompt.
LEMMA MatchStep ==
    ASSUME IInv, NEW n \in Nat, MatchAndAddPrefix(n)
    PROVE  IInv'
<1> USE DEF MatchAndAddPrefix, tokens
<1>1. BlockSize \in Nat \ {0} /\ lifetime \in Nat /\ numInput \in Nat /\ n \in 1..MatchCap
  BY SequenceAssumption DEF IInv, TypeOK
<1>2. numInput # 0
  BY <1>1, MatchShort
<1>3. n * BlockSize <= numInput - 1
  BY <1>1, MatchShort
<1>4. n * BlockSize \in Nat /\ lifetime * BlockSize \in Nat
  BY <1>1, Scale
<1>5. n < lifetime
  <2>1. n * BlockSize < lifetime * BlockSize
    BY <1>1, <1>3, <1>4 DEF IInv, TypeOK, TokensFit, Capacity
  <2> QED
    BY <1>1, <2>1, Cancel
<1> QED
  BY <1>1, <1>2, <1>3, <1>4, <1>5 DEF IInv, TypeOK, TokensFit, PositionExact, PaddedStops,
     BlocksFit, PagesCoverStep, Capacity, Idle, resident, IsComplete

\* A draw up to a total of "need" blocks that covers the step's positions and
\* fits the lifetime keeps the block facts.
LEMMA DrawStep ==
    ASSUME IInv, state = Idle, phase # "released",
           NEW op \in {"prefill", "decode", "speculative"}, NEW n \in Nat, NEW need \in Nat,
           need <= lifetime, kv + n <= need * BlockSize,
           NEW blocks \in Nat, blocks = Minus(need, resident), Draw(op, n, blocks),
           op = "prefill" => prefill + n <= numInput /\ prefill < numInput,
           op # "prefill" => /\ prefill >= numInput /\ total = numInput + generated
                             /\ generated + n <= maxOutput /\ generated < maxOutput,
           op = "decode" => n = 1
    PROVE  IInv'
<1> USE DEF Draw, tokens
<1>1. BlockSize \in Nat \ {0} /\ resident \in Nat /\ lifetime \in Nat /\ kv \in Nat
  BY SequenceAssumption DEF IInv, TypeOK, resident
<1>2. resident' \in Nat /\ need <= resident' /\ resident' <= lifetime
  BY <1>1 DEF IInv, TypeOK, BlocksFit, resident, Minus
<1>3. kv + n <= resident' * BlockSize
  <2>1. /\ need * BlockSize <= resident' * BlockSize
        /\ need * BlockSize \in Nat /\ resident' * BlockSize \in Nat
    BY <1>1, <1>2, Scale
  <2> QED
    BY <1>1, <2>1
<1>4. /\ state'.op = op /\ state'.tokens = n
      /\ state' \in [op : {"idle", "prefill", "decode", "speculative"}, tokens : Nat, blocks : Nat]
  OBVIOUS
<1>5. TypeOK' /\ BlocksFit' /\ PagesCoverStep'
  BY <1>1, <1>2, <1>3, <1>4 DEF IInv, TypeOK, BlocksFit, PagesCoverStep, resident
<1>6. TokensFit' /\ PaddedStops'
  BY DEF IInv, TokensFit, PaddedStops, Capacity, IsComplete
<1>7. PositionExact'
  BY <1>4 DEF IInv, PositionExact
<1> QED
  BY <1>5, <1>6, <1>7 DEF IInv

\* A scheduled chunk draws the blocks up to its end, which the prompt, and so
\* the lifetime, covers.
LEMMA SchedulePrefillStep ==
    ASSUME IInv, NEW n \in Nat, SchedulePrefill(n)
    PROVE  IInv'
<1> USE DEF SchedulePrefill
<1>1. BlockSize \in Nat \ {0} /\ lifetime \in Nat /\ prefill \in Nat /\ resident \in Nat
  BY SequenceAssumption DEF IInv, TypeOK, resident
<1>2. prefill + n \in Nat /\ prefill + n <= lifetime * BlockSize /\ kv = prefill
  <2>1. lifetime * BlockSize \in Nat
    BY <1>1, Scale
  <2> QED
    BY <1>1, <2>1 DEF IInv, TypeOK, TokensFit, PositionExact, Capacity
<1>3. /\ Ceil(prefill + n) \in Nat
      /\ Ceil(prefill + n) <= lifetime
      /\ prefill + n <= Ceil(prefill + n) * BlockSize
  BY <1>1, <1>2, CeilFacts
<1> DEFINE need == Ceil(prefill + n)
           blocks == Minus(need, resident)
<1> HIDE DEF need
<1>4. blocks \in Nat /\ need \in Nat
  BY <1>1, <1>3 DEF Minus, need
<1>5. Draw("prefill", n, blocks) /\ state = Idle /\ phase # "released"
  BY DEF need
<1>6. need <= lifetime /\ kv + n <= need * BlockSize
  BY <1>2, <1>3 DEF need
<1>7. prefill + n <= numInput /\ prefill < numInput
  OBVIOUS
<1> HIDE DEF blocks
<1>8. blocks = Minus(need, resident)
  BY DEF blocks
<1> QED
  BY <1>4, <1>5, <1>6, <1>7, <1>8, DrawStep

\* The tokens a decode or verify step starts from.
LEMMA DecodeStart ==
    ASSUME IInv, MayDecode, phase # "released"
    PROVE  /\ total = numInput + generated /\ kv + 1 = total
           /\ prefill >= numInput /\ generated < maxOutput
<1>1. generated < maxOutput /\ prefill >= numInput /\ tail = 1
  BY DEF MayDecode, IsComplete, IInv, TypeOK
<1>2. kv + 1 = total
  BY <1>1 DEF tail, Minus, IInv, TypeOK
<1>3. phase \in {"live", "padded"}
  BY DEF IInv, TypeOK
<1>4. total = numInput + generated
  BY <1>1, <1>2, <1>3 DEF IInv, TypeOK, TokensFit, PaddedStops, IsComplete
<1> QED
  BY <1>1, <1>2, <1>4

\* A decode step draws at most the block of the dangling token, which the
\* lifetime still covers because an output token is owed.
LEMMA ScheduleDecodeStep ==
    ASSUME IInv, ScheduleDecode
    PROVE  IInv'
<1> DEFINE q == total \div BlockSize
           blocks == Minus(q + 1, resident)
<1>1. /\ BlockSize \in Nat \ {0} /\ lifetime \in Nat /\ total \in Nat
      /\ assigned \in Nat /\ unassigned \in Nat /\ resident \in Nat /\ kv \in Nat
      /\ assigned * BlockSize <= total
  BY SequenceAssumption DEF IInv, TypeOK, BlocksFit, resident
<1>2. /\ total = numInput + generated /\ kv + 1 = total
      /\ prefill >= numInput /\ generated < maxOutput
      /\ state = Idle /\ phase # "released"
  BY DecodeStart DEF ScheduleDecode, MayDecode
<1>3. q \in Nat /\ q * BlockSize <= total /\ total < q * BlockSize + BlockSize
  BY <1>1, DivFacts
<1> HIDE DEF q
<1>4. assigned <= q
  <2>1. assigned * BlockSize < (q + 1) * BlockSize
    BY <1>1, <1>3
  <2> QED
    BY <1>1, <1>3, <2>1, Cancel
<1>5. q + 1 <= lifetime
  <2>1. total < lifetime * BlockSize /\ lifetime * BlockSize \in Nat /\ q * BlockSize \in Nat
    BY <1>1, <1>2, <1>3, Scale DEF IInv, TypeOK, TokensFit, Capacity
  <2>2. q * BlockSize < lifetime * BlockSize
    BY <1>1, <1>3, <2>1
  <2>3. q < lifetime
    BY <1>1, <1>3, <2>2, Cancel
  <2> QED
    BY <1>1, <1>3, <2>3
<1>6. kv + 1 <= (q + 1) * BlockSize
  BY <1>1, <1>2, <1>3
<1>7. blocks = Minus(Minus(q, assigned) + 1, unassigned) /\ blocks \in Nat
  BY <1>1, <1>3, <1>4 DEF Minus, resident
<1>8. Draw("decode", 1, blocks)
  BY <1>7 DEF ScheduleDecode, q
<1> HIDE DEF blocks
<1>9. generated + 1 <= maxOutput
  BY <1>2 DEF IInv, TypeOK
<1>10. blocks = Minus(q + 1, resident)
  BY DEF blocks
<1> QED
  BY <1>2, <1>3, <1>5, <1>6, <1>7, <1>8, <1>9, <1>10, DrawStep

\* A verify span is clamped to the output budget, so its last position is inside
\* the lifetime.
LEMMA ScheduleSpeculativeStep ==
    ASSUME IInv, NEW n \in Nat, ScheduleSpeculative(n)
    PROVE  IInv'
<1> DEFINE span == Less(n, maxOutput - generated)
           need == Ceil(total + span)
           blocks == Minus(need, resident)
<1>1. /\ BlockSize \in Nat \ {0} /\ lifetime \in Nat /\ total \in Nat /\ resident \in Nat
      /\ kv \in Nat /\ generated \in Nat /\ maxOutput \in Nat /\ numInput \in Nat
  BY SequenceAssumption DEF IInv, TypeOK, resident
<1>2. /\ total = numInput + generated /\ kv + 1 = total
      /\ prefill >= numInput /\ generated < maxOutput
      /\ state = Idle /\ phase # "released"
  BY DecodeStart DEF ScheduleSpeculative, MayDecode
<1>3. span \in Nat /\ generated + span <= maxOutput
  BY <1>1, <1>2 DEF Less
<1>4. Draw("speculative", span, blocks)
  BY DEF ScheduleSpeculative
<1> HIDE DEF span
<1>5. total + span \in Nat /\ total + span <= lifetime * BlockSize
  <2>1. lifetime * BlockSize \in Nat
    BY <1>1, Scale
  <2> QED
    BY <1>1, <1>2, <1>3, <2>1 DEF IInv, TokensFit, Capacity
<1>6. need \in Nat /\ need <= lifetime /\ total + span <= need * BlockSize
  BY <1>1, <1>5, CeilFacts
<1> HIDE DEF need
<1>7. kv + span <= need * BlockSize
  <2>1. need * BlockSize \in Nat
    BY <1>1, <1>6, Scale
  <2> QED
    BY <1>1, <1>2, <1>3, <1>6, <2>1
<1>8. blocks \in Nat
  BY <1>1, <1>6 DEF Minus
<1> HIDE DEF blocks
<1>9. blocks = Minus(need, resident)
  BY DEF blocks
<1> QED
  BY <1>2, <1>3, <1>4, <1>6, <1>7, <1>8, <1>9, DrawStep

\* Registering a chunk moves blocks from unassigned to assigned and advances
\* both positions together.
LEMMA ApplyPrefillStep ==
    ASSUME IInv, ApplyPrefill
    PROVE  IInv'
<1> USE DEF ApplyPrefill, CompleteAndRegister
<1>1. /\ BlockSize \in Nat \ {0} /\ lifetime \in Nat /\ total \in Nat /\ state.tokens \in Nat
      /\ assigned \in Nat /\ unassigned \in Nat /\ assigned * BlockSize <= total
      /\ lifetime * BlockSize \in Nat
  BY SequenceAssumption, Scale DEF IInv, TypeOK, BlocksFit
<1>2. /\ Pending(total) \in Nat /\ Pending(total) <= unassigned
      /\ (assigned + Pending(total)) * BlockSize <= total
  BY <1>1, PendingFacts
<1>3. /\ prefill + state.tokens <= numInput /\ prefill < numInput /\ generated = 0
      /\ total = numInput + generated
  BY DEF IInv, PositionExact, TokensFit
<1>4. TypeOK' /\ PagesCoverStep'
  BY <1>1, <1>2 DEF IInv, TypeOK, PagesCoverStep, Idle
<1>5. BlocksFit'
  <2>1. (assigned + Pending(total)) * BlockSize \in Nat
    BY <1>1, <1>2, Scale
  <2> QED
    BY <1>1, <1>2, <2>1 DEF IInv, TypeOK, BlocksFit, resident
<1>6. TokensFit'
  BY <1>1, <1>3 DEF IInv, TypeOK, TokensFit, Capacity
<1>7. PositionExact' /\ PaddedStops'
  BY <1>1, <1>3 DEF IInv, TypeOK, PositionExact, PaddedStops, Idle
<1> QED
  BY <1>4, <1>5, <1>6, <1>7 DEF IInv

\* Applying a decode step leaves exactly one dangling token behind kv_position.
LEMMA ApplyDecodeStep ==
    ASSUME IInv, ApplyDecode
    PROVE  IInv'
<1> USE DEF ApplyDecode, CompleteAndRegister
<1>1. /\ BlockSize \in Nat \ {0} /\ lifetime \in Nat /\ total \in Nat
      /\ assigned \in Nat /\ unassigned \in Nat /\ assigned * BlockSize <= total
      /\ lifetime * BlockSize \in Nat
  BY SequenceAssumption, Scale DEF IInv, TypeOK, BlocksFit
<1>2. /\ Pending(total) \in Nat /\ Pending(total) <= unassigned
      /\ (assigned + Pending(total)) * BlockSize <= total
  BY <1>1, PendingFacts
<1>3. /\ prefill >= numInput /\ total = numInput + generated
      /\ generated + 1 <= maxOutput /\ generated < maxOutput
  BY DEF IInv, TypeOK, PositionExact
<1>4. TypeOK' /\ PagesCoverStep'
  BY <1>1, <1>2 DEF IInv, TypeOK, PagesCoverStep, Idle
<1>5. BlocksFit'
  <2>1. (assigned + Pending(total)) * BlockSize \in Nat
    BY <1>1, <1>2, Scale
  <2> QED
    BY <1>1, <1>2, <2>1 DEF IInv, TypeOK, BlocksFit, resident
<1>6. TokensFit'
  BY <1>1, <1>3 DEF IInv, TypeOK, TokensFit, Capacity
<1>7. PositionExact' /\ PaddedStops'
  BY <1>1, <1>3 DEF IInv, TypeOK, PositionExact, PaddedStops, Idle
<1> QED
  BY <1>4, <1>5, <1>6, <1>7 DEF IInv

\* Applying a verify step keeps the accepted tokens and returns the blocks it
\* does not need.
LEMMA ApplySpeculativeStep ==
    ASSUME IInv, NEW accepted \in Nat, ApplySpeculative(accepted)
    PROVE  IInv'
<1> USE DEF ApplySpeculative
<1> DEFINE t == total + accepted
<1>1. /\ BlockSize \in Nat \ {0} /\ lifetime \in Nat /\ total \in Nat /\ state.tokens \in Nat
      /\ assigned \in Nat /\ unassigned \in Nat /\ assigned * BlockSize <= total
      /\ lifetime * BlockSize \in Nat /\ assigned * BlockSize \in Nat
  BY SequenceAssumption, Scale DEF IInv, TypeOK, BlocksFit
<1>2. t \in Nat /\ assigned * BlockSize <= t
  BY <1>1
<1>3. /\ Pending(t) \in Nat /\ Pending(t) <= unassigned
      /\ (assigned + Pending(t)) * BlockSize <= t
  BY <1>1, <1>2, PendingFacts
<1>4. /\ prefill >= numInput /\ total = numInput + generated
      /\ generated + accepted <= maxOutput /\ maxOutput > 0
  BY <1>1 DEF IInv, TypeOK, PositionExact
<1>5. unassigned' \in Nat /\ unassigned' <= unassigned - Pending(t)
  BY <1>1, <1>3 DEF Less
<1>6. TypeOK' /\ PagesCoverStep'
  BY <1>1, <1>3, <1>5 DEF IInv, TypeOK, PagesCoverStep, Idle
<1>7. BlocksFit'
  <2>1. (assigned + Pending(t)) * BlockSize \in Nat
    BY <1>1, <1>3, Scale
  <2> QED
    BY <1>1, <1>3, <1>5, <2>1 DEF IInv, TypeOK, BlocksFit, resident
<1>8. TokensFit'
  BY <1>1, <1>4 DEF IInv, TypeOK, TokensFit, Capacity
<1>9. PositionExact' /\ PaddedStops'
  BY <1>1, <1>4 DEF IInv, TypeOK, PositionExact, PaddedStops, Idle
<1> QED
  BY <1>6, <1>7, <1>8, <1>9 DEF IInv

\* A revert returns what the schedule drew and leaves every position alone.
LEMMA RevertStep ==
    ASSUME IInv, RevertSchedule
    PROVE  IInv'
<1> USE DEF RevertSchedule, tokens
<1>1. unassigned' \in Nat /\ unassigned' <= unassigned /\ state' = Idle
  BY DEF IInv, TypeOK, Minus
<1>2. TypeOK' /\ PagesCoverStep'
  BY <1>1 DEF IInv, TypeOK, PagesCoverStep, Idle
<1>3. BlocksFit'
  BY <1>1 DEF IInv, TypeOK, BlocksFit, resident
<1>4. TokensFit' /\ PaddedStops'
  BY DEF IInv, TokensFit, PaddedStops, Capacity, IsComplete
<1>5. PositionExact'
  BY <1>1 DEF IInv, PositionExact, Idle
<1> QED
  BY <1>2, <1>3, <1>4, <1>5 DEF IInv

\* Padding fills the last block and cannot pass the lifetime's capacity.
LEMMA PadStep ==
    ASSUME IInv, PadTailBlock
    PROVE  IInv'
<1> USE DEF PadTailBlock, CompleteAndRegister
<1> DEFINE c == Ceil(total)
           t == c * BlockSize
<1>1. /\ BlockSize \in Nat \ {0} /\ lifetime \in Nat /\ total \in Nat
      /\ assigned \in Nat /\ unassigned \in Nat /\ assigned * BlockSize <= total
      /\ lifetime * BlockSize \in Nat /\ assigned * BlockSize \in Nat
      /\ total <= lifetime * BlockSize
  BY SequenceAssumption, Scale DEF IInv, TypeOK, BlocksFit, TokensFit, Capacity
<1>2. c \in Nat /\ total <= c * BlockSize /\ c <= lifetime
  BY <1>1, CeilFacts
<1> HIDE DEF c
<1>3. t \in Nat /\ t <= lifetime * BlockSize /\ total <= t
  BY <1>1, <1>2, Scale
<1>4. total' = t /\ assigned' = assigned + Pending(t) /\ unassigned' = unassigned - Pending(t)
  BY DEF c
<1> HIDE DEF t
<1>5. /\ Pending(t) \in Nat /\ Pending(t) <= unassigned
      /\ (assigned + Pending(t)) * BlockSize <= t
  BY <1>1, <1>3, PendingFacts
<1>6. TypeOK' /\ PagesCoverStep'
  BY <1>1, <1>3, <1>4, <1>5 DEF IInv, TypeOK, PagesCoverStep, Idle
<1>7. BlocksFit'
  <2>1. (assigned + Pending(t)) * BlockSize \in Nat
    BY <1>1, <1>5, Scale
  <2> QED
    BY <1>1, <1>4, <1>5, <2>1 DEF IInv, TypeOK, BlocksFit, resident
<1>8. TokensFit'
  BY <1>1, <1>3, <1>4 DEF IInv, TypeOK, TokensFit, Capacity
<1>9. PositionExact'
  BY DEF IInv, PositionExact, Idle
<1>10. PaddedStops'
  BY <1>1, <1>3, <1>4 DEF IInv, TypeOK, TokensFit, PositionExact, PaddedStops, IsComplete
<1> QED
  BY <1>6, <1>7, <1>8, <1>9, <1>10 DEF IInv

\* Adopting the external anchor trades one input token for one generated token:
\* the sum the lifetime was computed from is kept.
LEMMA AdoptStep ==
    ASSUME IInv, AdoptExternalPrefillAnchor
    PROVE  IInv'
<1> USE DEF AdoptExternalPrefillAnchor
<1>1. lifetime * BlockSize \in Nat
  BY SequenceAssumption, Scale DEF IInv, TypeOK
<1>2. TypeOK' /\ PagesCoverStep' /\ BlocksFit'
  BY DEF IInv, TypeOK, PagesCoverStep, BlocksFit, Idle, resident
<1>3. TokensFit'
  BY <1>1 DEF IInv, TypeOK, TokensFit, Capacity, IsComplete
<1>4. PositionExact' /\ PaddedStops'
  BY DEF IInv, TypeOK, PositionExact, PaddedStops, Idle, IsComplete
<1> QED
  BY <1>2, <1>3, <1>4 DEF IInv

\* A released sequence holds nothing.
LEMMA ReleaseStep ==
    ASSUME IInv, Release
    PROVE  IInv'
<1> USE DEF Release, tokens
<1>1. TypeOK' /\ PagesCoverStep'
  BY DEF IInv, TypeOK, PagesCoverStep, Idle
<1>2. BlocksFit'
  <2>1. 0 * BlockSize = 0
    BY SequenceAssumption
  <2> QED
    BY <2>1 DEF IInv, TypeOK, BlocksFit, resident
<1>3. TokensFit'
  BY DEF IInv, TokensFit, Capacity
<1>4. PositionExact' /\ PaddedStops'
  BY DEF IInv, PositionExact, PaddedStops, Idle
<1> QED
  BY <1>1, <1>2, <1>3, <1>4 DEF IInv

\* Every call preserves the invariant.
LEMMA NextIInv == IInv /\ [Next]_vars => IInv'
<1> SUFFICES ASSUME IInv, [Next]_vars PROVE IInv'
  OBVIOUS
<1>0. 1..MatchCap \subseteq Nat /\ 1..numInput \subseteq Nat /\ 1..MaxDraft \subseteq Nat
      /\ 0..MaxDraft \subseteq Nat
  OBVIOUS
<1>1. ASSUME NEW n \in 1..MatchCap, MatchAndAddPrefix(n) PROVE IInv'
  BY <1>0, <1>1, MatchStep
<1>2. ASSUME NEW n \in 1..numInput, SchedulePrefill(n) PROVE IInv'
  BY <1>0, <1>2, SchedulePrefillStep
<1>3. CASE ApplyPrefill
  BY <1>3, ApplyPrefillStep
<1>4. CASE ScheduleDecode
  BY <1>4, ScheduleDecodeStep
<1>5. CASE ApplyDecode
  BY <1>5, ApplyDecodeStep
<1>6. ASSUME NEW n \in 1..MaxDraft, ScheduleSpeculative(n) PROVE IInv'
  BY <1>0, <1>6, ScheduleSpeculativeStep
<1>7. ASSUME NEW accepted \in 0..MaxDraft, ApplySpeculative(accepted) PROVE IInv'
  BY <1>0, <1>7, ApplySpeculativeStep
<1>8. CASE RevertSchedule
  BY <1>8, RevertStep
<1>9. CASE PadTailBlock
  BY <1>9, PadStep
<1>10. CASE AdoptExternalPrefillAnchor
  BY <1>10, AdoptStep
<1>11. CASE Release
  BY <1>11, ReleaseStep
<1>12. CASE UNCHANGED vars
  BY <1>12 DEF vars, IInv, TypeOK, TokensFit, PositionExact, PaddedStops, BlocksFit,
     PagesCoverStep, Capacity, resident, IsComplete
<1> QED
  BY <1>1, <1>2, <1>3, <1>4, <1>5, <1>6, <1>7, <1>8, <1>9, <1>10, <1>11, <1>12 DEF Next

-----------------------------------------------------------------------------
(* The theorems *)

\* Every reachable state of the sequence satisfies the inductive invariant.
THEOREM SequenceInvariant == Spec => []IInv
BY InitIInv, NextIInv, PTL DEF Spec

\* Every counter of the sequence stays a natural number (usize in the code): no
\* revert, dropped draft or release subtracts more than was added.
THEOREM SequenceTypes == Spec => []TypeOK
<1>1. IInv => TypeOK
  BY DEF IInv
<1> QED
  BY <1>1, SequenceInvariant, PTL

\* The blocks a request holds never exceed lifetime_blocks
\* (pool.rs EntitledSeq::remaining, glm52 admission lifetime_blocks), whatever
\* the block size and the mix of steps.
THEOREM LifetimeCoversDraw == Spec => []WithinLifetime
<1>1. IInv => WithinLifetime
  BY DEF IInv, BlocksFit, WithinLifetime
<1> QED
  BY <1>1, SequenceInvariant, PTL

\* The pages of a scheduled step cover every position its forward pass writes
\* (pool.rs step_page_indices).
THEOREM StepPagesCover == Spec => []PagesCoverStep
<1>1. IInv => PagesCoverStep
  BY DEF IInv
<1> QED
  BY <1>1, SequenceInvariant, PTL

\* A live, idle, unfinished sequence always has input to prefill or exactly one
\* dangling token (scheduled.rs require_one_dangling never refuses it).
THEOREM AlwaysALegalStep == Spec => []NeverStuck
<1>1. IInv => NeverStuck
  BY DEF IInv, TypeOK, TokensFit, PositionExact, NeverStuck, IsComplete, tail, Minus
<1> QED
  BY <1>1, SequenceInvariant, PTL

-----------------------------------------------------------------------------
(* Registered rows and computed rows *)

\* div_ceil is monotone.
LEMMA CeilMonotone ==
    ASSUME NEW m \in Nat, NEW n \in Nat, m <= n
    PROVE  Ceil(m) <= Ceil(n)
<1>1. /\ Ceil(m) \in Nat /\ Ceil(n) \in Nat /\ n <= Ceil(n) * BlockSize
      /\ \A l \in Nat : m <= l * BlockSize => Ceil(m) <= l
  BY CeilFacts
<1>2. Ceil(n) * BlockSize \in Nat
  BY <1>1, SequenceAssumption, Scale
<1> HIDE DEF Ceil
<1>3. m <= Ceil(n) * BlockSize
  BY <1>1, <1>2
<1> QED
  BY <1>1, <1>3

\* A matched prefix ends at a block boundary and holds exactly its blocks.
LEMMA MatchRows ==
    ASSUME IInv, NEW n \in Nat, MatchAndAddPrefix(n), IInv'
    PROVE  DrawnPrefix'
<1>1. BlockSize \in Nat \ {0} /\ n * BlockSize \in Nat
  BY SequenceAssumption, Scale
<1>2. /\ assigned' = n /\ unassigned' = 0 /\ state' = Idle /\ kv' = n * BlockSize
  BY DEF MatchAndAddPrefix, IInv, TypeOK, resident
<1>3. n <= Ceil(n * BlockSize)
  <2>1. Ceil(n * BlockSize) \in Nat /\ n * BlockSize <= Ceil(n * BlockSize) * BlockSize
    BY <1>1, CeilFacts
  <2> HIDE DEF Ceil
  <2> DEFINE c == Ceil(n * BlockSize)
  <2>2. c \in Nat /\ n * BlockSize <= c * BlockSize
    BY <2>1
  <2> HIDE DEF c
  <2>3. n * BlockSize < (c + 1) * BlockSize
    BY <1>1, <2>2
  <2>4. n < c + 1
    BY <1>1, <2>2, <2>3, Cancel
  <2> QED
    BY <2>2, <2>4 DEF c
<1>4. Ceil(n * BlockSize) \in Nat /\ n * BlockSize + 0 = n * BlockSize
  BY <1>1, CeilFacts
<1> QED
  BY <1>2, <1>3, <1>4 DEF DrawnPrefix, Idle, resident, Ceil

\* A scheduled chunk tops the blocks up to those of its last position.
LEMMA SchedulePrefillRows ==
    ASSUME IInv, DrawnPrefix, NEW n \in Nat, SchedulePrefill(n)
    PROVE  DrawnPrefix'
<1> DEFINE need == Ceil(prefill + n)
<1>1. /\ resident \in Nat /\ unassigned \in Nat /\ assigned \in Nat
      /\ kv \in Nat /\ prefill \in Nat /\ kv = prefill
  BY DEF SchedulePrefill, IInv, TypeOK, PositionExact, resident
<1>2. need \in Nat /\ Ceil(kv) <= need /\ Ceil(kv) \in Nat
  BY <1>1, CeilFacts, CeilMonotone
<1>3. resident <= Ceil(kv)
  <2>1. kv + 0 = kv /\ resident - 0 = resident
    BY <1>1
  <2> QED
    BY <2>1 DEF SchedulePrefill, DrawnPrefix, Idle
<1>4. /\ unassigned' = unassigned + Minus(need, resident) /\ assigned' = assigned
      /\ state'.tokens = n /\ state'.blocks = Minus(need, resident) /\ kv' = kv
  BY DEF SchedulePrefill, Draw, tokens
<1>5. need = Ceil(kv' + state'.tokens) /\ Ceil(kv)' = Ceil(kv)
  BY <1>1, <1>4 DEF Ceil
<1> HIDE DEF need
<1>6. Minus(need, resident) \in Nat /\ resident + Minus(need, resident) = need
  BY <1>1, <1>2, <1>3 DEF Minus
<1>7. /\ resident' = resident + Minus(need, resident)
      /\ resident' - state'.blocks = resident /\ state'.blocks <= unassigned'
  BY <1>1, <1>4, <1>6 DEF resident
<1>8. resident' <= need
  BY <1>2, <1>6, <1>7
<1>9. Ceil(kv') = Ceil(kv)
  BY <1>4
<1> QED
  BY <1>3, <1>5, <1>7, <1>8, <1>9 DEF DrawnPrefix

\* An applied chunk only moves blocks between the two lists, and kv_position
\* catches up with them.
LEMMA ApplyPrefillRows ==
    ASSUME IInv, DrawnPrefix, ApplyPrefill
    PROVE  DrawnPrefix'
<1>1. /\ unassigned \in Nat /\ assigned \in Nat /\ kv \in Nat /\ prefill \in Nat
      /\ total \in Nat /\ state.tokens \in Nat /\ assigned * BlockSize <= total
      /\ prefill < numInput /\ kv = prefill
  BY DEF ApplyPrefill, IInv, TypeOK, PositionExact, BlocksFit
<1>2. Pending(total) \in Nat /\ Pending(total) <= unassigned
  BY <1>1, PendingFacts
<1>3. /\ assigned' = assigned + Pending(total) /\ unassigned' = unassigned - Pending(total)
      /\ state' = Idle /\ kv' = kv + state.tokens
  BY <1>1 DEF ApplyPrefill, CompleteAndRegister
<1> HIDE DEF Pending
<1>4. resident' = resident /\ unassigned' \in Nat /\ resident \in Nat
  BY <1>1, <1>2, <1>3 DEF resident
<1>5. resident <= Ceil(kv + state.tokens)
  BY <1>1 DEF DrawnPrefix, ApplyPrefill
<1>6. kv' + 0 = kv' /\ Ceil(kv') = Ceil(kv + state.tokens)
  BY <1>1, <1>3
<1>7. state'.tokens = 0 /\ state'.blocks = 0
  BY <1>3 DEF Idle
<1>8. resident' - 0 = resident'
  BY <1>4
<1> HIDE DEF Ceil, resident
<1> QED
  BY <1>4, <1>5, <1>6, <1>7, <1>8 DEF DrawnPrefix

\* A revert gives back what the schedule drew.
LEMMA RevertRows ==
    ASSUME IInv, DrawnPrefix, RevertSchedule
    PROVE  DrawnPrefix'
<1> SUFFICES ASSUME phase = "live", prefill < numInput PROVE DrawnPrefix'
  BY DEF DrawnPrefix, RevertSchedule, tokens
<1>1. /\ unassigned \in Nat /\ assigned \in Nat /\ kv \in Nat /\ state.blocks \in Nat
  BY DEF IInv, TypeOK
<1>2. state.blocks <= unassigned /\ resident - state.blocks <= Ceil(kv)
  BY DEF DrawnPrefix
<1>3. /\ unassigned' = unassigned - state.blocks /\ assigned' = assigned /\ kv' = kv
      /\ state' = Idle
  BY <1>1, <1>2 DEF RevertSchedule, Minus
<1>4. /\ resident' = resident - state.blocks /\ resident' - 0 = resident' /\ unassigned' \in Nat
      /\ kv + 0 = kv
  BY <1>1, <1>2, <1>3 DEF resident
<1>5. state'.tokens = 0 /\ state'.blocks = 0
  BY <1>3 DEF Idle
<1>6. Ceil(kv') = Ceil(kv)
  BY <1>3
<1> HIDE DEF Ceil, resident
<1> QED
  BY <1>1, <1>2, <1>3, <1>4, <1>5, <1>6 DEF DrawnPrefix

\* Every call preserves the correspondence of rows held and rows computed.
LEMMA NextRows == IInv /\ RowsInv /\ [Next]_vars /\ IInv' => RowsInv'
<1> SUFFICES ASSUME IInv, RowsInv, [Next]_vars, IInv' PROVE RowsInv'
  OBVIOUS
<1>1. ASSUME NEW n \in 1..MatchCap, MatchAndAddPrefix(n) PROVE RowsInv'
  <2>1. DrawnPrefix'
    BY <1>1, MatchRows
  <2>2. prefill' < numInput' /\ numInput' = numInput
    <3>1. n * BlockSize <= numInput - 1 /\ numInput \in Nat
      BY <1>1, MatchShort DEF IInv, TypeOK
    <3>2. n * BlockSize \in Nat
      BY SequenceAssumption, Scale
    <3> QED
      BY <1>1, <3>1, <3>2 DEF MatchAndAddPrefix, tokens
  <2> QED
    BY <2>1, <2>2 DEF RowsInv, PromptComputed, IInv, TypeOK
<1>2. ASSUME NEW n \in 1..numInput, SchedulePrefill(n) PROVE RowsInv'
  <2>1. DrawnPrefix'
    BY <1>2, SchedulePrefillRows DEF RowsInv
  <2> QED
    BY <1>2, <2>1 DEF RowsInv, SchedulePrefill, Draw, tokens, PromptComputed
<1>3. CASE ApplyPrefill
  <2>1. DrawnPrefix'
    BY <1>3, ApplyPrefillRows DEF RowsInv
  <2>2. PromptComputed'
    BY <1>3 DEF ApplyPrefill, PromptComputed, IInv, TypeOK, PositionExact
  <2> QED
    BY <2>1, <2>2 DEF RowsInv
<1>4. CASE ScheduleDecode
  BY <1>4 DEF ScheduleDecode, MayDecode, Draw, tokens, RowsInv, DrawnPrefix, PromptComputed,
     IInv, TypeOK
<1>5. CASE ApplyDecode
  BY <1>5 DEF ApplyDecode, RowsInv, DrawnPrefix, PromptComputed, IInv, TypeOK, PositionExact
<1>6. ASSUME NEW n \in 1..MaxDraft, ScheduleSpeculative(n) PROVE RowsInv'
  BY <1>6 DEF ScheduleSpeculative, MayDecode, Draw, tokens, RowsInv, DrawnPrefix,
     PromptComputed, IInv, TypeOK
<1>7. ASSUME NEW accepted \in 0..MaxDraft, ApplySpeculative(accepted) PROVE RowsInv'
  BY <1>7 DEF ApplySpeculative, RowsInv, DrawnPrefix, PromptComputed, IInv, TypeOK, PositionExact
<1>8. CASE RevertSchedule
  <2>1. DrawnPrefix'
    BY <1>8, RevertRows DEF RowsInv
  <2> QED
    BY <1>8, <2>1 DEF RowsInv, RevertSchedule, tokens, PromptComputed
<1>9. CASE PadTailBlock
  BY <1>9 DEF PadTailBlock, RowsInv, DrawnPrefix, PromptComputed, IInv, TypeOK
<1>10. CASE AdoptExternalPrefillAnchor
  BY <1>10 DEF AdoptExternalPrefillAnchor, IsComplete, RowsInv, DrawnPrefix, PromptComputed,
     IInv, TypeOK
<1>11. CASE Release
  BY <1>11 DEF Release, tokens, RowsInv, DrawnPrefix, PromptComputed
<1>12. CASE UNCHANGED vars
  BY <1>12 DEF vars, RowsInv, DrawnPrefix, PromptComputed, resident, Ceil
<1> QED
  BY <1>1, <1>2, <1>3, <1>4, <1>5, <1>6, <1>7, <1>8, <1>9, <1>10, <1>11, <1>12 DEF Next

\* Every reachable state satisfies the row invariant.
LEMMA RowsInvariant == Spec => []RowsInv
<1>1. Init => RowsInv
  <2> SUFFICES ASSUME Init PROVE RowsInv
    OBVIOUS
  <2>1. /\ resident = 0 /\ state.blocks = 0 /\ state.tokens = 0 /\ kv = 0 /\ unassigned = 0
        /\ prefill < numInput
    BY SequenceAssumption DEF Init, Idle, resident
  <2>2. Ceil(0) \in Nat
    BY CeilFacts
  <2> HIDE DEF resident, Ceil
  <2> QED
    BY <2>1, <2>2, SequenceAssumption DEF RowsInv, DrawnPrefix, PromptComputed, Init
<1> QED
  BY <1>1, NextRows, SequenceInvariant, PTL DEF Spec

\* The uncomputed rows that stage_pending and register_staged let a registered
\* block have are at most those of the block the last chunk ended in and, once
\* the prompt is prefilled, the row of the dangling token.
THEOREM UncomputedRowsBounded == Spec => []OnlyTailUncomputed
<1>1. IInv /\ RowsInv => OnlyTailUncomputed
  <2> SUFFICES ASSUME IInv, RowsInv, phase = "live" PROVE OnlyTailUncomputed
    BY DEF OnlyTailUncomputed
  <2>1. /\ assigned \in Nat /\ unassigned \in Nat /\ kv \in Nat /\ prefill \in Nat
        /\ numInput \in Nat /\ maxOutput \in Nat /\ generated \in Nat
        /\ state.blocks \in Nat
    BY DEF IInv, TypeOK
  <2>2. CASE prefill < numInput
    <3>1. state.blocks <= unassigned /\ resident - state.blocks <= Ceil(kv)
      BY <2>2 DEF RowsInv, DrawnPrefix
    <3>2. assigned <= resident - state.blocks /\ resident - state.blocks \in Int
      BY <2>1, <3>1 DEF resident
    <3>3. Ceil(kv) \in Nat
      BY <2>1, CeilFacts
    <3> HIDE DEF Ceil, resident
    <3>4. assigned <= Ceil(kv)
      BY <2>1, <3>1, <3>2, <3>3
    <3> QED
      BY <2>2, <3>4 DEF OnlyTailUncomputed
  <2>3. CASE ~(prefill < numInput)
    <3>1. assigned * BlockSize <= total /\ total = numInput + generated
      BY DEF IInv, BlocksFit, TokensFit
    <3>2. total <= kv + 1 /\ total \in Nat
      BY <2>1, <2>3, <3>1 DEF RowsInv, PromptComputed, IInv, PositionExact
    <3>3. assigned * BlockSize \in Nat
      BY <2>1, SequenceAssumption, Scale
    <3>4. assigned * BlockSize <= kv + 1
      BY <2>1, <3>1, <3>2, <3>3
    <3> QED
      BY <2>3, <3>4 DEF OnlyTailUncomputed
  <2> QED
    BY <2>2, <2>3
<1> QED
  BY <1>1, SequenceInvariant, RowsInvariant, PTL

\* apply_decode leaves no registered row uncomputed, whatever a verify step
\* before it registered early.
THEOREM DecodeLeavesNoneUncomputed == Spec => DecodeSettles
<1> DEFINE Settles == state.op = "decode" /\ generated' > generated => assigned' * BlockSize <= kv'
<1>1. IInv /\ [Next]_vars => [Settles]_vars
  <2> SUFFICES ASSUME IInv, Next, state.op = "decode", generated' > generated
               PROVE  assigned' * BlockSize <= kv'
    BY DEF vars
  <2>1. generated \in Nat
    BY DEF IInv, TypeOK
  <2>2. ApplyDecode
    BY <2>1 DEF Next, MatchAndAddPrefix, SchedulePrefill, ApplyPrefill, ScheduleDecode, MayDecode,
       ScheduleSpeculative, ApplySpeculative, RevertSchedule, PadTailBlock,
       AdoptExternalPrefillAnchor, Release, tokens, Idle
  <2>3. (assigned + Pending(total)) * BlockSize <= total
    BY PendingFacts DEF IInv, TypeOK, BlocksFit
  <2>4. kv' = total /\ assigned' = assigned + Pending(total)
    BY <2>2 DEF ApplyDecode, CompleteAndRegister, IInv, TypeOK, PositionExact
  <2> QED
    BY <2>3, <2>4
<1> QED
  BY <1>1, SequenceInvariant, PTL DEF Spec, DecodeSettles

-----------------------------------------------------------------------------
(* Prompts that are prefilled in one step                                  *)

\* A line that prefills what the prefix match left in one step and does not
\* speculate.
WholePrompt == MaxDraft = 0 /\ Chunks = {}

\* Until the prompt is prefilled, what is computed is the matched prefix, which
\* ends at a block boundary; after that, what is registered is computed.
Boundary(n) == \E k \in Nat : n = k * BlockSize
Settled ==
    /\ phase = "live" /\ prefill < numInput => Boundary(prefill)
    /\ state.op = "prefill" => prefill + state.tokens = numInput
    /\ state.op # "speculative"
    /\ phase = "live" /\ prefill >= numInput => assigned * BlockSize <= kv

\* Blocks that end at a computed boundary are computed.
LEMMA BoundaryRows ==
    ASSUME NEW n \in Nat, NEW a \in Nat, Boundary(n), a <= Ceil(n)
    PROVE  a * BlockSize <= n
<1>1. PICK k \in Nat : n = k * BlockSize
  BY DEF Boundary
<1>2. Ceil(n) \in Nat /\ Ceil(n) <= k
  <2>1. Ceil(n) \in Nat /\ \A l \in Nat : n <= l * BlockSize => Ceil(n) <= l
    BY CeilFacts
  <2>2. n <= k * BlockSize
    BY <1>1
  <2> QED
    BY <2>1, <2>2
<1> HIDE DEF Ceil
<1>3. a <= k
  BY <1>2
<1>4. a * BlockSize <= k * BlockSize
  BY <1>3, SequenceAssumption, Scale
<1> QED
  BY <1>1, <1>4

\* The one prefill step ends at the end of the prompt.
LEMMA SchedulePrefillSettled ==
    ASSUME WholePrompt, IInv, Settled, NEW n \in Nat, SchedulePrefill(n)
    PROVE  Settled'
<1>1. /\ phase = "live" /\ prefill < numInput /\ state'.op = "prefill" /\ state'.tokens = n
      /\ UNCHANGED <<numInput, prefill, kv, assigned, phase>>
      /\ n \in Chunks \cup {numInput - prefill}
  BY DEF SchedulePrefill, Draw, tokens
<1>2. prefill \in Nat /\ numInput \in Nat /\ Boundary(prefill)
  BY <1>1 DEF IInv, TypeOK, Settled
<1>3. prefill + n = numInput
  BY <1>1, <1>2 DEF WholePrompt
<1> QED
  BY <1>1, <1>2, <1>3 DEF Settled, Boundary

\* Applying it registers complete blocks of a computed prompt.
LEMMA ApplyPrefillSettled ==
    ASSUME IInv, Settled, ApplyPrefill
    PROVE  Settled'
<1>1. /\ prefill' = prefill + state.tokens /\ kv' = prefill' /\ state' = Idle
      /\ numInput' = numInput /\ phase = "live" /\ state.op = "prefill"
      /\ assigned' = assigned + Pending(total)
  BY DEF ApplyPrefill, CompleteAndRegister
<1>2. /\ prefill' <= numInput /\ generated = 0 /\ total = numInput + generated
      /\ total \in Nat /\ assigned \in Nat /\ unassigned \in Nat /\ numInput \in Nat
      /\ assigned * BlockSize <= total
  BY <1>1 DEF IInv, TypeOK, PositionExact, TokensFit, BlocksFit
<1>3. (assigned + Pending(total)) * BlockSize <= total
  BY <1>2, PendingFacts
<1> HIDE DEF Pending
<1>4. prefill' >= numInput => kv' = total
  BY <1>1, <1>2 DEF IInv, TypeOK
<1>5. prefill' < numInput => Boundary(prefill)'
  BY <1>1 DEF Settled, Boundary, IInv, TypeOK
<1> QED
  BY <1>1, <1>3, <1>4, <1>5 DEF Settled, Idle

\* Every call of such a line keeps that so.
LEMMA NextSettled == WholePrompt /\ IInv /\ OnlyTailUncomputed /\ Settled /\ [Next]_vars => Settled'
<1> SUFFICES ASSUME WholePrompt, IInv, OnlyTailUncomputed, Settled, [Next]_vars PROVE Settled'
  OBVIOUS
<1>1. ASSUME NEW n \in 1..MatchCap, MatchAndAddPrefix(n) PROVE Settled'
  <2>1. /\ prefill' = n * BlockSize /\ kv' = n * BlockSize /\ assigned' = n
        /\ state' = Idle /\ n \in Nat
    BY <1>1 DEF MatchAndAddPrefix
  <2>2. n * BlockSize \in Nat
    BY <2>1, SequenceAssumption, Scale
  <2> QED
    BY <2>1, <2>2 DEF Settled, Boundary, Idle
<1>2. ASSUME NEW n \in 1..numInput, SchedulePrefill(n) PROVE Settled'
  <2>1. n \in Nat
    BY DEF IInv, TypeOK
  <2> QED
    BY <1>2, <2>1, SchedulePrefillSettled
<1>3. CASE ApplyPrefill
  BY <1>3, ApplyPrefillSettled
<1>4. CASE ScheduleDecode
  <2>1. /\ state'.op = "decode" /\ UNCHANGED <<numInput, prefill, kv, assigned, phase>>
    BY <1>4 DEF ScheduleDecode, Draw, tokens
  <2> QED
    BY <2>1 DEF Settled, Boundary
<1>5. CASE ApplyDecode
  <2>1. (assigned + Pending(total)) * BlockSize <= total
    BY PendingFacts DEF IInv, TypeOK, BlocksFit
  <2>2. /\ kv' = total /\ assigned' = assigned + Pending(total) /\ state' = Idle
        /\ numInput' = numInput /\ prefill' = prefill /\ prefill >= numInput
    BY <1>5 DEF ApplyDecode, CompleteAndRegister, IInv, TypeOK, PositionExact
  <2>3. ~(prefill' < numInput')
    BY <2>2 DEF IInv, TypeOK
  <2> QED
    BY <2>1, <2>2, <2>3 DEF Settled, Idle
<1>6. ASSUME NEW n \in 1..MaxDraft, ScheduleSpeculative(n) PROVE Settled'
  BY <1>6 DEF WholePrompt
<1>7. ASSUME NEW accepted \in 0..MaxDraft, ApplySpeculative(accepted) PROVE Settled'
  BY <1>7 DEF ApplySpeculative, Settled
<1>8. CASE RevertSchedule
  <2>1. state' = Idle /\ UNCHANGED <<numInput, prefill, kv, assigned, phase>>
    BY <1>8 DEF RevertSchedule, tokens
  <2> QED
    BY <2>1 DEF Settled, Boundary, Idle
<1>9. CASE PadTailBlock
  BY <1>9 DEF PadTailBlock, Settled, Idle
<1>10. CASE AdoptExternalPrefillAnchor
  <2>1. /\ state' = Idle /\ prefill' = prefill /\ numInput' = prefill /\ kv' = prefill /\ assigned' = assigned
        /\ prefill < numInput /\ phase = "live" /\ kv = prefill /\ prefill \in Nat
    BY <1>10 DEF AdoptExternalPrefillAnchor, IInv, TypeOK
  <2>2. assigned \in Nat /\ Boundary(prefill) /\ assigned <= Ceil(prefill)
    BY <2>1 DEF IInv, TypeOK, Settled, OnlyTailUncomputed
  <2>3. assigned * BlockSize <= prefill
    BY <2>1, <2>2, BoundaryRows
  <2> QED
    BY <2>1, <2>3 DEF Settled, Idle
<1>11. CASE Release
  BY <1>11 DEF Release, Settled, Idle
<1>12. CASE UNCHANGED vars
  BY <1>12 DEF vars, Settled, Boundary
<1> QED
  BY <1>1, <1>2, <1>3, <1>4, <1>5, <1>6, <1>7, <1>8, <1>9, <1>10, <1>11, <1>12 DEF Next

\* A line that prefills the whole uncached suffix at once and does not speculate
\* (kimi-k2: schedule_request_kv) publishes a block (stage_pending,
\* register_staged) only when all its rows are computed, whatever prefix matched.
THEOREM WholePromptComputed ==
    ASSUME WholePrompt
    PROVE  Spec => []RegisteredMeansComputed
<1>1. Init => Settled
  <2> SUFFICES ASSUME Init PROVE Settled
    OBVIOUS
  <2>1. prefill = 0 /\ assigned = 0 /\ state = Idle /\ numInput \in Nat \ {0}
    BY SequenceAssumption DEF Init
  <2>2. 0 = 0 * BlockSize
    BY SequenceAssumption
  <2> QED
    BY <2>1, <2>2 DEF Settled, Boundary, Idle
<1>2. IInv /\ OnlyTailUncomputed /\ Settled /\ [Next]_vars => Settled'
  BY NextSettled
<1>3. IInv /\ OnlyTailUncomputed /\ Settled => RegisteredMeansComputed
  <2> SUFFICES ASSUME IInv, OnlyTailUncomputed, Settled, phase = "live"
               PROVE  assigned * BlockSize <= kv
    BY DEF RegisteredMeansComputed
  <2>1. prefill \in Nat /\ numInput \in Nat /\ assigned \in Nat
    BY DEF IInv, TypeOK
  <2>2. CASE prefill < numInput
    <3>1. kv = prefill /\ Boundary(prefill) /\ assigned <= Ceil(prefill)
      BY <2>2 DEF IInv, PositionExact, Settled, OnlyTailUncomputed
    <3> QED
      BY <2>1, <3>1, BoundaryRows
  <2>3. CASE prefill >= numInput
    BY <2>3 DEF Settled
  <2> QED
    BY <2>1, <2>2, <2>3
<1> QED
  BY <1>1, <1>2, <1>3, SequenceInvariant, UncomputedRowsBounded, PTL DEF Spec
=============================================================================
