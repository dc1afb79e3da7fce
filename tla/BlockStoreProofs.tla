--------------------------- MODULE BlockStoreProofs ---------------------------
(***************************************************************************)
(* Proofs about BlockStore for any number of blocks, hashes, inners and    *)
(* handles: the inductive invariant, the safety properties it implies, and *)
(* that the store implements PrefixCache.                                  *)
(***************************************************************************)
EXTENDS BlockStore, FiniteSetTheorems, TLAPS

\* A registered slot's Weak points to an object that has not finished its
\* Drop and that agrees with the slot; no other slot has a Weak.
SlotsNameTheirInner ==
    \A b \in Block :
        LET i == slots[b].inner IN
        /\ slots[b].state \in {"Reset", "Mutable"} => slots[b].hash = NoHash
        /\ slots[b].state \notin {"Reset", "Mutable"} => slots[b].hash \in Hash
        /\ slots[b].state \notin {"Primary", "Duplicate"} => i = NoInner
        /\ slots[b].state \in {"Primary", "Duplicate"} =>
              /\ i \in Inner /\ inners[i].phase \in {"live", "dropping"}
              /\ inners[i].block = b /\ inners[i].hash = slots[b].hash
              /\ inners[i].primary <=> slots[b].state = "Primary"

\* The shape of an inner in each phase of its life; only duplicates keep
\* something alive, and handles exist only to live objects.
InnerShape ==
    \A i \in Inner :
        /\ inners[i].phase = "unused" => inners[i] = NoObject
        /\ inners[i].phase # "unused" => inners[i].block \in Block /\ inners[i].hash \in Hash
        /\ inners[i].keep # NoInner <=> (inners[i].phase # "unused" /\ ~inners[i].primary)
        /\ inners[i].phase = "released" => ~inners[i].primary
        /\ inners[i].refs > 0 => inners[i].phase = "live"
        /\ i \in registering => inners[i].refs > 0

\* A live object is held by a handle or by a duplicate's keepalive.
LiveIsHeld ==
    \A i \in Inner : inners[i].phase = "live" =>
        inners[i].refs > 0 \/ \E k \in Inner : inners[k].keep = i

IInv ==
    /\ TypeOK /\ PoolsAgree /\ OneCanonicalBlock /\ HeldSlotsBelong
    /\ DuplicatePinsPrimary /\ OptOutNeverCached
    /\ SlotsNameTheirInner /\ InnerShape /\ LiveIsHeld

USE StoreAssumption DEF Live, StillHeld, index, marks, NoObject, InnerRecord, SlotStates,
    Phases, Reset, Mutable, Staged, Primary, Duplicate, Inactive,
    TypeOK, PoolsAgree, OneCanonicalBlock, HeldSlotsBelong, DuplicatePinsPrimary,
    OptOutNeverCached, SlotsNameTheirInner, InnerShape, LiveIsHeld
-----------------------------------------------------------------------------

\* One more handle to a live inner, whatever the caller does to its guards.
LEMMA AddHandle ==
    ASSUME IInv, NEW i \in Inner, Live(i), inners[i].refs < MaxRefs,
           inners' = [inners EXCEPT ![i].refs = @ + 1],
           doomed' \subseteq Block,
           UNCHANGED <<slots, free, index, resetOnRelease, marks, policy>>
    PROVE  IInv'
<1>ty. TypeOK BY DEF IInv
<1>pa. PoolsAgree BY DEF IInv
<1>ca. OneCanonicalBlock BY DEF IInv
<1>hb. HeldSlotsBelong BY DEF IInv
<1>dp. DuplicatePinsPrimary BY DEF IInv
<1>oo. OptOutNeverCached BY DEF IInv
<1>sn. SlotsNameTheirInner BY DEF IInv
<1>is. InnerShape BY DEF IInv
<1>lh. LiveIsHeld BY DEF IInv
<1>a. /\ inners'[i].phase = "live" /\ inners'[i].block = inners[i].block
      /\ inners'[i].hash = inners[i].hash /\ inners'[i].primary = inners[i].primary
      /\ inners'[i].keep = inners[i].keep /\ inners'[i].refs = inners[i].refs + 1
      /\ \A k \in Inner : k # i => inners'[k] = inners[k]
      /\ \A k \in Inner : inners'[k].keep = inners[k].keep
  BY <1>ty
<1>b. inners' \in [Inner -> InnerRecord]
  <2>1. inners \in [Inner -> InnerRecord] /\ inners[i].refs + 1 \in 0..MaxRefs
    BY <1>ty
  <2>2. [inners[i] EXCEPT !.refs = @ + 1] \in InnerRecord
    <3> QED
      BY <2>1
  <2> QED
    BY <2>1, <2>2
<1>1. TypeOK'
  BY <1>ty, <1>b
<1>2. PoolsAgree'
  BY <1>pa, <1>a
<1>3. OneCanonicalBlock'
  BY <1>ca, <1>a
<1>4. HeldSlotsBelong'
  BY <1>hb, <1>a
<1>5. DuplicatePinsPrimary'
  BY <1>dp, <1>a
<1>6. OptOutNeverCached'
  BY <1>oo, <1>a
<1>7. SlotsNameTheirInner'
  BY <1>sn, <1>a
<1>8. InnerShape'
  <2> SUFFICES ASSUME NEW k \in Inner PROVE InnerShape!(k)'
    OBVIOUS
  <2>1. CASE k = i
    BY <1>ty, <1>is, <1>a, <2>1
  <2>2. CASE k # i
    BY <1>ty, <1>is, <1>a, <2>2
  <2> QED BY <2>1, <2>2
<1>9. LiveIsHeld'
  BY <1>ty, <1>lh, <1>a
<1> QED
  BY <1>1, <1>2, <1>3, <1>4, <1>5, <1>6, <1>7, <1>8, <1>9 DEF IInv

\* The idle block of a hash becomes primary again behind a fresh inner.
LEMMA Resurrection ==
    ASSUME IInv, NEW h \in Hash, NEW n \in Inner, Resurrect(h, n),
           slots' = [slots EXCEPT ![IdleBlock(h)] = Primary(h, n)],
           inners' = [inners EXCEPT ![n] = NewPrimary(IdleBlock(h), h, 1)],
           doomed' \subseteq Block,
           UNCHANGED <<free, resetOnRelease, marks, policy>>
    PROVE  IInv'
<1> DEFINE b == IdleBlock(h)
<1>ty. TypeOK BY DEF IInv
<1>pa. PoolsAgree BY DEF IInv
<1>ca. OneCanonicalBlock BY DEF IInv
<1>hb. HeldSlotsBelong BY DEF IInv
<1>dp. DuplicatePinsPrimary BY DEF IInv
<1>oo. OptOutNeverCached BY DEF IInv
<1>sn. SlotsNameTheirInner BY DEF IInv
<1>is. InnerShape BY DEF IInv
<1>lh. LiveIsHeld BY DEF IInv
<1>a. /\ b \in Block /\ slots[b].hash = h /\ slots[b].state \in {"Primary", "Inactive"}
      /\ \A k \in Inner : ~(Live(k) /\ inners[k].block = b)
      /\ \A k \in Inner : inners[k].keep # NoInner => inners[k].hash # h
  BY <1>ty, <1>pa, <1>hb, <1>dp, <1>is DEF Resurrect, Registered, ActiveHit, IdleBlock
<1>b. /\ inners[n] = NoObject /\ \A c \in Block : slots[c].inner # n
      /\ n \notin registering /\ \A k \in Inner : inners[k].keep # n
  BY <1>ty, <1>dp, <1>is DEF Resurrect, Vacant
<1> HIDE DEF b
<1>c. /\ slots'[b] = Primary(h, n) /\ \A c \in Block : c # b => slots'[c] = slots[c]
      /\ inners'[n] = NewPrimary(b, h, 1) /\ \A k \in Inner : k # n => inners'[k] = inners[k]
      /\ inactive' = [inactive EXCEPT ![h] = NoBlock]
      /\ activeByHash' = [activeByHash EXCEPT ![h] = b]
  BY <1>ty, <1>a DEF Resurrect, b
<1>d. slots' \in [Block -> [state : SlotStates, hash : Hash \cup {NoHash}, inner : Inner \cup {NoInner}]]
      /\ inners' \in [Inner -> InnerRecord]
  BY <1>ty, <1>a DEF b, NewPrimary
<1>1. TypeOK'
  BY <1>ty, <1>a, <1>c, <1>d
<1>2. PoolsAgree'
  BY <1>ty, <1>pa, <1>ca, <1>a, <1>b, <1>c DEF NewPrimary
<1>3. OneCanonicalBlock'
  BY <1>ty, <1>ca, <1>a, <1>b, <1>c DEF NewPrimary
<1>4. HeldSlotsBelong'
  BY <1>hb, <1>a, <1>b, <1>c DEF NewPrimary
<1>5. DuplicatePinsPrimary'
  BY <1>dp, <1>a, <1>b, <1>c DEF NewPrimary
<1>6. OptOutNeverCached'
  BY <1>oo, <1>a, <1>b, <1>c DEF NewPrimary
<1>7. SlotsNameTheirInner'
  <2> SUFFICES ASSUME NEW c \in Block PROVE SlotsNameTheirInner!(c)'
    OBVIOUS
  <2>1. CASE c = b
    BY <1>a, <1>b, <1>c, <2>1 DEF NewPrimary
  <2>2. CASE c # b
    BY <1>sn, <1>a, <1>b, <1>c, <2>2 DEF NewPrimary
  <2> QED BY <2>1, <2>2
<1>8. InnerShape'
  BY <1>ty, <1>is, <1>a, <1>b, <1>c DEF NewPrimary
<1>9. LiveIsHeld'
  BY <1>lh, <1>a, <1>b, <1>c DEF NewPrimary
<1> QED
  BY <1>1, <1>2, <1>3, <1>4, <1>5, <1>6, <1>7, <1>8, <1>9 DEF IInv

-----------------------------------------------------------------------------
(* One lemma per action. *)

\* allocate_atomic preserves the invariant: evicted hashes lose their index entry
\* in the same critical section that makes their blocks mutable.
LEMMA AllocateInv ==
    ASSUME IInv, NEW S \in SUBSET Block, Allocate(S)
    PROVE  IInv'
<1>ty. TypeOK BY DEF IInv
<1>pa. PoolsAgree BY DEF IInv
<1>ca. OneCanonicalBlock BY DEF IInv
<1>hb. HeldSlotsBelong BY DEF IInv
<1>dp. DuplicatePinsPrimary BY DEF IInv
<1>oo. OptOutNeverCached BY DEF IInv
<1>sn. SlotsNameTheirInner BY DEF IInv
<1>is. InnerShape BY DEF IInv
<1>lh. LiveIsHeld BY DEF IInv
<1>1. TypeOK'
  BY <1>ty DEF Allocate, ToMutable, Evict, FreeBlocks, IndexedBlocks
<1>2. PoolsAgree'
  BY <1>pa DEF Allocate, ToMutable, Evict, FreeBlocks, IndexedBlocks
<1>3. OneCanonicalBlock'
  BY <1>ca DEF Allocate, ToMutable, Evict, FreeBlocks, IndexedBlocks
<1>4. HeldSlotsBelong'
  <2>1. inners' = inners
    BY DEF Allocate
  <2>2. \A c \in Block : slots[c].state \in {"Primary", "Duplicate"} => slots'[c] = slots[c]
    BY <1>pa DEF Allocate, ToMutable, FreeBlocks, IndexedBlocks
  <2>3. \A k \in Inner : Live(k) =>
            inners[k].block \in Block /\ slots[inners[k].block].state \in {"Primary", "Duplicate"}
    BY <1>hb, <1>is
  <2>4. HeldSlotsBelong
    BY <1>hb
  <2> QED
    BY <2>1, <2>2, <2>3, <2>4
<1>5. DuplicatePinsPrimary'
  BY <1>dp DEF Allocate, ToMutable, Evict, FreeBlocks, IndexedBlocks
<1>6. OptOutNeverCached'
  BY <1>oo DEF Allocate, ToMutable, Evict, FreeBlocks, IndexedBlocks
<1>7. SlotsNameTheirInner'
  BY <1>sn DEF Allocate, ToMutable, Evict, FreeBlocks, IndexedBlocks
<1>8. InnerShape'
  BY <1>is DEF Allocate, ToMutable, Evict, FreeBlocks, IndexedBlocks
<1>9. LiveIsHeld'
  BY <1>lh DEF Allocate, ToMutable, Evict, FreeBlocks, IndexedBlocks
<1> QED
  BY <1>1, <1>2, <1>3, <1>4, <1>5, <1>6, <1>7, <1>8, <1>9 DEF IInv

\* drain_inactive_to_mutable preserves the invariant: the index it empties is
\* exactly the set of Inactive slots.
LEMMA DrainInactiveInv ==
    ASSUME IInv, DrainInactive
    PROVE  IInv'
<1>ty. TypeOK BY DEF IInv
<1>pa. PoolsAgree BY DEF IInv
<1>hb. HeldSlotsBelong BY DEF IInv
<1>dp. DuplicatePinsPrimary BY DEF IInv
<1>oo. OptOutNeverCached BY DEF IInv
<1>sn. SlotsNameTheirInner BY DEF IInv
<1>is. InnerShape BY DEF IInv
<1>lh. LiveIsHeld BY DEF IInv
<1>1. TypeOK'
  BY <1>ty DEF DrainInactive, ToMutable, Evict, IndexedBlocks
<1>2. PoolsAgree'
  BY <1>pa DEF DrainInactive, ToMutable, Evict, IndexedBlocks
<1>3. OneCanonicalBlock'
  BY DEF DrainInactive, ToMutable, Evict, IndexedBlocks
<1>4. HeldSlotsBelong'
  BY <1>pa, <1>hb, <1>is DEF DrainInactive, ToMutable, Evict, IndexedBlocks
<1>5. DuplicatePinsPrimary'
  BY <1>dp DEF DrainInactive, ToMutable, Evict, IndexedBlocks
<1>6. OptOutNeverCached'
  BY <1>oo DEF DrainInactive, ToMutable, Evict, IndexedBlocks
<1>7. SlotsNameTheirInner'
  BY <1>sn DEF DrainInactive, ToMutable, Evict, IndexedBlocks
<1>8. InnerShape'
  BY <1>is DEF DrainInactive, ToMutable, Evict, IndexedBlocks
<1>9. LiveIsHeld'
  BY <1>lh DEF DrainInactive, ToMutable, Evict, IndexedBlocks
<1> QED
  BY <1>1, <1>2, <1>3, <1>4, <1>5, <1>6, <1>7, <1>8, <1>9 DEF IInv

\* MutableBlock::stage and complete preserve the invariant.
LEMMA StageInv ==
    ASSUME IInv, NEW b \in Block, NEW h \in Hash, Stage(b, h)
    PROVE  IInv'
<1>ty. TypeOK BY DEF IInv
<1>pa. PoolsAgree BY DEF IInv
<1>ca. OneCanonicalBlock BY DEF IInv
<1>hb. HeldSlotsBelong BY DEF IInv
<1>dp. DuplicatePinsPrimary BY DEF IInv
<1>oo. OptOutNeverCached BY DEF IInv
<1>sn. SlotsNameTheirInner BY DEF IInv
<1>is. InnerShape BY DEF IInv
<1>lh. LiveIsHeld BY DEF IInv
<1>1. TypeOK'
  BY <1>ty DEF Stage
<1>2. PoolsAgree'
  BY <1>pa DEF Stage
<1>3. OneCanonicalBlock'
  BY <1>ca DEF Stage
<1>4. HeldSlotsBelong'
  BY <1>hb DEF Stage
<1>5. DuplicatePinsPrimary'
  BY <1>dp DEF Stage
<1>6. OptOutNeverCached'
  BY <1>oo DEF Stage
<1>7. SlotsNameTheirInner'
  BY <1>sn DEF Stage
<1>8. InnerShape'
  BY <1>is DEF Stage
<1>9. LiveIsHeld'
  BY <1>lh DEF Stage
<1> QED
  BY <1>1, <1>2, <1>3, <1>4, <1>5, <1>6, <1>7, <1>8, <1>9 DEF IInv

\* CompleteBlock::reset preserves the invariant.
LEMMA ResetCompleteInv ==
    ASSUME IInv, NEW b \in Block, ResetComplete(b)
    PROVE  IInv'
<1>ty. TypeOK BY DEF IInv
<1>pa. PoolsAgree BY DEF IInv
<1>ca. OneCanonicalBlock BY DEF IInv
<1>hb. HeldSlotsBelong BY DEF IInv
<1>dp. DuplicatePinsPrimary BY DEF IInv
<1>oo. OptOutNeverCached BY DEF IInv
<1>sn. SlotsNameTheirInner BY DEF IInv
<1>is. InnerShape BY DEF IInv
<1>lh. LiveIsHeld BY DEF IInv
<1>1. TypeOK'
  BY <1>ty DEF ResetComplete
<1>2. PoolsAgree'
  BY <1>pa DEF ResetComplete
<1>3. OneCanonicalBlock'
  BY <1>ca DEF ResetComplete
<1>4. HeldSlotsBelong'
  BY <1>hb DEF ResetComplete
<1>5. DuplicatePinsPrimary'
  BY <1>dp DEF ResetComplete
<1>6. OptOutNeverCached'
  BY <1>oo DEF ResetComplete
<1>7. SlotsNameTheirInner'
  BY <1>sn DEF ResetComplete
<1>8. InnerShape'
  BY <1>is DEF ResetComplete
<1>9. LiveIsHeld'
  BY <1>lh DEF ResetComplete
<1> QED
  BY <1>1, <1>2, <1>3, <1>4, <1>5, <1>6, <1>7, <1>8, <1>9 DEF IInv

\* release_mutable and release_staged preserve the invariant: the block was not
\* in the free deque yet.
LEMMA DropGuardInv ==
    ASSUME IInv, NEW b \in Block, DropGuard(b)
    PROVE  IInv'
<1>ty. TypeOK BY DEF IInv
<1>pa. PoolsAgree BY DEF IInv
<1>ca. OneCanonicalBlock BY DEF IInv
<1>hb. HeldSlotsBelong BY DEF IInv
<1>dp. DuplicatePinsPrimary BY DEF IInv
<1>oo. OptOutNeverCached BY DEF IInv
<1>sn. SlotsNameTheirInner BY DEF IInv
<1>is. InnerShape BY DEF IInv
<1>lh. LiveIsHeld BY DEF IInv
<1>1. TypeOK'
  BY <1>ty DEF DropGuard
<1>2. PoolsAgree'
  BY <1>ty, <1>pa DEF DropGuard
<1>3. OneCanonicalBlock'
  BY <1>ca DEF DropGuard
<1>4. HeldSlotsBelong'
  BY <1>hb DEF DropGuard
<1>5. DuplicatePinsPrimary'
  BY <1>dp DEF DropGuard
<1>6. OptOutNeverCached'
  BY <1>oo DEF DropGuard
<1>7. SlotsNameTheirInner'
  BY <1>sn DEF DropGuard
<1>8. InnerShape'
  BY <1>is DEF DropGuard
<1>9. LiveIsHeld'
  BY <1>lh DEF DropGuard
<1> QED
  BY <1>1, <1>2, <1>3, <1>4, <1>5, <1>6, <1>7, <1>8, <1>9 DEF IInv

\* A lookup that finds a live primary preserves the invariant.
LEMMA MatchActiveInv ==
    ASSUME IInv, NEW h \in Hash, MatchActive(h)
    PROVE  IInv'
<1> DEFINE i == slots[activeByHash[h]].inner
<1>1. /\ i \in Inner /\ Live(i) /\ inners[i].refs < MaxRefs
      /\ inners' = [inners EXCEPT ![i].refs = @ + 1]
      /\ doomed' \subseteq Block
      /\ UNCHANGED <<slots, free, index, resetOnRelease, marks, policy>>
  BY DEF MatchActive, ActiveHit, IInv
<1> QED
  BY <1>1, AddHandle

\* A registration rejected in favour of a live primary preserves the invariant.
LEMMA RegisterRejectInv ==
    ASSUME IInv, NEW b \in Block, RegisterReject(b)
    PROVE  IInv'
<1> DEFINE i == slots[activeByHash[slots[b].hash]].inner
<1>1. /\ i \in Inner /\ Live(i) /\ inners[i].refs < MaxRefs
      /\ inners' = [inners EXCEPT ![i].refs = @ + 1]
      /\ doomed' \subseteq Block
      /\ UNCHANGED <<slots, free, index, resetOnRelease, marks, policy>>
  <2>1. TypeOK
    BY DEF IInv
  <2> QED
    BY <2>1 DEF RegisterReject, ActiveHit
<1> QED
  BY <1>1, AddHandle, ZenonT(40)

\* ImmutableBlock::clone and pin preserve the invariant.
LEMMA CloneHandleInv ==
    ASSUME IInv, NEW i \in Inner, CloneHandle(i)
    PROVE  IInv'
<1>1. /\ Live(i) /\ inners[i].refs < MaxRefs
      /\ inners' = [inners EXCEPT ![i].refs = @ + 1]
      /\ doomed' \subseteq Block
      /\ UNCHANGED <<slots, free, index, resetOnRelease, marks, policy>>
  BY DEF CloneHandle, UsableRefs, IInv
<1> QED
  BY <1>1, AddHandle

\* A lookup that resurrects an idle block preserves the invariant, also when it
\* beats the old inner's release_primary to the mutex.
LEMMA MatchIdleInv ==
    ASSUME IInv, NEW h \in Hash, NEW n \in Inner, MatchIdle(h, n)
    PROVE  IInv'
<1>1. doomed' \subseteq Block
  BY DEF MatchIdle, IInv
<1> QED
  BY <1>1, Resurrection DEF MatchIdle

\* A registration rejected in favour of an idle block preserves the invariant.
LEMMA RegisterRejectIdleInv ==
    ASSUME IInv, NEW b \in Block, NEW n \in Inner, RegisterRejectIdle(b, n)
    PROVE  IInv'
<1>1. slots[b].hash \in Hash /\ doomed' \subseteq Block
  BY DEF RegisterRejectIdle, Registrable, IInv
<1> QED
  BY <1>1, Resurrection DEF RegisterRejectIdle

\* The first registration of a hash preserves the invariant.
LEMMA RegisterFreshInv ==
    ASSUME IInv, NEW b \in Block, NEW n \in Inner, RegisterFresh(b, n)
    PROVE  IInv'
<1>ty. TypeOK BY DEF IInv
<1>pa. PoolsAgree BY DEF IInv
<1>ca. OneCanonicalBlock BY DEF IInv
<1>hb. HeldSlotsBelong BY DEF IInv
<1>dp. DuplicatePinsPrimary BY DEF IInv
<1>oo. OptOutNeverCached BY DEF IInv
<1>sn. SlotsNameTheirInner BY DEF IInv
<1>is. InnerShape BY DEF IInv
<1>lh. LiveIsHeld BY DEF IInv
<1> DEFINE h == slots[b].hash
<1>a. /\ h \in Hash /\ slots[b].state = "Staged" /\ slots[b].inner = NoInner
      /\ activeByHash[h] = NoBlock /\ inactive[h] = NoBlock
      /\ \A k \in Inner : inners[k].keep # NoInner => inners[k].hash # h
  BY <1>dp, <1>sn, <1>is DEF RegisterFresh, Registrable, Registered
<1>b. /\ inners[n] = NoObject /\ \A c \in Block : slots[c].inner # n
      /\ n \notin registering /\ \A k \in Inner : inners[k].keep # n
  BY <1>ty, <1>dp, <1>is DEF RegisterFresh, Vacant
<1> HIDE DEF h
<1>c. /\ slots'[b] = Primary(h, n) /\ \A c \in Block : c # b => slots'[c] = slots[c]
      /\ inners'[n] = NewPrimary(b, h, 1) /\ \A k \in Inner : k # n => inners'[k] = inners[k]
      /\ activeByHash' = [activeByHash EXCEPT ![h] = b]
      /\ registering' = registering \cup {n}
      /\ UNCHANGED <<free, inactive, resetOnRelease, doomed, presence, absent, policy>>
  BY <1>ty DEF RegisterFresh, h
<1>d. slots' \in [Block -> [state : SlotStates, hash : Hash \cup {NoHash}, inner : Inner \cup {NoInner}]]
      /\ inners' \in [Inner -> InnerRecord]
  BY <1>ty, <1>a DEF RegisterFresh, h, NewPrimary
<1>1. TypeOK'
  BY <1>ty, <1>a, <1>c, <1>d
<1>2. PoolsAgree'
  BY <1>ty, <1>pa DEF RegisterFresh, Registrable, Registered, Vacant, NewPrimary
<1>3. OneCanonicalBlock'
  BY <1>ca, <1>a, <1>b, <1>c DEF NewPrimary
<1>4. HeldSlotsBelong'
  BY <1>ty, <1>hb DEF RegisterFresh, Registrable, Registered, Vacant, NewPrimary
<1>5. DuplicatePinsPrimary'
  BY <1>dp, <1>a, <1>b, <1>c DEF NewPrimary
<1>6. OptOutNeverCached'
  BY <1>oo, <1>a, <1>b, <1>c DEF NewPrimary
<1>7. SlotsNameTheirInner'
  BY <1>sn, <1>a, <1>b, <1>c DEF NewPrimary
<1>8. InnerShape'
  BY <1>ty, <1>sn, <1>is DEF RegisterFresh, Registrable, Registered, Vacant, NewPrimary
<1>9. LiveIsHeld'
  BY <1>is, <1>lh DEF RegisterFresh, Registrable, Registered, Vacant, NewPrimary
<1> QED
  BY <1>1, <1>2, <1>3, <1>4, <1>5, <1>6, <1>7, <1>8, <1>9 DEF IInv

\* mark_present, made after the mutex is released, preserves the invariant.
LEMMA MarkPresentInv ==
    ASSUME IInv, NEW i \in Inner, MarkPresent(i)
    PROVE  IInv'
<1>ty. TypeOK BY DEF IInv
<1>pa. PoolsAgree BY DEF IInv
<1>ca. OneCanonicalBlock BY DEF IInv
<1>hb. HeldSlotsBelong BY DEF IInv
<1>dp. DuplicatePinsPrimary BY DEF IInv
<1>oo. OptOutNeverCached BY DEF IInv
<1>sn. SlotsNameTheirInner BY DEF IInv
<1>is. InnerShape BY DEF IInv
<1>lh. LiveIsHeld BY DEF IInv
<1>1. TypeOK'
  BY <1>ty, <1>is DEF MarkPresent
<1>2. PoolsAgree'
  BY <1>pa DEF MarkPresent
<1>3. OneCanonicalBlock'
  BY <1>ca DEF MarkPresent
<1>4. HeldSlotsBelong'
  BY <1>hb DEF MarkPresent
<1>5. DuplicatePinsPrimary'
  BY <1>dp DEF MarkPresent
<1>6. OptOutNeverCached'
  BY <1>oo DEF MarkPresent
<1>7. SlotsNameTheirInner'
  BY <1>sn DEF MarkPresent
<1>8. InnerShape'
  BY <1>is DEF MarkPresent
<1>9. LiveIsHeld'
  BY <1>lh DEF MarkPresent
<1> QED
  BY <1>1, <1>2, <1>3, <1>4, <1>5, <1>6, <1>7, <1>8, <1>9 DEF IInv

\* mark_absent, made after the mutex is released, preserves the invariant.
LEMMA MarkAbsentInv ==
    ASSUME IInv, NEW h \in Hash, MarkAbsent(h)
    PROVE  IInv'
<1>ty. TypeOK BY DEF IInv
<1>pa. PoolsAgree BY DEF IInv
<1>ca. OneCanonicalBlock BY DEF IInv
<1>hb. HeldSlotsBelong BY DEF IInv
<1>dp. DuplicatePinsPrimary BY DEF IInv
<1>oo. OptOutNeverCached BY DEF IInv
<1>sn. SlotsNameTheirInner BY DEF IInv
<1>is. InnerShape BY DEF IInv
<1>lh. LiveIsHeld BY DEF IInv
<1>1. TypeOK'
  BY <1>ty DEF MarkAbsent
<1>2. PoolsAgree'
  BY <1>pa DEF MarkAbsent
<1>3. OneCanonicalBlock'
  BY <1>ca DEF MarkAbsent
<1>4. HeldSlotsBelong'
  BY <1>hb DEF MarkAbsent
<1>5. DuplicatePinsPrimary'
  BY <1>dp DEF MarkAbsent
<1>6. OptOutNeverCached'
  BY <1>oo DEF MarkAbsent
<1>7. SlotsNameTheirInner'
  BY <1>sn DEF MarkAbsent
<1>8. InnerShape'
  BY <1>is DEF MarkAbsent
<1>9. LiveIsHeld'
  BY <1>lh DEF MarkAbsent
<1> QED
  BY <1>1, <1>2, <1>3, <1>4, <1>5, <1>6, <1>7, <1>8, <1>9 DEF IInv

\* set_evict_on_reset on a held block preserves the invariant: it is not cached.
LEMMA SetEvictOnResetInv ==
    ASSUME IInv, NEW i \in Inner, NEW v \in BOOLEAN, SetEvictOnReset(i, v)
    PROVE  IInv'
<1>ty. TypeOK BY DEF IInv
<1>pa. PoolsAgree BY DEF IInv
<1>ca. OneCanonicalBlock BY DEF IInv
<1>hb. HeldSlotsBelong BY DEF IInv
<1>dp. DuplicatePinsPrimary BY DEF IInv
<1>oo. OptOutNeverCached BY DEF IInv
<1>sn. SlotsNameTheirInner BY DEF IInv
<1>is. InnerShape BY DEF IInv
<1>lh. LiveIsHeld BY DEF IInv
<1>1. TypeOK'
  BY <1>ty DEF SetEvictOnReset, UsableRefs
<1>2. PoolsAgree'
  BY <1>pa DEF SetEvictOnReset, UsableRefs
<1>3. OneCanonicalBlock'
  BY <1>ca DEF SetEvictOnReset, UsableRefs
<1>4. HeldSlotsBelong'
  BY <1>hb DEF SetEvictOnReset, UsableRefs
<1>5. DuplicatePinsPrimary'
  BY <1>dp DEF SetEvictOnReset, UsableRefs
<1>6. OptOutNeverCached'
  BY <1>ty, <1>hb, <1>oo, <1>is DEF SetEvictOnReset, UsableRefs
<1>7. SlotsNameTheirInner'
  BY <1>sn DEF SetEvictOnReset, UsableRefs
<1>8. InnerShape'
  BY <1>is DEF SetEvictOnReset, UsableRefs
<1>9. LiveIsHeld'
  BY <1>lh DEF SetEvictOnReset, UsableRefs
<1> QED
  BY <1>1, <1>2, <1>3, <1>4, <1>5, <1>6, <1>7, <1>8, <1>9 DEF IInv

\* set_primary_reset_on_release preserves the invariant: the canonical block it
\* reaches through a keepalive is held too.
LEMMA SetPrimaryResetInv ==
    ASSUME IInv, NEW i \in Inner, NEW v \in BOOLEAN, SetPrimaryResetOnRelease(i, v)
    PROVE  IInv'
<1>ty. TypeOK BY DEF IInv
<1>pa. PoolsAgree BY DEF IInv
<1>ca. OneCanonicalBlock BY DEF IInv
<1>hb. HeldSlotsBelong BY DEF IInv
<1>dp. DuplicatePinsPrimary BY DEF IInv
<1>oo. OptOutNeverCached BY DEF IInv
<1>sn. SlotsNameTheirInner BY DEF IInv
<1>is. InnerShape BY DEF IInv
<1>lh. LiveIsHeld BY DEF IInv
<1>1. TypeOK'
  BY <1>ty DEF SetPrimaryResetOnRelease, UsableRefs, CanonicalBlock
<1>2. PoolsAgree'
  BY <1>pa DEF SetPrimaryResetOnRelease, UsableRefs, CanonicalBlock
<1>3. OneCanonicalBlock'
  BY <1>ca DEF SetPrimaryResetOnRelease, UsableRefs, CanonicalBlock
<1>4. HeldSlotsBelong'
  BY <1>hb DEF SetPrimaryResetOnRelease, UsableRefs, CanonicalBlock
<1>5. DuplicatePinsPrimary'
  BY <1>dp DEF SetPrimaryResetOnRelease, UsableRefs, CanonicalBlock
<1>6. OptOutNeverCached'
  BY <1>ty, <1>hb, <1>dp, <1>oo, <1>is DEF SetPrimaryResetOnRelease, UsableRefs, CanonicalBlock
<1>7. SlotsNameTheirInner'
  BY <1>sn DEF SetPrimaryResetOnRelease, UsableRefs, CanonicalBlock
<1>8. InnerShape'
  BY <1>is DEF SetPrimaryResetOnRelease, UsableRefs, CanonicalBlock
<1>9. LiveIsHeld'
  BY <1>lh DEF SetPrimaryResetOnRelease, UsableRefs, CanonicalBlock
<1> QED
  BY <1>1, <1>2, <1>3, <1>4, <1>5, <1>6, <1>7, <1>8, <1>9 DEF IInv

\* A duplicate registered next to a live primary preserves the invariant.
LEMMA RegisterDuplicateInv ==
    ASSUME IInv, NEW b \in Block, NEW d \in Inner, RegisterDuplicate(b, d)
    PROVE  IInv'
<1>ty. TypeOK BY DEF IInv
<1>pa. PoolsAgree BY DEF IInv
<1>ca. OneCanonicalBlock BY DEF IInv
<1>hb. HeldSlotsBelong BY DEF IInv
<1>dp. DuplicatePinsPrimary BY DEF IInv
<1>oo. OptOutNeverCached BY DEF IInv
<1>sn. SlotsNameTheirInner BY DEF IInv
<1>is. InnerShape BY DEF IInv
<1>lh. LiveIsHeld BY DEF IInv
<1> DEFINE h == slots[b].hash
           p == slots[activeByHash[h]].inner
<1>a. /\ h \in Hash /\ slots[b].state = "Staged" /\ slots[b].inner = NoInner
      /\ p \in Inner /\ Live(p) /\ inners[p].primary /\ inners[p].hash = h
      /\ activeByHash[h] = inners[p].block
  <2>1. /\ slots[b].state = "Staged" /\ activeByHash[h] # NoBlock /\ Live(p)
    BY DEF RegisterDuplicate, Registrable, ActiveHit
  <2>2. h \in Hash /\ slots[b].inner = NoInner
    BY <1>sn, <2>1
  <2>3. PICK c \in Block : c = activeByHash[h]
    BY <1>ty, <2>1, <2>2
  <2>4. slots[c].state = "Primary" /\ slots[c].hash = h
    BY <1>pa, <2>2, <2>3
  <2>5. p = slots[c].inner
    BY <2>3
  <2> HIDE DEF h, p
  <2>6. p \in Inner /\ inners[p].block = c /\ inners[p].hash = h /\ inners[p].primary
    BY <1>sn, <2>4, <2>5
  <2> QED
    BY <2>1, <2>2, <2>3, <2>6
<1>b. /\ inners[d] = NoObject /\ d # p /\ \A c \in Block : slots[c].inner # d
      /\ d \notin registering /\ \A k \in Inner : inners[k].keep # d
  <2>1. inners[d] = NoObject /\ \A c \in Block : slots[c].inner # d
    BY <1>is DEF RegisterDuplicate, Vacant
  <2> QED
    <3> HIDE DEF h, p
    <3>1. d # p /\ d \notin registering
      BY <1>ty, <1>is, <1>a, <2>1
    <3>2. \A k \in Inner : inners[k].keep # d
      BY <1>ty, <1>dp, <2>1
    <3> QED
      BY <2>1, <3>1, <3>2
<1> HIDE DEF h, p
<1>c. /\ slots'[b] = Duplicate(h, d) /\ \A c \in Block : c # b => slots'[c] = slots[c]
      /\ inners'[d] = NewDuplicate(b, h, p) /\ \A k \in Inner : k # d => inners'[k] = inners[k]
      /\ registering' = registering \cup {d}
      /\ UNCHANGED <<free, inactive, activeByHash, resetOnRelease, doomed, presence, absent, policy>>
  BY <1>ty DEF RegisterDuplicate, h, p
<1>d. slots' \in [Block -> [state : SlotStates, hash : Hash \cup {NoHash}, inner : Inner \cup {NoInner}]]
  BY <1>ty, <1>a DEF RegisterDuplicate, h
<1>e. inners' \in [Inner -> InnerRecord]
  <2>1. NewDuplicate(b, h, p) \in InnerRecord
    BY <1>a DEF NewDuplicate
  <2>2. inners' = [inners EXCEPT ![d] = NewDuplicate(b, h, p)]
    BY DEF RegisterDuplicate, h, p
  <2> QED
    BY <1>ty, <2>1, <2>2
<1>f. /\ inners'[d].phase = "live" /\ inners'[d].block = b /\ inners'[d].hash = h
      /\ inners'[d].primary = FALSE /\ inners'[d].keep = p /\ inners'[d].refs = 1
      /\ slots'[b].state = "Duplicate" /\ slots'[b].hash = h /\ slots'[b].inner = d
  BY <1>c DEF NewDuplicate
<1>g. /\ \A k \in Inner : k # d => inners'[k] = inners[k]
      /\ \A c \in Block : c # b => slots'[c] = slots[c]
      /\ registering' = registering \cup {d}
      /\ UNCHANGED <<free, inactive, activeByHash, resetOnRelease, doomed, presence, absent, policy>>
  BY <1>c
<1>1. TypeOK'
  BY <1>ty, <1>a, <1>c, <1>d, <1>e
<1>2. PoolsAgree'
  BY <1>pa DEF RegisterDuplicate, Registrable, ActiveHit, Vacant, NewDuplicate
<1>3. OneCanonicalBlock'
  BY <1>ca, <1>a, <1>b, <1>f, <1>g
<1>4. HeldSlotsBelong'
  BY <1>ty, <1>hb DEF RegisterDuplicate, Registrable, ActiveHit, Vacant, NewDuplicate
<1>5. DuplicatePinsPrimary'
  BY <1>dp, <1>a, <1>b, <1>f, <1>g
<1>6. OptOutNeverCached'
  BY <1>oo, <1>a, <1>b, <1>f, <1>g
<1>7. SlotsNameTheirInner'
  BY <1>sn, <1>a, <1>b, <1>f, <1>g
<1>8. InnerShape'
  <2> SUFFICES ASSUME NEW k \in Inner PROVE InnerShape!(k)'
    OBVIOUS
  <2>1. CASE k = d
    BY <1>a, <1>b, <1>f, <1>g, <2>1
  <2>2. CASE k # d
    BY <1>is, <1>g, <2>2
  <2> QED
    BY <2>1, <2>2
<1>9. LiveIsHeld'
  BY <1>is, <1>lh DEF RegisterDuplicate, Registrable, ActiveHit, Vacant, NewDuplicate
<1> QED
  BY <1>1, <1>2, <1>3, <1>4, <1>5, <1>6, <1>7, <1>8, <1>9 DEF IInv

\* A duplicate registered next to an idle primary preserves the invariant,
\* although no caller holds the primary it resurrects.
LEMMA RegisterDuplicateIdleInv ==
    ASSUME IInv, NEW b \in Block, NEW n \in Inner, NEW d \in Inner,
           RegisterDuplicateIdle(b, n, d)
    PROVE  IInv'
<1>ty. TypeOK BY DEF IInv
<1>pa. PoolsAgree BY DEF IInv
<1>ca. OneCanonicalBlock BY DEF IInv
<1>hb. HeldSlotsBelong BY DEF IInv
<1>dp. DuplicatePinsPrimary BY DEF IInv
<1>oo. OptOutNeverCached BY DEF IInv
<1>sn. SlotsNameTheirInner BY DEF IInv
<1>is. InnerShape BY DEF IInv
<1>lh. LiveIsHeld BY DEF IInv
<1> DEFINE h == slots[b].hash
           q == IdleBlock(h)
<1>h. h \in Hash /\ slots[b].state = "Staged" /\ slots[b].inner = NoInner /\ Resurrect(h, n)
  BY <1>sn DEF RegisterDuplicateIdle, Registrable
<1>a. /\ q \in Block /\ q # b /\ slots[q].hash = h /\ slots[q].state \in {"Primary", "Inactive"}
      /\ \A k \in Inner : ~(Live(k) /\ inners[k].block = q)
      /\ \A k \in Inner : inners[k].keep # NoInner => inners[k].hash # h
  <2>1. /\ q \in Block /\ slots[q].hash = h /\ slots[q].state \in {"Primary", "Inactive"}
    BY <1>ty, <1>pa, <1>h DEF Resurrect, Registered, IdleBlock
  <2>2. q # b
    BY <1>h, <2>1
  <2>3. ~ ActiveHit(h)
    BY <1>h DEF Resurrect
  <2>4. \A k \in Inner : ~(Live(k) /\ inners[k].block = q)
    BY <1>pa, <1>hb, <1>h, <2>1, <2>3 DEF ActiveHit
  <2>5. ASSUME NEW k \in Inner, inners[k].keep # NoInner
        PROVE  inners[k].hash # h
    <3>1. PICK x \in Inner : /\ inners[x].phase = "live"
                             /\ activeByHash[inners[k].hash] = inners[x].block
      BY <1>dp, <2>5
    <3>2. PICK c \in Block : c = inners[x].block
      BY <1>is, <3>1
    <3>3. slots[c].inner = x
      BY <1>hb, <3>1, <3>2
    <3>4. c # NoBlock
      BY <3>2
    <3> QED
      BY <2>3, <3>1, <3>2, <3>3, <3>4 DEF ActiveHit
  <2> QED
    BY <2>1, <2>2, <2>4, <2>5
<1>b. /\ inners[d] = NoObject /\ inners[n] = NoObject /\ d # n
      /\ \A c \in Block : slots[c].inner # d /\ slots[c].inner # n
      /\ d \notin registering /\ n \notin registering
      /\ \A k \in Inner : inners[k].keep # d /\ inners[k].keep # n
  BY <1>ty, <1>dp, <1>is DEF RegisterDuplicateIdle, Resurrect, Vacant
<1> HIDE DEF h, q
<1>c. /\ slots'[b] = Duplicate(h, d) /\ slots'[q] = Primary(h, n)
      /\ \A c \in Block : c # b /\ c # q => slots'[c] = slots[c]
      /\ inners'[d] = NewDuplicate(b, h, n) /\ inners'[n] = NewPrimary(q, h, 0)
      /\ \A k \in Inner : k # d /\ k # n => inners'[k] = inners[k]
      /\ registering' = registering \cup {d}
      /\ inactive' = [inactive EXCEPT ![h] = NoBlock]
      /\ activeByHash' = [activeByHash EXCEPT ![h] = q]
      /\ UNCHANGED <<free, resetOnRelease, doomed, presence, absent, policy>>
  BY <1>ty, <1>a, <1>b DEF RegisterDuplicateIdle, Resurrect, h, q
<1>d. slots' \in [Block -> [state : SlotStates, hash : Hash \cup {NoHash}, inner : Inner \cup {NoInner}]]
  BY <1>ty, <1>a, <1>h DEF RegisterDuplicateIdle, h, q
<1>e. inners' \in [Inner -> InnerRecord]
  <2>1. NewDuplicate(b, h, n) \in InnerRecord /\ NewPrimary(q, h, 0) \in InnerRecord
    BY <1>a, <1>h DEF NewDuplicate, NewPrimary
  <2>2. inners' = [inners EXCEPT ![n] = NewPrimary(q, h, 0), ![d] = NewDuplicate(b, h, n)]
    BY DEF RegisterDuplicateIdle, h, q
  <2> QED
    BY <1>ty, <2>1, <2>2
<1>f. /\ inners'[d].phase = "live" /\ inners'[d].block = b /\ inners'[d].hash = h
      /\ inners'[d].primary = FALSE /\ inners'[d].keep = n /\ inners'[d].refs = 1
      /\ inners'[n].phase = "live" /\ inners'[n].block = q /\ inners'[n].hash = h
      /\ inners'[n].primary = TRUE /\ inners'[n].keep = NoInner /\ inners'[n].refs = 0
      /\ slots'[b].state = "Duplicate" /\ slots'[b].hash = h /\ slots'[b].inner = d
      /\ slots'[q].state = "Primary" /\ slots'[q].hash = h /\ slots'[q].inner = n
  BY <1>c DEF NewDuplicate, NewPrimary
<1>g. /\ \A k \in Inner : k # d /\ k # n => inners'[k] = inners[k]
      /\ \A c \in Block : c # b /\ c # q => slots'[c] = slots[c]
      /\ registering' = registering \cup {d}
      /\ inactive' = [inactive EXCEPT ![h] = NoBlock]
      /\ activeByHash' = [activeByHash EXCEPT ![h] = q]
      /\ UNCHANGED <<free, resetOnRelease, doomed, presence, absent, policy>>
  BY <1>c
<1>1. TypeOK'
  BY <1>ty, <1>a, <1>h, <1>c, <1>d, <1>e
<1>2. PoolsAgree'
  <2> SUFFICES ASSUME NEW c \in Block PROVE /\ free'[c] = (IF slots'[c].state = "Reset" THEN 1 ELSE 0)
          /\ \A g \in Hash :
               /\ activeByHash'[g] = c <=> (slots'[c].state = "Primary" /\ slots'[c].hash = g)
               /\ inactive'[g] = c <=> (slots'[c].state = "Inactive" /\ slots'[c].hash = g)
    OBVIOUS
  <2>1. CASE c = b
    BY <1>pa, <1>a, <1>h, <1>b, <1>f, <1>g, <2>1
  <2>2. CASE c = q
    BY <1>ty, <1>pa, <1>a, <1>h, <1>b, <1>f, <1>g, <2>2
  <2>3. CASE c # b /\ c # q
    BY <1>pa, <1>ca, <1>a, <1>h, <1>b, <1>f, <1>g, <2>3
  <2> QED
    BY <2>1, <2>2, <2>3
<1>3. OneCanonicalBlock'
  BY <1>ty, <1>ca, <1>a, <1>h, <1>b, <1>f, <1>g
<1>4. HeldSlotsBelong'
  <2> SUFFICES ASSUME NEW k \in Inner PROVE HeldSlotsBelong!(k)'
    OBVIOUS
  <2>1. CASE k = d
    BY <1>a, <1>h, <1>b, <1>f, <1>g, <2>1
  <2>2. CASE k = n
    BY <1>a, <1>h, <1>b, <1>f, <1>g, <2>2
  <2>3. CASE k # d /\ k # n
    BY <1>hb, <1>is, <1>a, <1>h, <1>b, <1>f, <1>g, <2>3
  <2> QED
    BY <2>1, <2>2, <2>3
<1>5. DuplicatePinsPrimary'
  <2> SUFFICES ASSUME NEW k \in Inner, inners'[k].keep # NoInner
               PROVE  DuplicatePinsPrimary!(k)'
    OBVIOUS
  <2>1. CASE k = d
    <3>1. activeByHash'[h] = q
      BY <1>ty, <1>h, <1>g
    <3> QED
      BY <1>f, <2>1, <3>1
  <2>2. CASE k # d
    <3>1. k # n /\ inners'[k] = inners[k] /\ inners[k].keep # NoInner
      BY <1>f, <1>g, <2>2
    <3>2. DuplicatePinsPrimary!(k) /\ inners[k].hash \in Hash \ {h}
      BY <1>dp, <1>is, <1>a, <3>1
    <3>3. /\ inners[k].keep \in Inner \ {d, n}
          /\ inners'[inners[k].keep] = inners[inners[k].keep]
      BY <1>dp, <1>b, <1>g, <3>1
    <3>4. activeByHash'[inners[k].hash] = activeByHash[inners[k].hash]
      BY <1>g, <3>2
    <3> QED
      BY <3>1, <3>2, <3>3, <3>4
  <2> QED
    BY <2>1, <2>2
<1>6. OptOutNeverCached'
  BY <1>oo, <1>a, <1>h, <1>b, <1>f, <1>g
<1>7. SlotsNameTheirInner'
  <2> SUFFICES ASSUME NEW c \in Block PROVE SlotsNameTheirInner!(c)'
    OBVIOUS
  <2>1. CASE c = b
    BY <1>a, <1>h, <1>b, <1>f, <1>g, <2>1
  <2>2. CASE c = q
    BY <1>a, <1>h, <1>b, <1>f, <1>g, <2>2
  <2>3. CASE c # b /\ c # q
    BY <1>sn, <1>a, <1>h, <1>b, <1>f, <1>g, <2>3
  <2> QED
    BY <2>1, <2>2, <2>3
<1>8. InnerShape'
  <2> SUFFICES ASSUME NEW k \in Inner PROVE InnerShape!(k)'
    OBVIOUS
  <2>1. CASE k = d
    BY <1>a, <1>h, <1>b, <1>f, <1>g, <2>1
  <2>2. CASE k = n
    BY <1>a, <1>h, <1>b, <1>f, <1>g, <2>2
  <2>3. CASE k # d /\ k # n
    <3>1. inners'[k] = inners[k] /\ (k \in registering' => k \in registering)
      BY <1>g, <2>3
    <3>2. InnerShape!(k)
      BY <1>is
    <3> QED
      BY <3>1, <3>2
  <2> QED
    BY <2>1, <2>2, <2>3
<1>9. LiveIsHeld'
  <2> SUFFICES ASSUME NEW k \in Inner PROVE LiveIsHeld!(k)'
    OBVIOUS
  <2>1. CASE k = d
    BY <1>a, <1>h, <1>b, <1>f, <1>g, <2>1
  <2>2. CASE k = n
    BY <1>a, <1>h, <1>b, <1>f, <1>g, <2>2
  <2>3. CASE k # d /\ k # n
    <3>1. inners'[k] = inners[k] /\ LiveIsHeld!(k)
      BY <1>lh, <1>g, <2>3
    <3>2. ASSUME NEW m \in Inner, inners[m].keep = k PROVE inners'[m].keep = k
      <4>1. inners[d].keep = NoInner /\ inners[n].keep = NoInner /\ k # NoInner
        BY <1>b
      <4>2. m # d /\ m # n
        BY <3>2, <4>1
      <4> QED
        BY <1>g, <3>2, <4>2
    <3> QED
      BY <3>1, <3>2
  <2> QED
    BY <2>1, <2>2, <2>3
<1> QED
  BY <1>1, <1>2, <1>3, <1>4, <1>5, <1>6, <1>7, <1>8, <1>9 DEF IInv

\* An Arc decrement preserves the invariant: the last one outside a keepalive
\* moves the inner to its Drop and nothing else.
LEMMA DropHandleInv ==
    ASSUME IInv, NEW i \in Inner, DropHandle(i)
    PROVE  IInv'
<1>ty. TypeOK BY DEF IInv
<1>pa. PoolsAgree BY DEF IInv
<1>ca. OneCanonicalBlock BY DEF IInv
<1>hb. HeldSlotsBelong BY DEF IInv
<1>dp. DuplicatePinsPrimary BY DEF IInv
<1>oo. OptOutNeverCached BY DEF IInv
<1>sn. SlotsNameTheirInner BY DEF IInv
<1>is. InnerShape BY DEF IInv
<1>lh. LiveIsHeld BY DEF IInv
<1> DEFINE r == inners[i].refs - 1
           ph == IF StillHeld(i, r, NoInner) THEN "live" ELSE "dropping"
<1>a. /\ Live(i) /\ r \in 0..MaxRefs /\ (i \in registering => r > 0)
  BY <1>ty, <1>is DEF DropHandle, UsableRefs
<1>b. /\ inners' = [inners EXCEPT ![i].refs = r, ![i].phase = ph]
      /\ UNCHANGED <<slots, free, inactive, activeByHash, resetOnRelease, doomed,
                     registering, presence, absent, policy>>
  BY DEF DropHandle
<1>c. /\ ph \in {"live", "dropping"}
      /\ ph = "live" <=> (r > 0 \/ \E k \in Inner : inners[k].keep = i)
  OBVIOUS
<1> HIDE DEF r, ph
<1>d. /\ inners'[i].phase = ph /\ inners'[i].refs = r /\ inners'[i].block = inners[i].block
      /\ inners'[i].hash = inners[i].hash /\ inners'[i].primary = inners[i].primary
      /\ inners'[i].keep = inners[i].keep
      /\ \A k \in Inner : k # i => inners'[k] = inners[k]
      /\ \A k \in Inner : inners'[k].keep = inners[k].keep
  BY <1>ty, <1>a, <1>b
<1>e. inners' \in [Inner -> InnerRecord]
  <2> DEFINE mid == [inners EXCEPT ![i].refs = r]
  <2>1. mid \in [Inner -> InnerRecord]
    BY <1>ty, <1>is, <1>a
  <2>2. inners' = [mid EXCEPT ![i].phase = ph]
    BY <1>b
  <2>3. ph \in Phases
    BY <1>c
  <2> HIDE DEF mid
  <2> QED
    BY <2>1, <2>2, <2>3
<1>1. TypeOK'
  BY <1>ty, <1>b, <1>e
<1>2. PoolsAgree'
  BY <1>pa, <1>a, <1>b, <1>c, <1>d
<1>3. OneCanonicalBlock'
  BY <1>ca, <1>a, <1>b, <1>c, <1>d
<1>4. HeldSlotsBelong'
  BY <1>ty, <1>hb, <1>a, <1>b, <1>c, <1>d
<1>5. DuplicatePinsPrimary'
  BY <1>ty, <1>dp, <1>a, <1>b, <1>c, <1>d
<1>6. OptOutNeverCached'
  BY <1>oo, <1>a, <1>b, <1>c, <1>d
<1>7. SlotsNameTheirInner'
  BY <1>ty, <1>sn, <1>a, <1>b, <1>c, <1>d
<1>8. InnerShape'
  <2> SUFFICES ASSUME NEW k \in Inner PROVE InnerShape!(k)'
    OBVIOUS
  <2>1. CASE k = i
    BY <1>is, <1>a, <1>b, <1>c, <1>d, <2>1
  <2>2. CASE k # i
    <3>1. inners'[k] = inners[k] /\ registering' = registering /\ InnerShape!(k)
      BY <1>is, <1>b, <1>d, <2>2
    <3> QED
      BY <3>1
  <2> QED
    BY <2>1, <2>2
<1>9. LiveIsHeld'
  BY <1>ty, <1>lh, <1>a, <1>b, <1>c, <1>d
<1> QED
  BY <1>1, <1>2, <1>3, <1>4, <1>5, <1>6, <1>7, <1>8, <1>9 DEF IInv

\* release_primary preserves the invariant: the identity check keeps it off a
\* slot a lookup has given to another inner.
LEMMA ReleasePrimaryInv ==
    ASSUME IInv, NEW i \in Inner, ReleasePrimary(i)
    PROVE  IInv'
<1>ty. TypeOK BY DEF IInv
<1>pa. PoolsAgree BY DEF IInv
<1>ca. OneCanonicalBlock BY DEF IInv
<1>hb. HeldSlotsBelong BY DEF IInv
<1>dp. DuplicatePinsPrimary BY DEF IInv
<1>oo. OptOutNeverCached BY DEF IInv
<1>sn. SlotsNameTheirInner BY DEF IInv
<1>is. InnerShape BY DEF IInv
<1>lh. LiveIsHeld BY DEF IInv
<1> DEFINE b == inners[i].block
           h == inners[i].hash
<1>a. /\ inners[i].phase = "dropping" /\ inners[i].primary /\ b \in Block /\ h \in Hash
      /\ inners[i].refs = 0 /\ i \notin registering /\ \A k \in Inner : inners[k].keep # i
  <2>1. inners[i].phase = "dropping" /\ inners[i].primary
    BY DEF ReleasePrimary
  <2>2. InnerShape!(i) /\ inners[i].refs \in 0..MaxRefs
    BY <1>ty, <1>is
  <2>3. \A k \in Inner : inners[k].keep # i
    BY <1>dp, <2>1
  <2> QED
    BY <2>1, <2>2, <2>3
<1>b. inners' \in [Inner -> InnerRecord] /\ inners' = [inners EXCEPT ![i] = NoObject]
  BY <1>ty DEF ReleasePrimary
<1>c. UNCHANGED <<resetOnRelease, doomed, registering, presence, policy>>
  BY DEF ReleasePrimary
<1>d. CASE slots[b].state = "Primary" /\ slots[b].inner = i /\ resetOnRelease[b]
  <2>1. /\ slots' = [slots EXCEPT ![b] = Reset] /\ free' = [free EXCEPT ![b] = @ + 1]
        /\ absent' = [absent EXCEPT ![h] = @ + 1]
        /\ activeByHash' = [activeByHash EXCEPT ![h] = NoBlock] /\ inactive' = inactive
    BY <1>d DEF ReleasePrimary
  <2>2. slots[b].hash = h /\ activeByHash[h] = b /\ inactive[h] = NoBlock
    BY <1>pa, <1>ca, <1>sn, <1>a, <1>d
  <2> HIDE DEF b, h
  <2>3. TypeOK'
    BY <1>ty, <1>a, <1>b, <1>c, <2>1
  <2>4. PoolsAgree'
    BY <1>ty, <1>pa, <1>a, <1>d, <2>1, <2>2
  <2>5. OneCanonicalBlock' /\ OptOutNeverCached'
    BY <1>ca, <1>oo, <1>a, <1>c, <1>d, <2>1, <2>2
  <2>6. HeldSlotsBelong'
    BY <1>hb, <1>a, <1>b, <1>d, <2>1, <2>2 DEF b, h
  <2>7. DuplicatePinsPrimary'
    BY <1>hb, <1>dp, <1>a, <1>b, <1>d, <2>1, <2>2 DEF b, h
  <2>8. SlotsNameTheirInner'
    BY <1>ty, <1>sn, <1>a, <1>b, <1>d, <2>1, <2>2 DEF b, h
  <2>9. InnerShape' /\ LiveIsHeld'
    BY <1>is, <1>lh, <1>a, <1>b, <1>c
  <2> QED
    BY <2>3, <2>4, <2>5, <2>6, <2>7, <2>8, <2>9 DEF IInv
<1>e. CASE slots[b].state = "Primary" /\ slots[b].inner = i /\ ~resetOnRelease[b]
  <2>1. /\ slots' = [slots EXCEPT ![b] = Inactive(h)] /\ free' = free /\ absent' = absent
        /\ inactive' = [inactive EXCEPT ![h] = b]
        /\ activeByHash' = [activeByHash EXCEPT ![h] = NoBlock]
    BY <1>e DEF ReleasePrimary
  <2>2. slots[b].hash = h /\ activeByHash[h] = b /\ inactive[h] = NoBlock
    BY <1>pa, <1>ca, <1>sn, <1>a, <1>e
  <2> HIDE DEF b, h
  <2>3. TypeOK'
    BY <1>ty, <1>a, <1>b, <1>c, <2>1
  <2>4. PoolsAgree'
    BY <1>ty, <1>pa, <1>a, <1>e, <2>1, <2>2
  <2>5. OneCanonicalBlock' /\ OptOutNeverCached'
    BY <1>ty, <1>ca, <1>oo, <1>a, <1>c, <1>e, <2>1, <2>2
  <2>6. HeldSlotsBelong'
    BY <1>hb, <1>a, <1>b, <1>e, <2>1, <2>2 DEF b, h
  <2>7. DuplicatePinsPrimary'
    BY <1>hb, <1>dp, <1>a, <1>b, <1>e, <2>1, <2>2 DEF b, h
  <2>8. SlotsNameTheirInner'
    BY <1>ty, <1>sn, <1>a, <1>b, <1>e, <2>1, <2>2 DEF b, h
  <2>9. InnerShape' /\ LiveIsHeld'
    BY <1>is, <1>lh, <1>a, <1>b, <1>c
  <2> QED
    BY <2>3, <2>4, <2>5, <2>6, <2>7, <2>8, <2>9 DEF IInv
<1>f. CASE ~(slots[b].state = "Primary" /\ slots[b].inner = i)
  <2>1. UNCHANGED <<slots, free, inactive, activeByHash, absent>>
    BY <1>f DEF ReleasePrimary
  <2>2. \A c \in Block : slots[c].inner # i
    BY <1>sn, <1>a, <1>f
  <2> HIDE DEF b, h
  <2>3. TypeOK' /\ PoolsAgree' /\ OneCanonicalBlock' /\ OptOutNeverCached'
    BY <1>ty, <1>pa, <1>ca, <1>oo, <1>b, <1>c, <2>1
  <2>4. HeldSlotsBelong' /\ DuplicatePinsPrimary'
    BY <1>hb, <1>dp, <1>a, <1>b, <2>1, <2>2
  <2>5. SlotsNameTheirInner'
    BY <1>sn, <1>a, <1>b, <2>1, <2>2
  <2>6. InnerShape' /\ LiveIsHeld'
    BY <1>is, <1>lh, <1>a, <1>b, <1>c
  <2> QED
    BY <2>3, <2>4, <2>5, <2>6 DEF IInv
<1> QED
  BY <1>d, <1>e, <1>f

\* release_duplicate preserves the invariant: the keepalive outlives the slot.
LEMMA ReleaseDuplicateInv ==
    ASSUME IInv, NEW i \in Inner, ReleaseDuplicate(i)
    PROVE  IInv'
<1>ty. TypeOK BY DEF IInv
<1>pa. PoolsAgree BY DEF IInv
<1>ca. OneCanonicalBlock BY DEF IInv
<1>hb. HeldSlotsBelong BY DEF IInv
<1>dp. DuplicatePinsPrimary BY DEF IInv
<1>oo. OptOutNeverCached BY DEF IInv
<1>sn. SlotsNameTheirInner BY DEF IInv
<1>is. InnerShape BY DEF IInv
<1>lh. LiveIsHeld BY DEF IInv
<1>1. TypeOK'
  <2>1. inners \in [Inner -> InnerRecord] /\ inners' = [inners EXCEPT ![i].phase = "released"]
    BY <1>ty DEF ReleaseDuplicate
  <2>2. inners' \in [Inner -> InnerRecord]
    <3> QED
      BY <2>1
  <2>3. CASE slots[inners[i].block].state = "Duplicate" /\ slots[inners[i].block].inner = i
    <3>1. inners[i].block \in Block /\ inners[i].hash \in Hash
      BY <1>is, <2>3 DEF ReleaseDuplicate
    <3>2. /\ slots' = [slots EXCEPT ![inners[i].block] = Reset]
          /\ free' = [free EXCEPT ![inners[i].block] = @ + 1]
          /\ absent' = [absent EXCEPT ![inners[i].hash] = @ + 1]
          /\ UNCHANGED <<inactive, activeByHash, resetOnRelease, doomed, registering, presence, policy>>
      BY <2>3 DEF ReleaseDuplicate
    <3> QED
      BY <1>ty, <2>2, <3>1, <3>2
  <2>4. CASE ~(slots[inners[i].block].state = "Duplicate" /\ slots[inners[i].block].inner = i)
    BY <1>ty, <1>pa, <2>2, <2>4 DEF ReleaseDuplicate
  <2> QED
    BY <2>3, <2>4
<1>a. inners[i].block \in Block
  BY <1>is DEF ReleaseDuplicate
<1>b. /\ UNCHANGED <<inactive, activeByHash, resetOnRelease>>
      /\ \/ /\ slots[inners[i].block].state = "Duplicate"
            /\ slots' = [slots EXCEPT ![inners[i].block] = Reset]
            /\ free' = [free EXCEPT ![inners[i].block] = @ + 1]
         \/ UNCHANGED <<slots, free>>
  BY DEF ReleaseDuplicate
<1>2. PoolsAgree'
  <2>1. TypeOK /\ PoolsAgree
    BY <1>ty, <1>pa
  <2> QED
    BY <1>a, <1>b, <2>1
<1>3. OneCanonicalBlock'
  <2>1. OneCanonicalBlock
    BY <1>ca
  <2> QED
    BY <1>b, <2>1
<1>c. /\ inners'[i].phase = "released"
      /\ \A k \in Inner : k # i => inners'[k] = inners[k]
  BY <1>ty DEF ReleaseDuplicate
<1>4. HeldSlotsBelong'
  <2> SUFFICES ASSUME NEW k \in Inner, inners'[k].phase = "live" PROVE HeldSlotsBelong!(k)'
    OBVIOUS
  <2>1. k # i /\ inners'[k] = inners[k]
    BY <1>c
  <2>2. inners[k].block \in Block /\ HeldSlotsBelong!(k) /\ Live(k)
    BY <1>hb, <1>is, <2>1
  <2>3. slots'[inners[k].block] = slots[inners[k].block]
    BY <1>ty, <2>1, <2>2 DEF ReleaseDuplicate
  <2> QED
    BY <2>1, <2>2, <2>3
<1>5. DuplicatePinsPrimary'
  BY <1>ty, <1>pa, <1>ca, <1>dp DEF ReleaseDuplicate
<1>6. OptOutNeverCached'
  <2>1. TypeOK /\ OptOutNeverCached
    BY <1>ty, <1>oo
  <2> QED
    BY <1>a, <1>b, <2>1
<1>7. SlotsNameTheirInner'
  <2> SUFFICES ASSUME NEW c \in Block PROVE SlotsNameTheirInner!(c)'
    OBVIOUS
  <2>1. SlotsNameTheirInner!(c) /\ slots \in [Block -> [state : SlotStates,
                  hash : Hash \cup {NoHash}, inner : Inner \cup {NoInner}]]
    BY <1>ty, <1>sn
  <2>2. CASE slots[c].state \in {"Primary", "Duplicate"} /\ slots[c].inner = i
    <3>1. c = inners[i].block /\ slots[c].state = "Duplicate"
      BY <2>1, <2>2 DEF ReleaseDuplicate
    <3>2. slots'[c] = Reset
      BY <2>1, <2>2, <3>1 DEF ReleaseDuplicate
    <3> QED
      BY <3>2
  <2>3. CASE ~(slots[c].state \in {"Primary", "Duplicate"} /\ slots[c].inner = i)
    <3>1. slots'[c] = slots[c] \/ slots'[c] = Reset
      BY <1>b, <2>1
    <3>2. CASE slots'[c] = Reset
      BY <3>2
    <3>3. CASE slots'[c] = slots[c]
      <4> QED
        BY <1>c, <2>1, <2>3, <3>3
    <3> QED
      BY <3>1, <3>2, <3>3
  <2> QED
    BY <2>2, <2>3
<1>8. InnerShape'
  BY <1>ty, <1>ca, <1>is DEF ReleaseDuplicate
<1>9. LiveIsHeld'
  BY <1>ty, <1>lh DEF ReleaseDuplicate
<1> QED
  BY <1>1, <1>2, <1>3, <1>4, <1>5, <1>6, <1>7, <1>8, <1>9 DEF IInv

\* Dropping the keepalive field preserves the invariant: the primary starts its
\* own Drop only when this was its last strong reference.
LEMMA DropKeepaliveInv ==
    ASSUME IInv, NEW d \in Inner, DropKeepalive(d)
    PROVE  IInv'
<1>ty. TypeOK BY DEF IInv
<1>pa. PoolsAgree BY DEF IInv
<1>ca. OneCanonicalBlock BY DEF IInv
<1>hb. HeldSlotsBelong BY DEF IInv
<1>dp. DuplicatePinsPrimary BY DEF IInv
<1>oo. OptOutNeverCached BY DEF IInv
<1>sn. SlotsNameTheirInner BY DEF IInv
<1>is. InnerShape BY DEF IInv
<1>lh. LiveIsHeld BY DEF IInv
<1> DEFINE p == inners[d].keep
           ph == IF StillHeld(p, inners[p].refs, d) THEN "live" ELSE "dropping"
<1>a. /\ inners[d].phase = "released" /\ ~inners[d].primary /\ inners[d].refs = 0
      /\ p \in Inner /\ p # d /\ Live(p) /\ inners[p].primary
  BY <1>ty, <1>dp, <1>is DEF DropKeepalive
<1>b. /\ inners' = [inners EXCEPT ![d] = NoObject, ![p].phase = ph]
      /\ UNCHANGED <<slots, free, inactive, activeByHash, resetOnRelease, doomed,
                     registering, presence, absent, policy>>
  BY DEF DropKeepalive
<1>c. /\ ph \in {"live", "dropping"}
      /\ ph = "live" <=> (inners[p].refs > 0 \/ \E k \in Inner \ {d} : inners[k].keep = p)
  OBVIOUS
<1>k. p = inners[d].keep
  OBVIOUS
<1> HIDE DEF p, ph
<1> DEFINE mid == [inners EXCEPT ![d] = NoObject]
<1>m. /\ mid \in [Inner -> InnerRecord] /\ mid[d] = NoObject
      /\ \A k \in Inner : k # d => mid[k] = inners[k]
  BY <1>ty
<1>n. inners' = [mid EXCEPT ![p].phase = ph]
  BY <1>b
<1> HIDE DEF mid
<1>d. /\ inners'[d] = NoObject /\ inners'[p].phase = ph /\ inners'[p].refs = inners[p].refs
      /\ inners'[p].block = inners[p].block /\ inners'[p].hash = inners[p].hash
      /\ inners'[p].primary = inners[p].primary /\ inners'[p].keep = inners[p].keep
      /\ \A k \in Inner : k # d /\ k # p => inners'[k] = inners[k]
      /\ \A k \in Inner : k # d => inners'[k].keep = inners[k].keep
  <2> QED
    BY <1>a, <1>m, <1>n, ZenonT(30)
<1>e. inners' \in [Inner -> InnerRecord]
  <2> QED
    BY <1>a, <1>c, <1>m, <1>n
<1>s. /\ \A k \in Inner : k # d => /\ inners'[k].block = inners[k].block /\ inners'[k].hash = inners[k].hash
                                    /\ inners'[k].primary = inners[k].primary /\ inners'[k].keep = inners[k].keep
      /\ \A k \in Inner : inners'[k].phase = "live" => k # d /\ inners[k].phase = "live"
      /\ \A k \in Inner : inners[k].phase = "live" /\ k # d /\ k # p => inners'[k].phase = "live"
  <2> SUFFICES ASSUME NEW k \in Inner
               PROVE  /\ k # d => /\ inners'[k].block = inners[k].block /\ inners'[k].hash = inners[k].hash
                                  /\ inners'[k].primary = inners[k].primary /\ inners'[k].keep = inners[k].keep
                      /\ inners'[k].phase = "live" => k # d /\ inners[k].phase = "live"
                      /\ inners[k].phase = "live" /\ k # d /\ k # p => inners'[k].phase = "live"
    OBVIOUS
  <2>1. CASE k = d
    BY <1>d, <2>1
  <2>2. CASE k = p
    BY <1>a, <1>d, <2>2
  <2>3. CASE k # d /\ k # p
    BY <1>d, <2>3
  <2> QED
    BY <2>1, <2>2, <2>3
<1>1. TypeOK'
  BY <1>ty, <1>b, <1>e
<1>2. PoolsAgree'
  BY <1>pa, <1>b
<1>3. OneCanonicalBlock'
  BY <1>ca, <1>b
<1>4. HeldSlotsBelong'
  <2>1. slots' = slots
    BY <1>b
  <2>2. ASSUME NEW k \in Inner, inners'[k].phase = "live"
        PROVE  /\ inners'[k].block = inners[k].block /\ inners'[k].hash = inners[k].hash
               /\ inners'[k].primary = inners[k].primary /\ inners[k].phase = "live"
    BY <1>s, <2>2
  <2> QED
    BY <1>hb, <2>1, <2>2
<1>5. DuplicatePinsPrimary'
  <2>1. ASSUME NEW k \in Inner, inners'[k].keep # NoInner
        PROVE  LET x == inners'[k].keep
               IN  /\ x \in Inner /\ inners'[x].phase = "live" /\ inners'[x].primary
                   /\ inners'[x].hash = inners'[k].hash
                   /\ activeByHash'[inners'[k].hash] = inners'[x].block
    <3>1. k # d /\ inners'[k].keep = inners[k].keep /\ inners'[k].hash = inners[k].hash
      BY <1>d, <1>s, <2>1
    <3>2. PICK x : x = inners[k].keep
      OBVIOUS
    <3>3. /\ x \in Inner /\ inners[x].phase = "live" /\ inners[x].primary
          /\ inners[x].hash = inners[k].hash /\ activeByHash[inners[k].hash] = inners[x].block
      BY <1>ty, <1>dp, <2>1, <3>1, <3>2
    <3>4. x # d
      BY <1>a, <3>3
    <3>5. x = p => ph = "live"
      BY <1>c, <3>1, <3>2
    <3>6. inners'[x].phase = "live"
      BY <1>d, <3>3, <3>4, <3>5
    <3>7. /\ inners'[x].primary = inners[x].primary /\ inners'[x].hash = inners[x].hash
          /\ inners'[x].block = inners[x].block
      BY <1>s, <3>3, <3>4
    <3>8. activeByHash' = activeByHash
      BY <1>b
    <3> QED
      BY <3>1, <3>2, <3>3, <3>6, <3>7, <3>8
  <2> QED
    BY <2>1
<1>6. OptOutNeverCached'
  BY <1>oo, <1>b
<1>7. SlotsNameTheirInner'
  BY <1>ty, <1>sn, <1>a, <1>b, <1>c, <1>d
<1>8. InnerShape'
  <2> SUFFICES ASSUME NEW k \in Inner PROVE InnerShape!(k)'
    OBVIOUS
  <2>1. CASE k = d
    BY <1>is, <1>a, <1>b, <1>d, <2>1
  <2>2. CASE k = p
    BY <1>ty, <1>is, <1>a, <1>b, <1>c, <1>d, <2>2
  <2>3. CASE k # d /\ k # p
    <3>1. inners'[k] = inners[k] /\ registering' = registering /\ InnerShape!(k)
      BY <1>is, <1>b, <1>d, <2>3
    <3> QED
      BY <3>1
  <2> QED
    BY <2>1, <2>2, <2>3
<1>9. LiveIsHeld'
  <2> SUFFICES ASSUME NEW k \in Inner PROVE LiveIsHeld!(k)'
    OBVIOUS
  <2>1. CASE k = d
    BY <1>d, <2>1
  <2>2. CASE k = p
    <3>1. inners'[p].phase = "live" => inners[p].refs > 0 \/ \E j \in Inner \ {d} : inners[j].keep = p
      BY <1>c, <1>d
    <3>2. \A j \in Inner \ {d} : inners'[j].keep = inners[j].keep
      BY <1>d
    <3>3. inners'[p].refs = inners[p].refs
      BY <1>d
    <3> QED
      BY <2>2, <3>1, <3>2, <3>3
  <2>3. CASE k # d /\ k # p
    <3>1. inners'[k] = inners[k] /\ LiveIsHeld!(k)
      BY <1>lh, <1>d, <2>3
    <3>2. \A m \in Inner : inners[m].keep = k => inners'[m].keep = k
      BY <1>d, <2>3, <1>k
    <3> QED
      BY <3>1, <3>2
  <2> QED
    BY <2>1, <2>2, <2>3
<1> QED
  BY <1>1, <1>2, <1>3, <1>4, <1>5, <1>6, <1>7, <1>8, <1>9 DEF IInv
-----------------------------------------------------------------------------
(* The theorems. *)

\* A new store satisfies the invariant.
LEMMA InitInv == Init => IInv
<1> SUFFICES ASSUME Init PROVE IInv
  OBVIOUS
<1>1. TypeOK
  BY DEF Init
<1> QED
  BY <1>1 DEF Init, IInv

\* Every step of the store preserves the invariant.
LEMMA NextInv == IInv /\ [Next]_vars => IInv'
<1> SUFFICES ASSUME IInv, [Next]_vars PROVE IInv'
  OBVIOUS
<1>1. CASE UNCHANGED vars
  BY <1>1 DEF vars, IInv
<1>2. ASSUME NEW S \in SUBSET Block, Allocate(S) PROVE IInv'
  BY <1>2, AllocateInv
<1>3. CASE DrainInactive
  BY <1>3, DrainInactiveInv
<1>4. ASSUME NEW b \in Block,
             (\E h \in Hash : Stage(b, h)) \/ ResetComplete(b) \/ DropGuard(b) \/ RegisterReject(b)
      PROVE IInv'
  BY <1>4, StageInv, ResetCompleteInv, DropGuardInv, RegisterRejectInv
<1>5. ASSUME NEW b \in Block, NEW n \in Inner,
             \/ RegisterFresh(b, n) \/ RegisterDuplicate(b, n) \/ RegisterRejectIdle(b, n)
             \/ \E d \in Inner : RegisterDuplicateIdle(b, n, d)
      PROVE IInv'
  BY <1>5, RegisterFreshInv, RegisterDuplicateInv, RegisterRejectIdleInv, RegisterDuplicateIdleInv
<1>6. ASSUME NEW h \in Hash,
             MatchActive(h) \/ MarkAbsent(h) \/ \E n \in Inner : MatchIdle(h, n)
      PROVE IInv'
  BY <1>6, MatchActiveInv, MarkAbsentInv, MatchIdleInv
<1>7. ASSUME NEW i \in Inner,
             \/ MarkPresent(i) \/ CloneHandle(i) \/ DropHandle(i) \/ ReleasePrimary(i)
             \/ ReleaseDuplicate(i) \/ DropKeepalive(i)
             \/ \E v \in BOOLEAN : SetEvictOnReset(i, v) \/ SetPrimaryResetOnRelease(i, v)
      PROVE IInv'
  BY <1>7, MarkPresentInv, CloneHandleInv, DropHandleInv, ReleasePrimaryInv,
     ReleaseDuplicateInv, DropKeepaliveInv, SetEvictOnResetInv, SetPrimaryResetInv
<1> QED
  BY <1>1, <1>2, <1>3, <1>4, <1>5, <1>6, <1>7 DEF Next

\* The inductive invariant holds of every store: any number of blocks, hashes
\* and handles, either duplication policy.
THEOREM StoreInvariant == Spec => []IInv
  BY InitInv, NextInv, PTL DEF Spec


\* The properties of the runs, for every instance.
THEOREM Safety ==
    Spec => [](TypeOK /\ PoolsAgree /\ OneCanonicalBlock /\ HeldSlotsBelong
                 /\ DuplicatePinsPrimary /\ OptOutNeverCached)
<1>1. IInv => TypeOK /\ PoolsAgree /\ OneCanonicalBlock /\ HeldSlotsBelong
                 /\ DuplicatePinsPrimary /\ OptOutNeverCached
  BY DEF IInv
<1> QED
  BY <1>1, StoreInvariant, PTL

\* Every slot, index and handle has its type: no reference count goes below zero,
\* however drops, upgrades and resurrections interleave.
THEOREM StoreTypes == Spec => []TypeOK
  BY Safety, PTL

\* A hash is never in both indexes at once: acquire_for_hash_locked and the
\* registrations never leave two canonical blocks for it.
THEOREM CanonicalBlockUnique == Spec => []OneCanonicalBlock
  BY Safety, PTL

\* While a strong reference to an inner exists its slot is registered for it, so
\* another inner's late release_primary never takes the slot away.
THEOREM SlotsBelongToHolders == Spec => []HeldSlotsBelong
  BY Safety, PTL

\* The primary a duplicate keeps alive stays active until the duplicate's
\* keepalive field is dropped.
THEOREM KeepaliveHolds == Spec => []DuplicatePinsPrimary
  BY Safety, PTL

\* A block whose holder asked for reset on release never reaches the inactive
\* pool, whichever of the two release paths runs.
THEOREM ResetOnReleaseHonoured == Spec => []OptOutNeverCached
  BY Safety, PTL

Stable(i) ==
    (Live(i) /\ inners'[i].phase \in {"live", "dropping"}) =>
       /\ inners'[i].block = inners[i].block
       /\ slots'[inners[i].block] = slots[inners[i].block]

\* The block a resurrection finds is registered under the hash it looked up,
\* and no live inner owns it.
LEMMA ResurrectsIdle ==
    ASSUME IInv, NEW h \in Hash, NEW n \in Inner, Resurrect(h, n)
    PROVE  /\ IdleBlock(h) \in Block /\ inners[n].phase # "live"
           /\ slots[IdleBlock(h)].state \in {"Primary", "Inactive"}
           /\ \A k \in Inner : inners[k].phase = "live" => inners[k].block # IdleBlock(h)
<1>1. TypeOK /\ PoolsAgree
  BY DEF IInv
<1>2. HeldSlotsBelong
  BY DEF IInv
<1>3. PICK q : q = IdleBlock(h)
  OBVIOUS
<1>4. q \in Block /\ slots[q].hash = h /\ slots[q].state \in {"Primary", "Inactive"}
  BY <1>1, <1>3 DEF Resurrect, Registered, IdleBlock
<1>5. slots[q].state = "Primary" => activeByHash[h] = q
  BY <1>1, <1>4
<1>6. ASSUME NEW k \in Inner, inners[k].phase = "live", inners[k].block = q
      PROVE  FALSE
  <2>1. slots[q].inner = k /\ slots[q].state \in {"Primary", "Duplicate"}
    BY <1>2, <1>6
  <2>2. activeByHash[h] = q
    BY <1>4, <1>5, <2>1
  <2> QED
    BY <1>4, <1>6, <2>1, <2>2 DEF Resurrect, ActiveHit
<1>7. inners[n].phase # "live"
  BY DEF Resurrect, Vacant
<1> QED
  BY <1>3, <1>4, <1>6, <1>7

\* No step changes the slot of an inner that stays held.
LEMMA NextStable == IInv /\ [Next]_vars => \A i \in Inner : Stable(i)
<1> SUFFICES ASSUME IInv, [Next]_vars, NEW j \in Inner PROVE Stable(j)
  OBVIOUS
<1>ty. TypeOK BY DEF IInv
<1>pa. PoolsAgree BY DEF IInv
<1>ca. OneCanonicalBlock BY DEF IInv
<1>hb. HeldSlotsBelong BY DEF IInv
<1>dp. DuplicatePinsPrimary BY DEF IInv
<1>oo. OptOutNeverCached BY DEF IInv
<1>sn. SlotsNameTheirInner BY DEF IInv
<1>is. InnerShape BY DEF IInv
<1>lh. LiveIsHeld BY DEF IInv
<1> USE DEF Stable
<1>1. CASE UNCHANGED vars
  BY <1>1 DEF vars
<1>2. ASSUME NEW S \in SUBSET Block, Allocate(S) PROVE Stable(j)
  BY <1>pa, <1>hb, <1>is, <1>2, SMTT(30) DEF Allocate, ToMutable, FreeBlocks, IndexedBlocks
<1>3. CASE DrainInactive
  BY <1>pa, <1>hb, <1>is, <1>3 DEF DrainInactive, ToMutable, IndexedBlocks
<1>4. ASSUME NEW b \in Block, NEW h \in Hash, Stage(b, h) PROVE Stable(j)
  BY <1>hb, <1>4 DEF Stage
<1>5. ASSUME NEW b \in Block, ResetComplete(b) \/ DropGuard(b) \/ RegisterReject(b)
      PROVE Stable(j)
  <2>1. CASE ResetComplete(b)
    BY <1>hb, <2>1 DEF ResetComplete
  <2>2. CASE DropGuard(b)
    BY <1>hb, <2>2 DEF DropGuard
  <2>3. CASE RegisterReject(b)
    <3>0. PICK i : slots' = slots /\ inners' = [inners EXCEPT ![i].refs = @ + 1]
      BY <2>3 DEF RegisterReject
    <3>1. slots' = slots /\ inners'[j].block = inners[j].block
      BY <1>ty, <3>0
    <3> QED
      BY <3>1, SMTT(30)
  <2> QED
    BY <1>5, <2>1, <2>2, <2>3
<1>6. ASSUME NEW b \in Block, NEW n \in Inner, RegisterFresh(b, n) PROVE Stable(j)
  BY <1>hb, <1>6 DEF RegisterFresh, Registrable, Vacant
<1>7. ASSUME NEW b \in Block, NEW n \in Inner, RegisterDuplicate(b, n) PROVE Stable(j)
  BY <1>hb, <1>7, SMTT(30) DEF RegisterDuplicate, Registrable, Vacant
<1>8. ASSUME NEW b \in Block, NEW n \in Inner, RegisterRejectIdle(b, n) PROVE Stable(j)
  <2> SUFFICES ASSUME inners[j].phase = "live" PROVE Stable(j)
    BY DEF Stable
  <2>1. PICK h : h = slots[b].hash
    OBVIOUS
  <2>2. /\ h \in Hash /\ Resurrect(h, n)
    BY <1>sn, <1>8, <2>1 DEF RegisterRejectIdle, Registrable
  <2>3. PICK q : q = IdleBlock(h)
    OBVIOUS
  <2>4. q \in Block /\ inners[j].block # q /\ j # n
    BY <2>2, <2>3, ResurrectsIdle
  <2>5. slots' = [slots EXCEPT ![q] = Primary(h, n)] /\ inners' = [inners EXCEPT ![n] = NewPrimary(q, h, 1)]
    BY <1>8, <2>1, <2>3 DEF RegisterRejectIdle
  <2>6. inners'[j] = inners[j]
    BY <1>ty, <2>4, <2>5
  <2>7. slots'[inners[j].block] = slots[inners[j].block]
    BY <1>ty, <1>is, <2>4, <2>5
  <2> QED
    BY <2>6, <2>7
<1>9. ASSUME NEW b \in Block, NEW n \in Inner, NEW d \in Inner, RegisterDuplicateIdle(b, n, d)
      PROVE Stable(j)
  <2> SUFFICES ASSUME Live(j) PROVE Stable(j)
    BY SMTT(30) DEF Stable
  <2> DEFINE q == IdleBlock(slots[b].hash)
  <2>1. q \in Block /\ inners[j].block # q /\ inners[j].block # b /\ j # n /\ j # d
    <3>1. /\ slots[b].state = "Staged" /\ Resurrect(slots[b].hash, n) /\ inners[d].phase = "unused"
      BY <1>9 DEF RegisterDuplicateIdle, Registrable, Vacant
    <3>2. slots[b].hash \in Hash
      BY <1>sn, <3>1
    <3>3. q \in Block /\ inners[j].block # q /\ j # n
      BY <3>1, <3>2, ResurrectsIdle
    <3>4. inners[j].block # b
      BY <1>hb, <3>1
    <3> QED
      BY <3>1, <3>3, <3>4
  <2> HIDE DEF q
  <2>2. inners'[j] = inners[j] /\ \A c \in Block : c # b /\ c # q => slots'[c] = slots[c]
    BY <1>ty, <1>9, <2>1 DEF RegisterDuplicateIdle, q
  <2> QED
    BY <1>is, <2>1, <2>2
<1>10. ASSUME NEW h \in Hash, MatchActive(h) \/ MarkAbsent(h) PROVE Stable(j)
  <2>1. slots' = slots
    BY <1>10 DEF MatchActive, MarkAbsent
  <2>2. inners'[j].block = inners[j].block
    BY <1>ty, <1>10 DEF MatchActive, MarkAbsent, ActiveHit
  <2> QED
    BY <2>1, <2>2
<1>11. ASSUME NEW h \in Hash, NEW n \in Inner, MatchIdle(h, n) PROVE Stable(j)
  BY <1>pa, <1>hb, <1>is, <1>11 DEF MatchIdle, Resurrect, Registered, ActiveHit, IdleBlock, Vacant
<1>12. ASSUME NEW i \in Inner,
              \/ MarkPresent(i) \/ CloneHandle(i) \/ DropHandle(i) \/ DropKeepalive(i)
              \/ \E v \in BOOLEAN : SetEvictOnReset(i, v) \/ SetPrimaryResetOnRelease(i, v)
       PROVE Stable(j)
  <2>1. slots' = slots
    BY <1>12 DEF MarkPresent, CloneHandle, DropHandle, DropKeepalive, SetEvictOnReset,
       SetPrimaryResetOnRelease
  <2>2. ASSUME NEW v \in BOOLEAN,
               MarkPresent(i) \/ SetEvictOnReset(i, v) \/ SetPrimaryResetOnRelease(i, v)
        PROVE Stable(j)
    BY <2>1, <2>2 DEF MarkPresent, SetEvictOnReset, SetPrimaryResetOnRelease
  <2>3. CASE CloneHandle(i)
    BY <2>1, <2>3 DEF CloneHandle
  <2>4. CASE DropHandle(i)
    <3>1. inners'[j].block = inners[j].block
      BY <1>ty, <2>4 DEF DropHandle
    <3> QED
      BY <2>1, <3>1
  <2>5. CASE DropKeepalive(i)
    <3>1. j # i => inners'[j].block = inners[j].block
      BY <1>ty, <2>5 DEF DropKeepalive
    <3>2. ~Live(i)
      BY <2>5 DEF DropKeepalive
    <3> QED
      BY <2>1, <3>1, <3>2
  <2> QED
    BY <1>12, <2>2, <2>3, <2>4, <2>5
<1>13. ASSUME NEW i \in Inner, ReleasePrimary(i) PROVE Stable(j)
  BY <1>ty, <1>hb, <1>is, <1>13 DEF ReleasePrimary
<1>14. ASSUME NEW i \in Inner, ReleaseDuplicate(i) PROVE Stable(j)
  BY <1>ty, <1>hb, <1>is, <1>14 DEF ReleaseDuplicate
<1> HIDE DEF Stable
<1> QED
  BY <1>1, <1>2, <1>3, <1>4, <1>5, <1>6, <1>7, <1>8, <1>9, <1>10, <1>11, <1>12, <1>13, <1>14
     DEF Next

\* A block is never taken from its holders (action property HeldBlockStable of
\* the runs), for every store.
THEOREM HeldBlocksNeverMove == Spec => HeldBlockStable
<1>1. IInv /\ [Next]_vars => \A i \in Inner : Stable(i)
  BY NextStable
<1> QED
  BY <1>1, StoreInvariant, PTL DEF Spec, HeldBlockStable, Stable
-----------------------------------------------------------------------------
(* The store implements PrefixCache.  A step of the store is a step of the *)
(* cache or changes neither use nor key.                                   *)

CacheStep == [Cache!Next]_(Cache!vars)

\* How use and key follow from the slots, in the form the provers need.
LEMMA UseFacts ==
    ASSUME TypeOK, NEW b \in Block
    PROVE  /\ slots[b].state = "Reset" => Use(b) = "free"
           /\ slots[b].state \in {"Mutable", "Staged"} => Use(b) = "exclusive"
           /\ slots[b].state = "Primary" => Use(b) = "shared"
           /\ slots[b].state = "Duplicate" => Use(b) = "copy"
           /\ slots[b].state = "Inactive" => Use(b) = "cached"
           /\ slots[b].state = "Staged" => Key(b) = NoHash
           /\ slots[b].state # "Staged" => Key(b) = slots[b].hash
  BY DEF Use, Key

\* The same facts in the next state.
LEMMA UseFactsPrime ==
    ASSUME TypeOK', NEW b \in Block
    PROVE  /\ slots'[b].state = "Reset" => Use(b)' = "free"
           /\ slots'[b].state \in {"Mutable", "Staged"} => Use(b)' = "exclusive"
           /\ slots'[b].state = "Primary" => Use(b)' = "shared"
           /\ slots'[b].state = "Duplicate" => Use(b)' = "copy"
           /\ slots'[b].state = "Inactive" => Use(b)' = "cached"
           /\ slots'[b].state = "Staged" => Key(b)' = NoHash
           /\ slots'[b].state # "Staged" => Key(b)' = slots'[b].hash
  BY DEF Use, Key

\* A slot that does not change keeps its use and key.
LEMMA SameSlot ==
    ASSUME NEW b \in Block, slots'[b] = slots[b]
    PROVE  Use(b)' = Use(b) /\ Key(b)' = Key(b)
  BY DEF Use, Key

\* A new store is a new prefix cache.
LEMMA InitCache == Init => Cache!Init
<1> SUFFICES ASSUME Init PROVE Cache!Init
  OBVIOUS
<1>1. TypeOK /\ \A b \in Block : slots[b] = Reset
  BY DEF Init
<1>2. \A b \in Block : Use(b) = "free" /\ Key(b) = NoHash
  BY <1>1, UseFacts
<1> QED
  BY <1>2 DEF Cache!Init

\* A step that leaves the slots alone is invisible to the prefix cache.
LEMMA StutterCache ==
    ASSUME \A b \in Block : Use(b)' = Use(b) /\ Key(b)' = Key(b)
    PROVE  CacheStep
  BY DEF CacheStep, Cache!vars

\* allocate_atomic and the drain take free and cached blocks only.
LEMMA AllocateCache ==
    ASSUME IInv, TypeOK', NEW S \in SUBSET Block,
           S \subseteq FreeBlocks \cup IndexedBlocks, ToMutable(S)
    PROVE  CacheStep
<1>ty. TypeOK BY DEF IInv
<1>pa. PoolsAgree BY DEF IInv
<1>1. \A b \in S : Use(b) \in {"free", "cached"}
  <2> SUFFICES ASSUME NEW b \in S PROVE Use(b) \in {"free", "cached"}
    OBVIOUS
  <2>1. b \in FreeBlocks => slots[b].state = "Reset"
    BY <1>pa DEF FreeBlocks
  <2>2. b \in IndexedBlocks => slots[b].state = "Inactive"
    BY <1>pa DEF IndexedBlocks
  <2> QED
    BY <1>ty, <2>1, <2>2, UseFacts
<1>2. \A b \in S : Use(b)' = "exclusive" /\ Key(b)' = NoHash
  <2> SUFFICES ASSUME NEW b \in S PROVE Use(b)' = "exclusive" /\ Key(b)' = NoHash
    OBVIOUS
  <2>1. b \in Block /\ slots'[b] = Mutable
    BY DEF ToMutable
  <2> QED
    BY <2>1, UseFactsPrime
<1>3. \A b \in Block \ S : Use(b)' = Use(b) /\ Key(b)' = Key(b)
  BY SameSlot DEF ToMutable
<1> HIDE DEF TypeOK
<1>4. Cache!Take(S)
  BY <1>1, <1>2, <1>3 DEF Cache!Take
<1> QED
  BY <1>4 DEF CacheStep, Cache!Next

\* An exclusive block changes hands without becoming visible, or is returned.
LEMMA GuardCache ==
    ASSUME IInv, TypeOK', NEW b \in Block,
           (\E h \in Hash : Stage(b, h)) \/ ResetComplete(b) \/ DropGuard(b)
    PROVE  CacheStep
<1>ty. TypeOK BY DEF IInv
<1>sn. SlotsNameTheirInner BY DEF IInv
<1>1. /\ slots[b].state \in {"Mutable", "Staged"}
      /\ slots'[b].state \in {"Mutable", "Staged", "Reset"}
      /\ slots'[b].state \in {"Mutable", "Reset"} => slots'[b].hash = NoHash
      /\ slots[b].state = "Mutable" => slots[b].hash = NoHash
      /\ \A c \in Block : c # b => slots'[c] = slots[c]
  BY <1>sn DEF Stage, ResetComplete, DropGuard
<1>2. Use(b) = "exclusive" /\ Key(b) = NoHash
  BY <1>ty, <1>1, UseFacts
<1>3. Use(b)' \in {"exclusive", "free"} /\ Key(b)' = NoHash
  BY <1>1, UseFactsPrime
<1>4. \A c \in Block : c # b => Use(c)' = Use(c) /\ Key(c)' = Key(c)
  BY <1>1, SameSlot
<1>5. CASE Use(b)' = "exclusive"
  BY <1>2, <1>3, <1>4, <1>5, StutterCache
<1>6. CASE Use(b)' = "free"
  BY <1>2, <1>3, <1>4, <1>6, ZenonT(30) DEF CacheStep, Cache!Next, Cache!Return
<1> QED
  BY <1>3, <1>5, <1>6

\* A canonical block is shared afterwards, whether it was cached or not.
LEMMA HitCache ==
    ASSUME IInv, TypeOK', NEW b \in Block, NEW h \in Hash,
           slots[b].state \in {"Primary", "Inactive"}, slots[b].hash = h,
           slots'[b].state = "Primary", slots'[b].hash = h,
           \A c \in Block : c # b => slots'[c] = slots[c]
    PROVE  CacheStep
<1>1. TypeOK
  BY DEF IInv
<1>3. Use(b) \in {"shared", "cached"} /\ Key(b) = h
  BY <1>1, UseFacts
<1>4. Use(b)' = "shared" /\ Key(b)' = h
  BY UseFactsPrime
<1>5. \A c \in Block : c # b => Use(c)' = Use(c) /\ Key(c)' = Key(c)
  BY SameSlot
<1>6. CASE Use(b) = "shared"
  BY <1>3, <1>4, <1>5, <1>6, StutterCache
<1>7. CASE Use(b) = "cached"
  <2> HIDE DEF TypeOK
  <2>1. Cache!Hit(b)
    BY <1>3, <1>4, <1>5, <1>7 DEF Cache!Hit
  <2> QED
    BY <2>1 DEF CacheStep, Cache!Next
<1> QED
  BY <1>3, <1>6, <1>7

\* A lookup that resurrects an idle block is a hit of the prefix cache.
LEMMA ResurrectCache ==
    ASSUME IInv, TypeOK', NEW h \in Hash, NEW n \in Inner, Resurrect(h, n),
           slots' = [slots EXCEPT ![IdleBlock(h)] = Primary(h, n)]
    PROVE  CacheStep
<1> DEFINE b == IdleBlock(h)
<1>1. /\ b \in Block /\ slots[b].state \in {"Primary", "Inactive"} /\ slots[b].hash = h
  BY DEF Resurrect, Registered, ActiveHit, IdleBlock, IInv
<1>2. slots'[b] = Primary(h, n) /\ \A c \in Block : c # b => slots'[c] = slots[c]
  BY <1>1 DEF IInv
<1> HIDE DEF b
<1> QED
  BY <1>1, <1>2, HitCache

\* A staged block that becomes primary for an unregistered hash is a publication.
LEMMA PublishCache ==
    ASSUME IInv, TypeOK', NEW b \in Block, NEW h \in Hash, slots[b].state = "Staged",
           slots'[b].state = "Primary", slots'[b].hash = h,
           \A c \in Block : c # b => slots'[c] = slots[c],
           \A c \in Block : slots[c].state \in {"Primary", "Inactive"} => slots[c].hash # h
    PROVE  CacheStep
<1>1. TypeOK
  BY DEF IInv
<1>3. Use(b) = "exclusive" /\ Use(b)' = "shared" /\ Key(b)' = h
  BY <1>1, UseFacts, UseFactsPrime
<1>4. \A c \in Block : c # b => Use(c)' = Use(c) /\ Key(c)' = Key(c)
  BY SameSlot
<1>5. \A c \in Block : Use(c) \in {"shared", "cached"} => Key(c) # h
  BY <1>1 DEF Use, Key
<1>6. Cache!Canonical(h) = {}
  BY <1>5 DEF Cache!Canonical
<1> HIDE DEF TypeOK
<1>7. Cache!Publish(b, h)
  BY <1>3, <1>4, <1>6 DEF Cache!Publish
<1> QED
  BY <1>7 DEF CacheStep, Cache!Next

\* The first registration of a hash is a publication: no canonical block exists.
LEMMA RegisterFreshCache ==
    ASSUME IInv, TypeOK', NEW b \in Block, NEW n \in Inner, RegisterFresh(b, n)
    PROVE  CacheStep
<1> DEFINE h == slots[b].hash
<1>1. /\ slots[b].state = "Staged" /\ activeByHash[h] = NoBlock /\ inactive[h] = NoBlock
      /\ slots' = [slots EXCEPT ![b] = Primary(h, n)]
  BY DEF RegisterFresh, Registrable, Registered
<1>2. h \in Hash
  BY <1>1 DEF IInv
<1>3. \A c \in Block : slots[c].state \in {"Primary", "Inactive"} => slots[c].hash # h
  BY <1>1, <1>2 DEF IInv
<1>4. slots'[b] = Primary(h, n) /\ \A c \in Block : c # b => slots'[c] = slots[c]
  BY <1>1 DEF IInv
<1> HIDE DEF h
<1> QED
  BY <1>1, <1>2, <1>3, <1>4, PublishCache

\* A staged block that becomes a duplicate next to a canonical block is a copy.
LEMMA CopyCache ==
    ASSUME IInv, TypeOK', NEW b \in Block, NEW q \in Block, b # q, NEW h \in Hash,
           slots[b].state = "Staged", slots[q].state \in {"Primary", "Inactive"},
           slots[q].hash = h, slots'[b].state = "Duplicate", slots'[b].hash = h,
           slots'[q].state = "Primary", slots'[q].hash = h,
           \A c \in Block : c # b /\ c # q => slots'[c] = slots[c]
    PROVE  CacheStep
<1>0. TypeOK
  BY DEF IInv
<1>1. /\ Use(b) = "exclusive" /\ Use(b)' = "copy" /\ Key(b)' = h
      /\ Use(q) \in {"shared", "cached"} /\ Key(q) = h /\ Use(q)' = "shared" /\ Key(q)' = h
  BY <1>0, UseFacts, UseFactsPrime
<1>2. \A c \in Block : c # b /\ c # q => Use(c)' = Use(c) /\ Key(c)' = Key(c)
  BY SameSlot
<1>3. q \in Cache!Canonical(h)
  BY <1>1 DEF Cache!Canonical
<1> QED
  BY <1>1, <1>2, <1>3 DEF CacheStep, Cache!Next, Cache!PublishCopy

\* A duplicate of a live primary is a published copy.
LEMMA RegisterDuplicateCache ==
    ASSUME IInv, TypeOK', NEW b \in Block, NEW d \in Inner, RegisterDuplicate(b, d)
    PROVE  CacheStep
<1> DEFINE h == slots[b].hash
           q == activeByHash[h]
<1>1. /\ slots[b].state = "Staged" /\ q # NoBlock
      /\ slots' = [slots EXCEPT ![b] = Duplicate(h, d)]
  BY DEF RegisterDuplicate, Registrable, ActiveHit
<1>2. h \in Hash /\ q \in Block
  <2>1. SlotsNameTheirInner!(b) /\ activeByHash \in [Hash -> Block \cup {NoBlock}]
    BY DEF IInv
  <2> QED
    BY <1>1, <2>1
<1>3. q # b /\ slots[q].state = "Primary" /\ slots[q].hash = h
  BY <1>1, <1>2 DEF IInv
<1>4. slots'[b] = Duplicate(h, d) /\ \A c \in Block : c # b => slots'[c] = slots[c]
  BY <1>1 DEF IInv
<1> HIDE DEF h, q
<1> QED
  BY <1>1, <1>2, <1>3, <1>4, CopyCache

\* A duplicate of an idle primary is a published copy that shares the cached block.
LEMMA RegisterDuplicateIdleCache ==
    ASSUME IInv, TypeOK', NEW b \in Block, NEW n \in Inner, NEW d \in Inner,
           RegisterDuplicateIdle(b, n, d)
    PROVE  CacheStep
<1> DEFINE h == slots[b].hash
           q == IdleBlock(h)
<1>1. /\ slots[b].state = "Staged" /\ Resurrect(h, n)
      /\ slots' = [slots EXCEPT ![q] = Primary(h, n), ![b] = Duplicate(h, d)]
  BY DEF RegisterDuplicateIdle, Registrable
<1>2. h \in Hash
  BY <1>1 DEF IInv
<1>3. q \in Block /\ q # b /\ slots[q].hash = h /\ slots[q].state \in {"Primary", "Inactive"}
  <2>1. PoolsAgree /\ TypeOK
    BY DEF IInv
  <2> HIDE DEF h
  <2> QED
    BY <1>1, <1>2, <2>1 DEF Resurrect, Registered, ActiveHit, IdleBlock
<1> HIDE DEF h, q
<1>4. /\ slots'[b] = Duplicate(h, d) /\ slots'[q] = Primary(h, n)
      /\ \A c \in Block : c # b /\ c # q => slots'[c] = slots[c]
  BY <1>1, <1>3 DEF IInv
<1>5. /\ slots'[b].state = "Duplicate" /\ slots'[b].hash = h
      /\ slots'[q].state = "Primary" /\ slots'[q].hash = h
  BY <1>4
<1> HIDE DEF TypeOK
<1> QED
  BY <1>1, <1>2, <1>3, <1>4, <1>5, CopyCache

\* A canonical block without copies becomes cached or free.
LEMMA GiveUpCache ==
    ASSUME IInv, TypeOK', NEW b \in Block, NEW h \in Hash,
           slots[b].state = "Primary", slots[b].hash = h,
           slots'[b] = Reset \/ slots'[b] = Inactive(h),
           \A c \in Block : c # b => slots'[c] = slots[c],
           \A c \in Block : ~(slots[c].state = "Duplicate" /\ slots[c].hash = h)
    PROVE  CacheStep
<1>1. TypeOK
  BY DEF IInv
<1>5. Use(b) = "shared" /\ Key(b) = h
  BY <1>1, UseFacts
<1>6. (Use(b)' = "free" /\ Key(b)' = NoHash) \/ (Use(b)' = "cached" /\ Key(b)' = h)
  BY UseFactsPrime
<1>7. \A c \in Block : c # b => Use(c)' = Use(c) /\ Key(c)' = Key(c)
  BY SameSlot
<1>8. \A c \in Block : ~(Use(c) = "copy" /\ Key(c) = h)
  BY <1>1 DEF Use, Key
<1>9. Cache!Copies(h) = {}
  BY <1>8 DEF Cache!Copies
<1> HIDE DEF TypeOK
<1>10. ASSUME Use(b)' = "free", Key(b)' = NoHash PROVE Cache!GiveUp(b)
  BY <1>5, <1>7, <1>9, <1>10 DEF Cache!GiveUp
<1>11. ASSUME Use(b)' = "cached", Key(b)' = h PROVE Cache!GiveUp(b)
  BY <1>5, <1>7, <1>9, <1>11 DEF Cache!GiveUp
<1>12. Cache!GiveUp(b)
  BY <1>6, <1>10, <1>11
<1> QED
  BY <1>12 DEF CacheStep, Cache!Next

\* The slot of a dying primary goes only when no duplicate leans on it.
LEMMA ReleasePrimaryCache ==
    ASSUME IInv, TypeOK', NEW i \in Inner, ReleasePrimary(i)
    PROVE  CacheStep
<1> DEFINE b == inners[i].block
           h == inners[i].hash
<1>1. CASE slots' = slots
  BY <1>1, SameSlot, StutterCache
<1>ty. TypeOK BY DEF IInv
<1>pa. PoolsAgree BY DEF IInv
<1>dp. DuplicatePinsPrimary BY DEF IInv
<1>hb. HeldSlotsBelong BY DEF IInv
<1>sn. SlotsNameTheirInner BY DEF IInv
<1>is. InnerShape BY DEF IInv
<1>2. CASE slots' # slots
  <2>1. /\ b \in Block /\ h \in Hash /\ slots[b].state = "Primary" /\ slots[b].inner = i
        /\ slots[b].hash = h /\ inners[i].phase = "dropping" /\ activeByHash[h] = b
    <3>1. /\ slots[b].state = "Primary" /\ slots[b].inner = i /\ inners[i].phase = "dropping"
      BY <1>2 DEF ReleasePrimary
    <3>2. b \in Block /\ h \in Hash
      BY <1>is, <3>1
    <3>3. slots[b].hash = h
      BY <1>sn, <3>1, <3>2
    <3> QED
      BY <1>pa, <3>1, <3>2, <3>3
  <2>2. slots'[b] = Reset \/ slots'[b] = Inactive(h)
    BY <1>ty, <2>1 DEF ReleasePrimary
  <2>3. \A c \in Block : c # b => slots'[c] = slots[c]
    BY <1>ty, <2>1 DEF ReleasePrimary
  <2>4. \A c \in Block : ~(slots[c].state = "Duplicate" /\ slots[c].hash = h)
    <3> SUFFICES ASSUME NEW c \in Block, slots[c].state = "Duplicate", slots[c].hash = h PROVE FALSE
      OBVIOUS
    <3>1. PICK k \in Inner : inners[k].keep # NoInner /\ inners[k].hash = h
      BY <1>sn, <1>is
    <3>2. PICK p \in Inner : inners[p].phase = "live" /\ activeByHash[h] = inners[p].block
      BY <1>dp, <3>1
    <3>3. slots[b].inner = p
      BY <1>hb, <2>1, <3>2
    <3> QED
      BY <2>1, <3>2, <3>3
  <2> HIDE DEF b, h
  <2> QED
    BY <2>1, <2>2, <2>3, <2>4, GiveUpCache
<1> QED
  BY <1>1, <1>2

\* A duplicate slot that is reset is a copy given up.
LEMMA GiveUpCopyCache ==
    ASSUME IInv, TypeOK', NEW b \in Block, slots[b].state = "Duplicate", slots'[b] = Reset,
           \A c \in Block : c # b => slots'[c] = slots[c]
    PROVE  CacheStep
<1>1. TypeOK
  BY DEF IInv
<1>2. Use(b) = "copy" /\ Use(b)' = "free" /\ Key(b)' = NoHash
  BY <1>1, UseFacts, UseFactsPrime
<1>3. \A c \in Block : c # b => Use(c)' = Use(c) /\ Key(c)' = Key(c)
  BY SameSlot
<1> HIDE DEF TypeOK
<1>4. Cache!GiveUpCopy(b)
  BY <1>2, <1>3 DEF Cache!GiveUpCopy
<1> QED
  BY <1>4 DEF CacheStep, Cache!Next

\* release_duplicate gives up a copy or, past its identity check, does nothing.
LEMMA ReleaseDuplicateCache ==
    ASSUME IInv, TypeOK', NEW i \in Inner, ReleaseDuplicate(i)
    PROVE  CacheStep
<1> DEFINE b == inners[i].block
<1>1. CASE slots' = slots
  BY <1>1, SameSlot, StutterCache
<1>2. CASE slots' # slots
  <2>0. TypeOK /\ SlotsNameTheirInner /\ InnerShape
    BY DEF IInv
  <2>1. /\ b \in Block /\ slots[b].state = "Duplicate" /\ slots'[b] = Reset
        /\ \A c \in Block : c # b => slots'[c] = slots[c]
    <3>1. /\ slots[b].state = "Duplicate" /\ slots' = [slots EXCEPT ![b] = Reset]
          /\ inners[i].phase = "dropping"
      BY <1>2 DEF ReleaseDuplicate
    <3>2. b \in Block
      BY <2>0, <3>1
    <3> HIDE DEF b
    <3> QED
      BY <2>0, <3>1, <3>2
  <2> HIDE DEF b
  <2> QED
    BY <2>1, GiveUpCopyCache
<1> QED
  BY <1>1, <1>2

\* Every step of the store is a step of the prefix cache or a stutter.
LEMMA NextCache == IInv /\ TypeOK' /\ [Next]_vars => CacheStep
<1> SUFFICES ASSUME IInv, TypeOK', [Next]_vars PROVE CacheStep
  OBVIOUS
<1>1. CASE slots' = slots
  BY <1>1, SameSlot, StutterCache
<1>2. ASSUME NEW S \in SUBSET Block, Allocate(S) PROVE CacheStep
  BY <1>2, AllocateCache DEF Allocate
<1>3. CASE DrainInactive
  <2>1. IndexedBlocks \in SUBSET Block
    BY DEF IndexedBlocks, IInv
  <2> QED
    BY <1>3, <2>1, AllocateCache DEF DrainInactive
<1>4. ASSUME NEW b \in Block,
             (\E h \in Hash : Stage(b, h)) \/ ResetComplete(b) \/ DropGuard(b)
      PROVE CacheStep
  BY <1>4, GuardCache
<1>5. ASSUME NEW b \in Block, NEW n \in Inner, RegisterFresh(b, n) PROVE CacheStep
  BY <1>5, RegisterFreshCache
<1>6. ASSUME NEW b \in Block, NEW n \in Inner, RegisterDuplicate(b, n) PROVE CacheStep
  BY <1>6, RegisterDuplicateCache
<1>7. ASSUME NEW b \in Block, NEW n \in Inner, RegisterRejectIdle(b, n) PROVE CacheStep
  <2>1. slots[b].state = "Staged"
    BY <1>7 DEF RegisterRejectIdle, Registrable
  <2>2. slots[b].hash \in Hash
    BY <2>1 DEF IInv
  <2> QED
    BY <1>7, <2>2, ResurrectCache DEF RegisterRejectIdle
<1>8. ASSUME NEW b \in Block, NEW n \in Inner, NEW d \in Inner, RegisterDuplicateIdle(b, n, d)
      PROVE CacheStep
  BY <1>8, RegisterDuplicateIdleCache
<1>9. ASSUME NEW h \in Hash, NEW n \in Inner, MatchIdle(h, n) PROVE CacheStep
  BY <1>9, ResurrectCache DEF MatchIdle
<1>10. ASSUME NEW i \in Inner, ReleasePrimary(i) PROVE CacheStep
  BY <1>10, ReleasePrimaryCache
<1>11. ASSUME NEW i \in Inner, ReleaseDuplicate(i) PROVE CacheStep
  BY <1>11, ReleaseDuplicateCache
<1>12. ASSUME NEW b \in Block, RegisterReject(b) PROVE slots' = slots
  BY <1>12, ZenonT(30) DEF RegisterReject
<1>13. ASSUME NEW h \in Hash, MatchActive(h) \/ MarkAbsent(h) PROVE slots' = slots
  BY <1>13 DEF MatchActive, MarkAbsent
<1>14. ASSUME NEW i \in Inner,
              \/ MarkPresent(i) \/ CloneHandle(i) \/ DropHandle(i) \/ DropKeepalive(i)
              \/ \E v \in BOOLEAN : SetEvictOnReset(i, v) \/ SetPrimaryResetOnRelease(i, v)
       PROVE slots' = slots
  BY <1>14 DEF MarkPresent, CloneHandle, DropHandle, DropKeepalive, SetEvictOnReset,
       SetPrimaryResetOnRelease
<1>15. CASE UNCHANGED vars
  BY <1>1, <1>15 DEF vars
<1> QED
  BY <1>1, <1>2, <1>3, <1>4, <1>5, <1>6, <1>7, <1>8, <1>9, <1>10, <1>11, <1>12, <1>13, <1>14,
     <1>15 DEF Next

\* The store with its locks, weak references, deferred drops and eager
\* resurrections implements the abstract prefix cache, for every instance.
THEOREM StoreImplementsCache == Spec => CacheSpec
<1>1. IInv /\ IInv' /\ [Next]_vars => [Cache!Next]_(Cache!vars)
  <2> HIDE DEF TypeOK
  <2> QED
    BY NextCache DEF CacheStep, IInv
<1> QED
  BY <1>1, InitCache, StoreInvariant, PTL DEF Spec, CacheSpec, Cache!Spec

-----------------------------------------------------------------------------
(* The registry's presence count.  A step moves at most one block and one  *)
(* call of a hash, so the tally is kept hash by hash.                      *)

HIDE DEF TypeOK, PoolsAgree, OneCanonicalBlock, HeldSlotsBelong, DuplicatePinsPrimary,
    OptOutNeverCached, SlotsNameTheirInner, InnerShape, LiveIsHeld, StillHeld, InnerRecord

\* The registrations of h whose mark_present is still to come.
Calls(h) == {i \in registering : inners[i].hash = h}

\* P markers for the blocks B, the A markers still to be withdrawn and the
\* calls C that have yet to add theirs.
Tally(P, A, B, C) ==
    /\ IsFiniteSet(B) /\ IsFiniteSet(C)
    /\ P = Cardinality(B) + A - Cardinality(C)
ShadowAt(h) == Tally(presence[h], absent[h], Bearing(h), Calls(h))
Shadow == \A h \in Hash : ShadowAt(h)

\* A slot that holds a registered block of h.
Bears(s, h) == s.state \in {"Primary", "Duplicate", "Inactive"} /\ s.hash = h

\* The tally after each of the moves a step can make.
LEMMA Tallies ==
    ASSUME NEW P \in Int, NEW A \in Nat, NEW B, NEW C, Tally(P, A, B, C)
    PROVE  /\ \A b, n : b \notin B /\ n \notin C => Tally(P, A, B \cup {b}, C \cup {n})
           /\ \A b \in B : Tally(P, A + 1, B \ {b}, C)
           /\ \A n \in C : Tally(P + 1, A, B, C \ {n})
           /\ Tally(P - 1, A - 1, B, C)
<1>1. /\ IsFiniteSet(B) /\ IsFiniteSet(C) /\ Cardinality(B) \in Nat /\ Cardinality(C) \in Nat
      /\ P = Cardinality(B) + A - Cardinality(C)
  BY FS_CardinalityType DEF Tally
<1>2. ASSUME NEW b, NEW n, b \notin B, n \notin C PROVE Tally(P, A, B \cup {b}, C \cup {n})
  <2>1. IsFiniteSet(B \cup {b}) /\ Cardinality(B \cup {b}) = Cardinality(B) + 1
    BY <1>1, <1>2, FS_AddElement
  <2>2. IsFiniteSet(C \cup {n}) /\ Cardinality(C \cup {n}) = Cardinality(C) + 1
    BY <1>1, <1>2, FS_AddElement
  <2> QED
    BY <1>1, <2>1, <2>2 DEF Tally
<1>3. ASSUME NEW b \in B PROVE Tally(P, A + 1, B \ {b}, C)
  <2>1. IsFiniteSet(B \ {b}) /\ Cardinality(B \ {b}) = Cardinality(B) - 1
    BY <1>1, <1>3, FS_RemoveElement
  <2> QED
    BY <1>1, <2>1 DEF Tally
<1>4. ASSUME NEW n \in C PROVE Tally(P + 1, A, B, C \ {n})
  <2>1. IsFiniteSet(C \ {n}) /\ Cardinality(C \ {n}) = Cardinality(C) - 1
    BY <1>1, <1>4, FS_RemoveElement
  <2> QED
    BY <1>1, <2>1 DEF Tally
<1>5. Tally(P - 1, A - 1, B, C)
  BY <1>1 DEF Tally
<1> QED
  BY <1>2, <1>3, <1>4, <1>5, Zenon

\* A hash whose blocks, calls and markers stay.
SameBlocks(h) == \A b \in Block : Bears(slots'[b], h) <=> Bears(slots[b], h)
SameCalls == /\ registering' = registering
             /\ \A i \in registering : inners'[i].hash = inners[i].hash
LEMMA ShadowKept ==
    ASSUME NEW h \in Hash, ShadowAt(h), SameBlocks(h), SameCalls,
           absent'[h] = absent[h], presence'[h] = presence[h]
    PROVE  ShadowAt(h)'
<1>1. Bearing(h)' = Bearing(h)
  BY DEF Bearing, SameBlocks, Bears
<1>2. Calls(h)' = Calls(h)
  BY DEF Calls, SameCalls
<1> QED
  BY <1>1, <1>2 DEF ShadowAt

\* A hash that gains a block together with the call that will mark it.
LEMMA ShadowGains ==
    ASSUME NEW h \in Hash, ShadowAt(h), presence[h] \in Int, absent[h] \in Nat,
           NEW b \in Block, ~Bears(slots[b], h), Bears(slots'[b], h),
           \A c \in Block : c # b => (Bears(slots'[c], h) <=> Bears(slots[c], h)),
           NEW n, n \notin registering, registering' = registering \cup {n}, inners'[n].hash = h,
           \A i \in registering : inners'[i].hash = inners[i].hash,
           absent'[h] = absent[h], presence'[h] = presence[h]
    PROVE  ShadowAt(h)'
<1>1. Bearing(h)' = Bearing(h) \cup {b} /\ b \notin Bearing(h)
  BY DEF Bearing, Bears
<1>2. Calls(h)' = Calls(h) \cup {n} /\ n \notin Calls(h)
  BY DEF Calls
<1>3. Tally(presence[h], absent[h], Bearing(h), Calls(h))
  BY DEF ShadowAt
<1>4. Tally(presence[h], absent[h], Bearing(h) \cup {b}, Calls(h) \cup {n})
  BY <1>1, <1>2, <1>3, Tallies
<1> QED
  BY <1>1, <1>2, <1>4 DEF ShadowAt

\* A hash that loses a block, whose marker is to be withdrawn.
LEMMA ShadowLoses ==
    ASSUME NEW h \in Hash, ShadowAt(h), presence[h] \in Int, absent[h] \in Nat,
           NEW b \in Block, Bears(slots[b], h), ~Bears(slots'[b], h),
           \A c \in Block : c # b => (Bears(slots'[c], h) <=> Bears(slots[c], h)),
           SameCalls, absent'[h] = absent[h] + 1, presence'[h] = presence[h]
    PROVE  ShadowAt(h)'
<1>1. Bearing(h)' = Bearing(h) \ {b} /\ b \in Bearing(h)
  BY DEF Bearing, Bears
<1>2. Calls(h)' = Calls(h)
  BY DEF Calls, SameCalls
<1>3. Tally(presence[h], absent[h], Bearing(h), Calls(h))
  BY DEF ShadowAt
<1>4. Tally(presence[h], absent[h] + 1, Bearing(h) \ {b}, Calls(h))
  BY <1>1, <1>3, Tallies
<1> QED
  BY <1>1, <1>2, <1>4 DEF ShadowAt

\* What the invariant says of markers, calls and slots.
LEMMA ShadowTypes ==
    ASSUME IInv
    PROVE  /\ presence \in [Hash -> Int] /\ absent \in [Hash -> Nat] /\ registering \subseteq Inner
           /\ \A i \in registering : inners[i].phase = "live" /\ inners[i].refs > 0
           /\ inners \in [Inner -> InnerRecord]
           /\ slots \in [Block -> [state : SlotStates, hash : Hash \cup {NoHash},
                                   inner : Inner \cup {NoInner}]]
<1>1. TypeOK /\ InnerShape
  BY DEF IInv
<1>2. presence \in [Hash -> Int] /\ absent \in [Hash -> Nat] /\ registering \subseteq Inner
  BY <1>1 DEF TypeOK
<1>3. \A i \in registering : inners[i].phase = "live" /\ inners[i].refs > 0
  BY <1>1, <1>2 DEF InnerShape
<1> QED
  BY <1>1, <1>2, <1>3 DEF TypeOK

\* allocate_atomic and drain_inactive_to_mutable: an evicted hash loses its one
\* inactive block, every other hash keeps what it has.
LEMMA EvictShadow ==
    ASSUME IInv, Shadow, NEW S, S \subseteq Block,
           \A b \in S : slots[b].state \in {"Reset", "Inactive"}, NEW E,
           E \subseteq S, \A b \in S : slots[b].state = "Inactive" => b \in E,
           ToMutable(S), Evict(E), UNCHANGED <<inners, registering, presence>>
    PROVE  Shadow'
<1> SUFFICES ASSUME NEW h \in Hash PROVE ShadowAt(h)'
  BY DEF Shadow
<1>1. ShadowAt(h) /\ SameCalls /\ presence'[h] = presence[h]
  BY DEF Shadow, SameCalls
<1>2. PoolsAgree /\ inactive \in [Hash -> Block \cup {NoBlock}]
  BY DEF IInv, TypeOK
<1>3. \A b \in Block : ~Bears(slots'[b], h) <=> b \in S \/ ~Bears(slots[b], h)
  BY DEF ToMutable, Bears
<1>4. \A b \in S : Bears(slots[b], h) <=> inactive[h] = b
  BY <1>2 DEF PoolsAgree, Bears
<1>5. CASE inactive[h] \in S
  <2>1. PICK b \in S : b = inactive[h]
    BY <1>5
  <2>2. b \in Block /\ Bears(slots[b], h) /\ slots[b].state = "Inactive"
    BY <1>2, <1>4, <2>1 DEF PoolsAgree
  <2>3. absent'[h] = absent[h] + 1
    BY <2>1, <2>2 DEF Evict
  <2>4. ~Bears(slots'[b], h) /\ \A c \in Block : c # b => (Bears(slots'[c], h) <=> Bears(slots[c], h))
    BY <1>3, <1>4, <2>1, <2>2
  <2>5. presence[h] \in Int /\ absent[h] \in Nat
    BY ShadowTypes
  <2> QED
    BY <1>1, <2>2, <2>3, <2>4, <2>5, ShadowLoses
<1>6. CASE inactive[h] \notin S
  <2>1. absent'[h] = absent[h]
    BY <1>6 DEF Evict
  <2>2. SameBlocks(h)
    BY <1>3, <1>4, <1>6 DEF SameBlocks
  <2> QED
    BY <1>1, <2>1, <2>2, ShadowKept
<1> QED
  BY <1>5, <1>6

\* allocate_atomic keeps the tally.
LEMMA AllocateShadow ==
    ASSUME IInv, Shadow, NEW S \in SUBSET Block, Allocate(S)
    PROVE  Shadow'
<1>1. PoolsAgree /\ free \in [Block -> Nat]
  BY DEF IInv, TypeOK
<1>2. S \subseteq FreeBlocks \cup IndexedBlocks
  BY DEF Allocate
<1>3. \A b \in S : slots[b].state \in {"Reset", "Inactive"}
  BY <1>1, <1>2 DEF PoolsAgree, FreeBlocks, IndexedBlocks
<1>4. \A b \in S : slots[b].state = "Inactive" => b \in S \ FreeBlocks
  BY <1>1 DEF PoolsAgree, FreeBlocks
<1>5. PICK E : E = S \ FreeBlocks
  OBVIOUS
<1>6. ToMutable(S) /\ Evict(E) /\ UNCHANGED <<inners, registering, presence>> /\ E \subseteq S
  BY <1>5 DEF Allocate
<1> QED
  BY <1>3, <1>4, <1>5, <1>6, EvictShadow

\* drain_inactive_to_mutable keeps the tally.
LEMMA DrainShadow ==
    ASSUME IInv, Shadow, DrainInactive
    PROVE  Shadow'
<1>1. PoolsAgree /\ inactive \in [Hash -> Block \cup {NoBlock}]
  BY DEF IInv, TypeOK
<1>2. PICK S : S = IndexedBlocks
  OBVIOUS
<1>3. S \subseteq Block /\ \A b \in S : slots[b].state = "Inactive"
  BY <1>1, <1>2 DEF PoolsAgree, IndexedBlocks
<1>4. ToMutable(S) /\ Evict(S) /\ UNCHANGED <<inners, registering, presence>>
  BY <1>2 DEF DrainInactive
<1> QED
  BY <1>3, <1>4, EvictShadow

\* A guard's changes, a lookup's resurrection and a release into the cache leave
\* every hash its blocks and calls.
LEMMA QuietShadow ==
    ASSUME IInv, Shadow, \A h \in Hash : SameBlocks(h), SameCalls, UNCHANGED <<absent, presence>>
    PROVE  Shadow'
  BY ShadowKept DEF Shadow

\* stage, reset and drop of an exclusive guard keep the tally.
LEMMA GuardShadow ==
    ASSUME IInv, Shadow, NEW b \in Block, NEW h \in Hash,
           Stage(b, h) \/ ResetComplete(b) \/ DropGuard(b)
    PROVE  Shadow'
<1>1. /\ slots[b].state \in {"Mutable", "Staged"} /\ SameCalls /\ UNCHANGED <<absent, presence>>
      /\ \E s \in {Reset, Mutable, Staged(h)} : slots' = [slots EXCEPT ![b] = s]
  BY DEF Stage, ResetComplete, DropGuard, marks, SameCalls
<1>2. \A g \in Hash : SameBlocks(g)
  BY <1>1, ShadowTypes DEF SameBlocks, Bears
<1> QED
  BY <1>1, <1>2, QuietShadow

\* The steps that leave the slots alone and no hash of a registering inner.
LEMMA HandleShadow ==
    ASSUME IInv, Shadow, slots' = slots, UNCHANGED <<registering, absent, presence>>,
           \A i \in registering : inners'[i].hash = inners[i].hash
    PROVE  Shadow'
<1>1. SameCalls /\ \A h \in Hash : SameBlocks(h)
  BY DEF SameCalls, SameBlocks
<1> QED
  BY <1>1, QuietShadow

\* A lookup or a rejected registration that resurrects an idle block.
LEMMA IdleShadow ==
    ASSUME IInv, Shadow, NEW h \in Hash, NEW n \in Inner, Resurrect(h, n),
           slots' = [slots EXCEPT ![IdleBlock(h)] = Primary(h, n)],
           inners' = [inners EXCEPT ![n] = NewPrimary(IdleBlock(h), h, 1)],
           UNCHANGED <<registering, absent, presence>>
    PROVE  Shadow'
<1>1. n \notin registering
  BY ShadowTypes DEF Resurrect, Vacant
<1>2. PICK b : b = IdleBlock(h)
  OBVIOUS
<1>3. b \in Block /\ Bears(slots[b], h)
  BY <1>2 DEF IInv, TypeOK, PoolsAgree, Resurrect, Registered, IdleBlock, Bears
<1>4. \A g \in Hash : SameBlocks(g)
  BY <1>2, <1>3, ShadowTypes DEF SameBlocks, Bears
<1>5. SameCalls
  BY <1>1, ShadowTypes DEF SameCalls
<1> QED
  BY <1>4, <1>5, QuietShadow

\* register_completed_block of a new hash, or of a second copy of one, keeps the
\* tally: the block and its mark_present call come together.
LEMMA RegisterShadow ==
    ASSUME IInv, Shadow, NEW b \in Block, NEW n \in Inner,
           RegisterFresh(b, n) \/ RegisterDuplicate(b, n)
    PROVE  Shadow'
<1> SUFFICES ASSUME NEW h \in Hash PROVE ShadowAt(h)'
  BY DEF Shadow
<1>1. PICK g \in Hash : g = slots[b].hash
  BY DEF IInv, SlotsNameTheirInner, RegisterFresh, RegisterDuplicate, Registrable
<1>2. /\ slots[b].state = "Staged" /\ n \notin registering
      /\ registering' = registering \cup {n} /\ UNCHANGED <<absent, presence>>
      /\ \E s \in {Primary(g, n), Duplicate(g, n)} : slots' = [slots EXCEPT ![b] = s]
  BY <1>1, ShadowTypes DEF RegisterFresh, RegisterDuplicate, Registrable, Vacant
<1>3. inners'[n].hash = g /\ \A i \in registering : inners'[i].hash = inners[i].hash
  <2>1. PICK o : inners' = [inners EXCEPT ![n] = o] /\ o.hash = g
    BY <1>1 DEF RegisterFresh, RegisterDuplicate, NewPrimary, NewDuplicate
  <2> QED
    BY <1>2, <2>1, ShadowTypes
<1>4. ~Bears(slots[b], h) /\ \A c \in Block : c # b => slots'[c] = slots[c]
  BY <1>2, ShadowTypes DEF Bears
<1>5. Bears(slots'[b], h) <=> h = g
  BY <1>2, ShadowTypes DEF Bears
<1>6. ShadowAt(h) /\ presence[h] \in Int /\ absent[h] \in Nat
  BY ShadowTypes DEF Shadow
<1>7. CASE h = g
  BY <1>2, <1>3, <1>4, <1>5, <1>6, <1>7, ShadowGains
<1>8. CASE h # g
  <2>1. Calls(h)' = Calls(h)
    BY <1>2, <1>3, <1>8 DEF Calls
  <2>2. Bearing(h)' = Bearing(h)
    BY <1>4, <1>5, <1>8 DEF Bearing, Bears
  <2> QED
    BY <1>2, <1>6, <2>1, <2>2 DEF ShadowAt
<1> QED
  BY <1>7, <1>8

\* The same with an idle primary, which the call resurrects: its hash had the
\* block already.
LEMMA RegisterIdleShadow ==
    ASSUME IInv, Shadow, NEW b \in Block, NEW n \in Inner, NEW d \in Inner,
           RegisterDuplicateIdle(b, n, d)
    PROVE  Shadow'
<1> SUFFICES ASSUME NEW h \in Hash PROVE ShadowAt(h)'
  BY DEF Shadow
<1>1. PICK g \in Hash : g = slots[b].hash
  BY DEF IInv, SlotsNameTheirInner, RegisterDuplicateIdle, Registrable
<1>2. /\ slots[b].state = "Staged" /\ n \notin registering /\ d \notin registering /\ n # d
      /\ registering' = registering \cup {d} /\ UNCHANGED <<absent, presence>>
  BY ShadowTypes DEF RegisterDuplicateIdle, Registrable, Resurrect, Vacant
<1>3. PICK q : q = IdleBlock(g)
  OBVIOUS
<1>4. q \in Block /\ Bears(slots[q], g) /\ q # b
  <2>1. Registered(g)
    BY <1>1 DEF RegisterDuplicateIdle, Resurrect
  <2>2. q \in Block /\ Bears(slots[q], g)
    BY <1>3, <2>1 DEF IInv, TypeOK, PoolsAgree, Registered, IdleBlock, Bears
  <2> QED
    BY <1>2, <2>2 DEF Bears
<1>5. /\ slots' = [slots EXCEPT ![q] = Primary(g, n), ![b] = Duplicate(g, d)]
      /\ inners' = [inners EXCEPT ![n] = NewPrimary(q, g, 0), ![d] = NewDuplicate(b, g, n)]
  BY <1>1, <1>3 DEF RegisterDuplicateIdle
<1>6. inners'[d].hash = g /\ \A i \in registering : inners'[i].hash = inners[i].hash
  BY <1>2, <1>5, ShadowTypes DEF NewDuplicate
<1>7. /\ slots'[b] = Duplicate(g, d) /\ slots'[q] = Primary(g, n)
      /\ \A c \in Block : c # b /\ c # q => slots'[c] = slots[c]
  BY <1>4, <1>5, ShadowTypes
<1>8. /\ ~Bears(slots[b], h) /\ (Bears(slots'[b], h) <=> h = g)
      /\ \A c \in Block : c # b => (Bears(slots'[c], h) <=> Bears(slots[c], h))
  BY <1>2, <1>4, <1>7 DEF Bears
<1>9. ShadowAt(h) /\ presence[h] \in Int /\ absent[h] \in Nat
  BY ShadowTypes DEF Shadow
<1>10. CASE h = g
  BY <1>2, <1>6, <1>8, <1>9, <1>10, ShadowGains
<1>11. CASE h # g
  <2>1. Calls(h)' = Calls(h)
    BY <1>2, <1>6, <1>11 DEF Calls
  <2>2. Bearing(h)' = Bearing(h)
    BY <1>8, <1>11 DEF Bearing, Bears
  <2> QED
    BY <1>2, <1>9, <2>1, <2>2 DEF ShadowAt
<1> QED
  BY <1>10, <1>11

\* mark_present: the call is over and its marker counts.
LEMMA MarkPresentShadow ==
    ASSUME IInv, Shadow, NEW i \in Inner, MarkPresent(i)
    PROVE  Shadow'
<1> SUFFICES ASSUME NEW h \in Hash PROVE ShadowAt(h)'
  BY DEF Shadow
<1>1. /\ i \in registering /\ registering' = registering \ {i}
      /\ presence' = [presence EXCEPT ![inners[i].hash] = @ + 1]
      /\ UNCHANGED <<slots, inners, absent>>
  BY DEF MarkPresent
<1>2. ShadowAt(h) /\ presence[h] \in Int /\ absent[h] \in Nat /\ presence \in [Hash -> Int]
  BY ShadowTypes DEF Shadow
<1>3. Bearing(h)' = Bearing(h)
  BY <1>1 DEF Bearing
<1>4. CASE inners[i].hash = h
  <2>1. Calls(h)' = Calls(h) \ {i} /\ i \in Calls(h)
    BY <1>1, <1>4 DEF Calls
  <2>2. presence'[h] = presence[h] + 1 /\ absent'[h] = absent[h]
    BY <1>1, <1>2, <1>4
  <2>3. Tally(presence[h], absent[h], Bearing(h), Calls(h))
    BY <1>2 DEF ShadowAt
  <2>4. Tally(presence[h] + 1, absent[h], Bearing(h), Calls(h) \ {i})
    BY <1>2, <2>1, <2>3, Tallies
  <2> QED
    BY <1>3, <2>1, <2>2, <2>4 DEF ShadowAt
<1>5. CASE inners[i].hash # h
  <2>1. Calls(h)' = Calls(h)
    BY <1>1, <1>5 DEF Calls
  <2>2. presence'[h] = presence[h] /\ absent'[h] = absent[h]
    BY <1>1, <1>2, <1>5
  <2> QED
    BY <1>2, <1>3, <2>1, <2>2 DEF ShadowAt
<1> QED
  BY <1>4, <1>5

\* mark_absent: a withdrawn marker is no longer to be withdrawn.
LEMMA MarkAbsentShadow ==
    ASSUME IInv, Shadow, NEW g \in Hash, MarkAbsent(g)
    PROVE  Shadow'
<1> SUFFICES ASSUME NEW h \in Hash PROVE ShadowAt(h)'
  BY DEF Shadow
<1>1. /\ absent' = [absent EXCEPT ![g] = @ - 1] /\ presence' = [presence EXCEPT ![g] = @ - 1]
      /\ UNCHANGED <<slots, inners, registering>>
  BY DEF MarkAbsent
<1>2. /\ ShadowAt(h) /\ presence[h] \in Int /\ absent[h] \in Nat
      /\ presence \in [Hash -> Int] /\ absent \in [Hash -> Nat]
  BY ShadowTypes DEF Shadow
<1>3. Bearing(h)' = Bearing(h) /\ Calls(h)' = Calls(h)
  BY <1>1 DEF Bearing, Calls
<1>4. CASE g = h
  <2>1. presence'[h] = presence[h] - 1 /\ absent'[h] = absent[h] - 1
    BY <1>1, <1>2, <1>4
  <2>2. Tally(presence[h], absent[h], Bearing(h), Calls(h))
    BY <1>2 DEF ShadowAt
  <2>3. Tally(presence[h] - 1, absent[h] - 1, Bearing(h), Calls(h))
    BY <1>2, <2>2, Tallies
  <2> QED
    BY <1>3, <2>1, <2>3 DEF ShadowAt
<1>5. CASE g # h
  <2>1. presence'[h] = presence[h] /\ absent'[h] = absent[h]
    BY <1>1, <1>2, <1>5
  <2> QED
    BY <1>2, <1>3, <2>1 DEF ShadowAt
<1> QED
  BY <1>4, <1>5

\* A registered block of g goes back to the free list and its marker is to be
\* withdrawn.
LEMMA FreedShadow ==
    ASSUME IInv, Shadow, NEW b \in Block, NEW g \in Hash, Bears(slots[b], g),
           slots' = [slots EXCEPT ![b] = Reset], absent' = [absent EXCEPT ![g] = @ + 1],
           presence' = presence, SameCalls
    PROVE  Shadow'
<1> SUFFICES ASSUME NEW h \in Hash PROVE ShadowAt(h)'
  BY DEF Shadow
<1>1. ~Bears(slots'[b], h) /\ \A c \in Block : c # b => slots'[c] = slots[c]
  BY ShadowTypes DEF Bears
<1>2. /\ ShadowAt(h) /\ presence[h] \in Int /\ absent[h] \in Nat /\ absent \in [Hash -> Nat]
      /\ presence'[h] = presence[h]
  BY ShadowTypes DEF Shadow
<1>3. CASE h = g
  <2>1. absent'[h] = absent[h] + 1 /\ Bears(slots[b], h)
    BY <1>2, <1>3
  <2> QED
    BY <1>1, <1>2, <2>1, ShadowLoses
<1>4. CASE h # g
  <2>1. absent'[h] = absent[h]
    BY <1>2, <1>4
  <2>2. ~Bears(slots[b], h)
    BY <1>4 DEF Bears
  <2>3. SameBlocks(h)
    BY <1>1, <2>2 DEF SameBlocks
  <2> QED
    BY <1>2, <2>1, <2>3, ShadowKept
<1> QED
  BY <1>3, <1>4

\* release_primary keeps the tally, also when a lookup was there first.
LEMMA ReleasePrimaryShadow ==
    ASSUME IInv, Shadow, NEW i \in Inner, ReleasePrimary(i)
    PROVE  Shadow'
<1>1. PICK b \in Block : b = inners[i].block
  BY DEF ReleasePrimary, IInv, InnerShape
<1>2. PICK h \in Hash : h = inners[i].hash
  BY DEF ReleasePrimary, IInv, InnerShape
<1>3. i \notin registering /\ inners' = [inners EXCEPT ![i] = NoObject]
      /\ registering' = registering /\ presence' = presence
  BY ShadowTypes DEF ReleasePrimary
<1>4. SameCalls
  BY <1>3, ShadowTypes DEF SameCalls
<1>5. CASE slots[b].state = "Primary" /\ slots[b].inner = i
  <2>1. Bears(slots[b], h)
    BY <1>1, <1>2, <1>5 DEF Bears, IInv, SlotsNameTheirInner
  <2>2. CASE resetOnRelease[b]
    <3>1. slots' = [slots EXCEPT ![b] = Reset] /\ absent' = [absent EXCEPT ![h] = @ + 1]
      BY <1>1, <1>2, <1>5, <2>2 DEF ReleasePrimary
    <3> QED
      BY <1>3, <1>4, <2>1, <3>1, FreedShadow
  <2>3. CASE ~resetOnRelease[b]
    <3>1. slots' = [slots EXCEPT ![b] = Inactive(h)] /\ absent' = absent
      BY <1>1, <1>2, <1>5, <2>3 DEF ReleasePrimary
    <3>2. \A g \in Hash : SameBlocks(g)
      BY <2>1, <3>1, ShadowTypes DEF SameBlocks, Bears
    <3> QED
      BY <1>3, <1>4, <3>1, <3>2, QuietShadow
  <2> QED
    BY <2>2, <2>3
<1>6. CASE ~(slots[b].state = "Primary" /\ slots[b].inner = i)
  <2>1. slots' = slots /\ absent' = absent
    BY <1>1, <1>6 DEF ReleasePrimary
  <2> QED
    BY <1>3, <1>4, <2>1, HandleShadow DEF SameCalls
<1> QED
  BY <1>5, <1>6

\* release_duplicate keeps the tally.
LEMMA ReleaseDuplicateShadow ==
    ASSUME IInv, Shadow, NEW i \in Inner, ReleaseDuplicate(i)
    PROVE  Shadow'
<1>1. PICK b \in Block : b = inners[i].block
  BY DEF ReleaseDuplicate, IInv, InnerShape
<1>2. PICK h \in Hash : h = inners[i].hash
  BY DEF ReleaseDuplicate, IInv, InnerShape
<1>3. i \notin registering /\ inners' = [inners EXCEPT ![i].phase = "released"]
      /\ registering' = registering /\ presence' = presence
  BY ShadowTypes DEF ReleaseDuplicate
<1>4. SameCalls
  BY <1>3, ShadowTypes DEF SameCalls
<1>5. CASE slots[b].state = "Duplicate" /\ slots[b].inner = i
  <2>1. Bears(slots[b], h)
    BY <1>1, <1>2, <1>5 DEF Bears, IInv, SlotsNameTheirInner
  <2>2. slots' = [slots EXCEPT ![b] = Reset] /\ absent' = [absent EXCEPT ![h] = @ + 1]
    BY <1>1, <1>2, <1>5 DEF ReleaseDuplicate
  <2> QED
    BY <1>3, <1>4, <2>1, <2>2, FreedShadow
<1>6. CASE ~(slots[b].state = "Duplicate" /\ slots[b].inner = i)
  <2>1. slots' = slots /\ absent' = absent
    BY <1>1, <1>6 DEF ReleaseDuplicate
  <2> QED
    BY <1>3, <1>4, <2>1, HandleShadow DEF SameCalls
<1> QED
  BY <1>5, <1>6

\* Handles that come and go do not touch the tally.
LEMMA HandlesShadow ==
    ASSUME IInv, Shadow, NEW i \in Inner,
           \/ CloneHandle(i) \/ DropHandle(i) \/ DropKeepalive(i)
           \/ \E v \in BOOLEAN : SetEvictOnReset(i, v) \/ SetPrimaryResetOnRelease(i, v)
    PROVE  Shadow'
<1>1. slots' = slots /\ UNCHANGED <<registering, absent, presence>>
  BY DEF CloneHandle, DropHandle, DropKeepalive, SetEvictOnReset, SetPrimaryResetOnRelease, marks
<1>2. ASSUME NEW k \in registering PROVE inners'[k].hash = inners[k].hash
  <2>1. CASE CloneHandle(i)
    BY <2>1, ShadowTypes DEF CloneHandle
  <2>2. CASE DropHandle(i)
    BY <2>2, ShadowTypes DEF DropHandle
  <2>3. CASE DropKeepalive(i)
    <3>1. k # i
      BY <2>3, ShadowTypes DEF DropKeepalive
    <3> QED
      BY <2>3, <3>1, ShadowTypes DEF DropKeepalive
  <2>4. CASE \E v \in BOOLEAN : SetEvictOnReset(i, v) \/ SetPrimaryResetOnRelease(i, v)
    BY <2>4 DEF SetEvictOnReset, SetPrimaryResetOnRelease
  <2> QED
    BY <2>1, <2>2, <2>3, <2>4
<1> QED
  BY <1>1, <1>2, HandleShadow

\* A lookup or a rejected registration that finds a live primary.
LEMMA HitShadow ==
    ASSUME IInv, Shadow, NEW h \in Hash, ActiveHit(h),
           inners' = [inners EXCEPT ![slots[activeByHash[h]].inner].refs = @ + 1],
           slots' = slots, UNCHANGED <<registering, absent, presence>>
    PROVE  Shadow'
<1>1. \A k \in registering : inners'[k].hash = inners[k].hash
  BY ShadowTypes
<1> QED
  BY <1>1, HandleShadow

\* The tally holds before the first step: nothing is registered.
LEMMA InitShadow == Init => Shadow
<1> SUFFICES ASSUME Init, NEW h \in Hash PROVE ShadowAt(h)
  BY DEF Shadow
<1>1. Bearing(h) = {} /\ Calls(h) = {} /\ presence[h] = 0 /\ absent[h] = 0
  BY DEF Init, Bearing, Calls
<1>2. IsFiniteSet({}) /\ Cardinality({}) = 0
  <2>1. IsFiniteSet({})
    BY FS_EmptySet
  <2> QED
    BY <2>1, FS_EmptySet
<1> QED
  BY <1>1, <1>2 DEF ShadowAt, Tally

\* Every step keeps the tally.
LEMMA NextShadow == IInv /\ Shadow /\ [Next]_vars => Shadow'
<1> SUFFICES ASSUME IInv, Shadow, [Next]_vars PROVE Shadow'
  OBVIOUS
<1>1. CASE UNCHANGED vars
  <2>1. slots' = slots /\ inners' = inners /\ UNCHANGED <<registering, absent, presence>>
    BY <1>1 DEF vars
  <2> QED
    BY <2>1, HandleShadow
<1>2. ASSUME NEW b \in Block, RegisterReject(b) PROVE Shadow'
  <2>1. PICK h \in Hash : h = slots[b].hash
    BY <1>2 DEF IInv, SlotsNameTheirInner, RegisterReject, Registrable
  <2> QED
    BY <1>2, <2>1, HitShadow DEF RegisterReject, marks
<1>3. ASSUME NEW b \in Block, NEW n \in Inner, RegisterRejectIdle(b, n) PROVE Shadow'
  <2>1. PICK h \in Hash : h = slots[b].hash
    BY <1>3 DEF IInv, SlotsNameTheirInner, RegisterRejectIdle, Registrable
  <2> QED
    BY <1>3, <2>1, IdleShadow DEF RegisterRejectIdle, marks
<1>4. ASSUME NEW h \in Hash, MatchActive(h) PROVE Shadow'
  BY <1>4, HitShadow DEF MatchActive, marks
<1>5. ASSUME NEW h \in Hash, NEW n \in Inner, MatchIdle(h, n) PROVE Shadow'
  BY <1>5, IdleShadow DEF MatchIdle, marks
<1>6. ASSUME NEW b \in Block, ResetComplete(b) \/ DropGuard(b) PROVE Shadow'
  <2>1. /\ slots[b].state \in {"Mutable", "Staged"} /\ SameCalls /\ UNCHANGED <<absent, presence>>
        /\ \E s \in {Reset, Mutable} : slots' = [slots EXCEPT ![b] = s]
    BY <1>6 DEF ResetComplete, DropGuard, marks, SameCalls
  <2>2. \A g \in Hash : SameBlocks(g)
    BY <2>1, ShadowTypes DEF SameBlocks, Bears
  <2> QED
    BY <2>1, <2>2, QuietShadow
<1> QED
  BY <1>1, <1>2, <1>3, <1>4, <1>5, <1>6, AllocateShadow, DrainShadow, GuardShadow, RegisterShadow,
     RegisterIdleShadow, MarkPresentShadow, MarkAbsentShadow, ReleasePrimaryShadow,
     ReleaseDuplicateShadow, HandlesShadow, Zenon DEF Next

\* Each call that has yet to mark has a block of its own, so a marker that is
\* to be withdrawn is there.
LEMMA CallsHaveBlocks ==
    ASSUME IInv, Shadow, NEW h \in Hash
    PROVE  Cardinality(Calls(h)) <= Cardinality(Bearing(h))
<1>1. HeldSlotsBelong /\ InnerShape
  BY DEF IInv
<1>2. \A i \in Calls(h) : /\ i \in Inner /\ Live(i) /\ inners[i].block \in Block
                          /\ inners[i].hash = h
  BY <1>1, ShadowTypes DEF Calls, InnerShape, Live
<1>3. \A i \in Calls(h) : inners[i].block \in Bearing(h) /\ slots[inners[i].block].inner = i
  BY <1>1, <1>2 DEF HeldSlotsBelong, Bearing
<1>4. PICK f : f = [i \in Calls(h) |-> inners[i].block]
  OBVIOUS
<1>5. f \in [Calls(h) -> Bearing(h)] /\ \A i, j \in Calls(h) : f[i] = f[j] => i = j
  BY <1>3, <1>4
<1>6. f \in Injection(Calls(h), Bearing(h))
  BY <1>5 DEF Injection, IsInjective
<1>7. IsFiniteSet(Bearing(h))
  BY DEF Shadow, ShadowAt, Tally
<1> QED
  BY <1>6, <1>7, FS_Injection

\* The presence count is the shadow of the slots, up to the calls in flight, and
\* mark_absent never finds a missing marker (registry/handle.rs mark_absent and
\* its debug assertion), for every store.
THEOREM PresenceShadows == Spec => []PresenceIsShadow
<1>1. Init => Shadow
  BY InitShadow
<1>2. IInv /\ Shadow /\ [Next]_vars => Shadow'
  BY NextShadow
<1>3. IInv /\ Shadow => PresenceIsShadow
  <2> SUFFICES ASSUME IInv, Shadow, NEW h \in Hash
               PROVE  /\ presence[h] = Cardinality(Bearing(h)) + absent[h] - Cardinality(Calls(h))
                      /\ absent[h] > 0 => presence[h] > 0
    BY DEF PresenceIsShadow, Calls
  <2>1. /\ IsFiniteSet(Bearing(h)) /\ IsFiniteSet(Calls(h))
        /\ presence[h] = Cardinality(Bearing(h)) + absent[h] - Cardinality(Calls(h))
    BY DEF Shadow, ShadowAt, Tally
  <2>2. Cardinality(Bearing(h)) \in Nat /\ Cardinality(Calls(h)) \in Nat
    BY <2>1, FS_CardinalityType
  <2>3. Cardinality(Calls(h)) <= Cardinality(Bearing(h)) /\ absent[h] \in Nat
    BY CallsHaveBlocks, ShadowTypes
  <2> QED
    BY <2>1, <2>2, <2>3
<1> QED
  BY <1>1, <1>2, <1>3, StoreInvariant, PTL DEF Spec
=============================================================================
