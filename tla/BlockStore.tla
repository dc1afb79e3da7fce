------------------------------ MODULE BlockStore ------------------------------
(***************************************************************************)
(* The logical KV block store of kvbm-logical (pools/store.rs) together    *)
(* with the RAII guards that drive it (blocks/mutable.rs, complete.rs,     *)
(* immutable.rs, pin.rs).                                                  *)
(*                                                                         *)
(* One mutex protects the slots, the free list, the inactive (evictable)   *)
(* index and the hash -> primary map, so every critical section is one     *)
(* step here.  What is not under that mutex is what makes the store hard:  *)
(* an Arc's strong count reaches zero BEFORE its Drop takes the mutex, a   *)
(* duplicate's keepalive is dropped AFTER its own release, and the         *)
(* registry's presence count is updated after the mutex is given back.     *)
(* Each of those gaps is a separate step.                                  *)
(*                                                                         *)
(* An element of Inner is the address of an ImmutableBlockInner            *)
(* allocation; the address can be used again once the object is gone and   *)
(* no slot keeps a Weak to it, which is what the identity check of         *)
(* release_primary relies on.                                              *)
(***************************************************************************)
EXTENDS Integers, FiniteSets

CONSTANTS Block,          \* physical slots (BlockId)
          Hash,           \* sequence hashes of token blocks
          Inner,          \* addresses of ImmutableBlockInner allocations
          NoBlock, NoHash, NoInner,
          DefaultReset,   \* default_reset_on_release
          MaxRefs,        \* bound on the handles cloned from one inner
          MaxPending      \* bound on the mark_absent calls in flight per hash

ASSUME StoreAssumption ==
    /\ NoBlock \notin Block /\ NoHash \notin Hash /\ NoInner \notin Inner
    /\ DefaultReset \in BOOLEAN
    /\ MaxRefs \in Nat \ {0} /\ MaxPending \in Nat \ {0}

VARIABLES
    slots,          \* Block -> [state, hash, inner (the slot's Weak)]
    free,           \* Block -> number of entries for it in the free deque
    inactive,       \* Hash -> the evictable block indexed under it
    activeByHash,   \* Hash -> its primary block
    resetOnRelease, \* Block -> "reset on last drop" override
    inners,         \* Inner -> the ImmutableBlockInner at that address
    doomed,         \* guards a call in progress is about to drop
    registering,    \* inners whose register call has yet to mark_present
    presence,       \* Hash -> the handle's presence_markers count
    absent,         \* Hash -> mark_absent calls still to be made
    policy          \* BlockDuplicationPolicy, fixed when the manager is built

vars == <<slots, free, inactive, activeByHash, resetOnRelease, inners,
          doomed, registering, presence, absent, policy>>
marks == <<registering, presence, absent>>
index == <<inactive, activeByHash>>

SlotStates == {"Reset", "Mutable", "Staged", "Primary", "Duplicate", "Inactive"}
Phases == {"unused", "live", "dropping", "released"}

\* The six SlotState variants, with the payload each of them carries.
Reset == [state |-> "Reset", hash |-> NoHash, inner |-> NoInner]
Mutable == [state |-> "Mutable", hash |-> NoHash, inner |-> NoInner]
Staged(h) == [state |-> "Staged", hash |-> h, inner |-> NoInner]
Primary(h, i) == [state |-> "Primary", hash |-> h, inner |-> i]
Duplicate(h, i) == [state |-> "Duplicate", hash |-> h, inner |-> i]
Inactive(h) == [state |-> "Inactive", hash |-> h, inner |-> NoInner]

InnerRecord == [phase : Phases, block : Block \cup {NoBlock}, hash : Hash \cup {NoHash},
                primary : BOOLEAN, keep : Inner \cup {NoInner}, refs : 0..MaxRefs]

NoObject == [phase |-> "unused", block |-> NoBlock, hash |-> NoHash,
             primary |-> FALSE, keep |-> NoInner, refs |-> 0]
NewPrimary(b, h, r) == [phase |-> "live", block |-> b, hash |-> h,
                        primary |-> TRUE, keep |-> NoInner, refs |-> r]
NewDuplicate(b, h, p) == [phase |-> "live", block |-> b, hash |-> h,
                          primary |-> FALSE, keep |-> p, refs |-> 1]

Live(i) == i \in Inner /\ inners[i].phase = "live"
\* Mutant: the block is handed out before the registry was told of it.
UsableRefsAtOnce(i) == inners[i].refs
\* Handles to i that a caller can use: all but the one still inside register.
UsableRefs(i) == inners[i].refs - (IF i \in registering THEN 1 ELSE 0)
\* An address the allocator may hand out: no object in it, no Weak to it.
Vacant(i) == inners[i].phase = "unused" /\ \A b \in Block : slots[b].inner # i
\* Mutant: a duplicate that does not keep its primary alive.
StillHeldByHandles(i, refs, d) == refs > 0
\* Strong references to i held by something other than d's keepalive field.
StillHeld(i, refs, d) == refs > 0 \/ \E k \in Inner \ {d} : inners[k].keep = i

Init ==
    /\ slots = [b \in Block |-> Reset]
    /\ free = [b \in Block |-> 1]
    /\ inactive = [h \in Hash |-> NoBlock]
    /\ activeByHash = [h \in Hash |-> NoBlock]
    /\ resetOnRelease = [b \in Block |-> DefaultReset]
    /\ inners = [i \in Inner |-> NoObject]
    /\ doomed = {} /\ registering = {}
    /\ presence = [h \in Hash |-> 0]
    /\ absent = [h \in Hash |-> 0]
    /\ policy \in {"Allow", "Reject"}

-----------------------------------------------------------------------------
(* Allocation: reset blocks first, then evictions in the backend's order.  *)

FreeBlocks == {b \in Block : free[b] > 0}
IndexedBlocks == {inactive[h] : h \in Hash} \ {NoBlock}

ToMutable(S) ==
    /\ slots' = [b \in Block |-> IF b \in S THEN Mutable ELSE slots[b]]
    /\ resetOnRelease' = [b \in Block |-> IF b \in S THEN DefaultReset ELSE resetOnRelease[b]]

\* Take the blocks of S out of the inactive index; their handles are
\* marked absent after the mutex is released.
Evict(S) ==
    /\ \A h \in Hash : inactive[h] \in S => absent[h] < MaxPending
    /\ inactive' = [h \in Hash |-> IF inactive[h] \in S THEN NoBlock ELSE inactive[h]]
    /\ absent' = [h \in Hash |-> IF inactive[h] \in S THEN absent[h] + 1 ELSE absent[h]]

\* allocate_atomic(count) for every count: S is the set it returns.  It fails
\* (no step) when fewer blocks are free or inactive than were asked for.  The
\* guards are usable before the call's own mark_absent, which over-approximates.
Allocate(S) ==
    /\ S # {} /\ S \subseteq FreeBlocks \cup IndexedBlocks
    /\ S \cap IndexedBlocks # {} => FreeBlocks \subseteq S
    /\ free' = [b \in Block |-> IF b \in S /\ free[b] > 0 THEN free[b] - 1 ELSE free[b]]
    /\ ToMutable(S)
    /\ Evict(S \ FreeBlocks)
    /\ UNCHANGED <<activeByHash, inners, doomed, registering, presence, policy>>

\* evict_inactive / reset_inactive_pool: the whole index becomes mutable
\* guards that the call then drops one by one.
DrainInactive ==
    /\ IndexedBlocks # {}
    /\ ToMutable(IndexedBlocks)
    /\ Evict(IndexedBlocks)
    /\ doomed' = doomed \cup IndexedBlocks
    /\ UNCHANGED <<free, activeByHash, inners, registering, presence, policy>>

-----------------------------------------------------------------------------
(* The exclusive guards MutableBlock and CompleteBlock.                    *)

Stage(b, h) ==
    /\ slots[b].state = "Mutable" /\ b \notin doomed
    /\ slots' = [slots EXCEPT ![b] = Staged(h)]
    /\ UNCHANGED <<free, index, resetOnRelease, inners, doomed, marks, policy>>

ResetComplete(b) ==
    /\ slots[b].state = "Staged" /\ b \notin doomed
    /\ slots' = [slots EXCEPT ![b] = Mutable]
    /\ resetOnRelease' = [resetOnRelease EXCEPT ![b] = DefaultReset]
    /\ UNCHANGED <<free, index, inners, doomed, marks, policy>>

\* release_mutable / release_staged: the guard is dropped unused.
DropGuard(b) ==
    /\ slots[b].state \in {"Mutable", "Staged"}
    /\ slots' = [slots EXCEPT ![b] = Reset]
    /\ free' = [free EXCEPT ![b] = @ + 1]
    /\ doomed' = doomed \ {b}
    /\ UNCHANGED <<index, resetOnRelease, inners, marks, policy>>

-----------------------------------------------------------------------------
(* Lookup by hash (acquire_for_hash_locked).                               *)

ActiveHit(h) == activeByHash[h] # NoBlock /\ Live(slots[activeByHash[h]].inner)
Registered(h) == activeByHash[h] # NoBlock \/ inactive[h] # NoBlock

\* Where the resurrection finds its block.  With a dead Weak the lookup first
\* moves Primary -> Inactive itself, and finds that entry again at once.
IdleBlock(h) == IF activeByHash[h] # NoBlock THEN activeByHash[h] ELSE inactive[h]

\* Make the idle block of h primary again behind a fresh inner n.  The
\* per-slot override is left alone.
Resurrect(h, n) ==
    /\ Registered(h) /\ ~ActiveHit(h) /\ Vacant(n)
    /\ inactive' = [inactive EXCEPT ![h] = NoBlock]
    /\ activeByHash' = [activeByHash EXCEPT ![h] = IdleBlock(h)]

\* match_blocks / scan_matches / a dead WeakBlock's upgrade, one hash each.
MatchActive(h) ==
    /\ ActiveHit(h)
    /\ LET i == slots[activeByHash[h]].inner
       IN  /\ inners[i].refs < MaxRefs
           /\ inners' = [inners EXCEPT ![i].refs = @ + 1]
    /\ UNCHANGED <<slots, free, index, resetOnRelease, doomed, marks, policy>>

MatchIdle(h, n) ==
    /\ Resurrect(h, n)
    /\ slots' = [slots EXCEPT ![IdleBlock(h)] = Primary(h, n)]
    /\ inners' = [inners EXCEPT ![n] = NewPrimary(IdleBlock(h), h, 1)]
    /\ UNCHANGED <<free, resetOnRelease, doomed, marks, policy>>

-----------------------------------------------------------------------------
(* register_completed_block: lookup and transition under one acquisition.  *)

Registrable(b) == slots[b].state = "Staged" /\ b \notin doomed

\* Mutant: the hash was looked up under an earlier acquisition of the mutex.
RegisterFreshUnchecked(b, n) ==
    LET h == slots[b].hash IN
    /\ Registrable(b) /\ Vacant(n)
    /\ slots' = [slots EXCEPT ![b] = Primary(h, n)]
    /\ inners' = [inners EXCEPT ![n] = NewPrimary(b, h, 1)]
    /\ activeByHash' = [activeByHash EXCEPT ![h] = b]
    /\ registering' = registering \cup {n}
    /\ UNCHANGED <<free, inactive, resetOnRelease, doomed, presence, absent, policy>>

RegisterFresh(b, n) ==
    LET h == slots[b].hash IN
    /\ Registrable(b) /\ ~Registered(h) /\ Vacant(n)
    /\ slots' = [slots EXCEPT ![b] = Primary(h, n)]
    /\ inners' = [inners EXCEPT ![n] = NewPrimary(b, h, 1)]
    /\ activeByHash' = [activeByHash EXCEPT ![h] = b]
    /\ registering' = registering \cup {n}
    /\ UNCHANGED <<free, inactive, resetOnRelease, doomed, presence, absent, policy>>

\* A second physical copy; it holds the primary alive.
RegisterDuplicate(b, d) ==
    LET h == slots[b].hash IN
    /\ Registrable(b) /\ policy = "Allow" /\ ActiveHit(h) /\ Vacant(d)
    /\ slots' = [slots EXCEPT ![b] = Duplicate(h, d)]
    /\ inners' = [inners EXCEPT ![d] = NewDuplicate(b, h, slots[activeByHash[h]].inner)]
    /\ registering' = registering \cup {d}
    /\ UNCHANGED <<free, index, resetOnRelease, doomed, presence, absent, policy>>

\* The primary was idle: it is resurrected and held by the duplicate only.
RegisterDuplicateIdle(b, n, d) ==
    LET h == slots[b].hash IN
    /\ Registrable(b) /\ policy = "Allow" /\ Resurrect(h, n) /\ n # d /\ Vacant(d)
    /\ slots' = [slots EXCEPT ![IdleBlock(h)] = Primary(h, n), ![b] = Duplicate(h, d)]
    /\ inners' = [inners EXCEPT ![n] = NewPrimary(IdleBlock(h), h, 0),
                                ![d] = NewDuplicate(b, h, n)]
    /\ registering' = registering \cup {d}
    /\ UNCHANGED <<free, resetOnRelease, doomed, presence, absent, policy>>

\* BlockDuplicationPolicy::Reject: the caller gets the primary and the
\* re-armed guard of its own copy is dropped when the call returns.
RegisterReject(b) ==
    LET h == slots[b].hash IN
    /\ Registrable(b) /\ policy = "Reject" /\ ActiveHit(h)
    /\ LET i == slots[activeByHash[h]].inner
       IN  /\ inners[i].refs < MaxRefs
           /\ inners' = [inners EXCEPT ![i].refs = @ + 1]
    /\ doomed' = doomed \cup {b}
    /\ UNCHANGED <<slots, free, index, resetOnRelease, marks, policy>>

\* The same with an idle block, which the call resurrects.
RegisterRejectIdle(b, n) ==
    LET h == slots[b].hash IN
    /\ Registrable(b) /\ policy = "Reject" /\ Resurrect(h, n)
    /\ slots' = [slots EXCEPT ![IdleBlock(h)] = Primary(h, n)]
    /\ inners' = [inners EXCEPT ![n] = NewPrimary(IdleBlock(h), h, 1)]
    /\ doomed' = doomed \cup {b}
    /\ UNCHANGED <<free, resetOnRelease, marks, policy>>

\* handle.mark_present, after the store mutex is released and before the
\* caller gets its block.
MarkPresent(i) ==
    /\ i \in registering
    /\ registering' = registering \ {i}
    /\ presence' = [presence EXCEPT ![inners[i].hash] = @ + 1]
    /\ UNCHANGED <<slots, free, index, resetOnRelease, inners, doomed, absent, policy>>

MarkAbsent(h) ==
    /\ absent[h] > 0
    /\ absent' = [absent EXCEPT ![h] = @ - 1]
    /\ presence' = [presence EXCEPT ![h] = @ - 1]
    /\ UNCHANGED <<slots, free, index, resetOnRelease, inners, doomed, registering, policy>>

-----------------------------------------------------------------------------
(* Shared handles: ImmutableBlock, LifecyclePinRef, WeakBlock.             *)

\* clone or pin.  (A WeakBlock's upgrade of a live inner has the same effect as
\* MatchActive or this step.)
CloneHandle(i) ==
    /\ UsableRefs(i) > 0 /\ inners[i].refs < MaxRefs
    /\ inners' = [inners EXCEPT ![i].refs = @ + 1]
    /\ UNCHANGED <<slots, free, index, resetOnRelease, doomed, marks, policy>>

\* Mutant: the count is decremented by a handle that was moved away.
DropHandleTwice(i) ==
    /\ UsableRefs(i) > 0
    /\ LET r == inners[i].refs - 2
       IN  inners' = [inners EXCEPT
              ![i].refs = r,
              ![i].phase = IF StillHeld(i, r, NoInner) THEN "live" ELSE "dropping"]
    /\ UNCHANGED <<slots, free, index, resetOnRelease, doomed, marks, policy>>

\* An Arc decrement; the last one leaves the object with its Drop to run.
DropHandle(i) ==
    /\ UsableRefs(i) > 0
    /\ LET r == inners[i].refs - 1
       IN  inners' = [inners EXCEPT
              ![i].refs = r,
              ![i].phase = IF StillHeld(i, r, NoInner) THEN "live" ELSE "dropping"]
    /\ UNCHANGED <<slots, free, index, resetOnRelease, doomed, marks, policy>>

\* set_evict_on_reset, and set_primary_reset_on_release which follows the
\* keepalive of a duplicate to the canonical block.
SetEvictOnReset(i, value) ==
    /\ UsableRefs(i) > 0
    /\ resetOnRelease' = [resetOnRelease EXCEPT ![inners[i].block] = value]
    /\ UNCHANGED <<slots, free, index, inners, doomed, marks, policy>>

CanonicalBlock(i) == IF inners[i].keep = NoInner THEN inners[i].block
                     ELSE inners[inners[i].keep].block

SetPrimaryResetOnRelease(i, value) ==
    /\ UsableRefs(i) > 0
    /\ resetOnRelease' = [resetOnRelease EXCEPT ![CanonicalBlock(i)] = value]
    /\ UNCHANGED <<slots, free, index, inners, doomed, marks, policy>>

\* Mutants of the release: the hash stays mapped to a block that was reset; the
\* override is not consulted; the slot's identity is not checked.
Release(i, mine, reset, unmap) ==
    LET b == inners[i].block
        h == inners[i].hash
    IN
    /\ inners[i].phase = "dropping" /\ inners[i].primary
    /\ inners' = [inners EXCEPT ![i] = NoObject]
    /\ IF mine
       THEN /\ activeByHash' = [activeByHash EXCEPT ![h] = IF unmap THEN NoBlock ELSE @]
            /\ reset => absent[h] < MaxPending
            /\ slots' = [slots EXCEPT ![b] = IF reset THEN Reset ELSE Inactive(h)]
            /\ free' = [free EXCEPT ![b] = IF reset THEN @ + 1 ELSE @]
            /\ absent' = [absent EXCEPT ![h] = IF reset THEN @ + 1 ELSE @]
            /\ inactive' = [inactive EXCEPT ![h] = IF reset THEN @ ELSE b]
       ELSE UNCHANGED <<slots, free, index, absent>>
    /\ UNCHANGED <<resetOnRelease, doomed, registering, presence, policy>>
IsMine(i) == slots[inners[i].block].state = "Primary" /\ slots[inners[i].block].inner = i
ReleasePrimaryMapped(i) ==
    LET reset == resetOnRelease[inners[i].block]
    IN  inners[i].block \in Block /\ Release(i, IsMine(i), reset, ~reset)
ReleasePrimaryCaching(i) == inners[i].block \in Block /\ Release(i, IsMine(i), FALSE, TRUE)
ReleasePrimaryAnyOwner(i) ==
    inners[i].block \in Block /\ Release(i, TRUE, resetOnRelease[inners[i].block], TRUE)

\* release_primary, identity-checked: a lookup may have moved the slot on.
ReleasePrimary(i) ==
    LET b == inners[i].block
        h == inners[i].hash
    IN
    /\ inners[i].phase = "dropping" /\ inners[i].primary
    /\ inners' = [inners EXCEPT ![i] = NoObject]
    /\ \/ /\ slots[b].state = "Primary" /\ slots[b].inner = i
          /\ activeByHash' = [activeByHash EXCEPT ![h] = NoBlock]
          /\ \/ /\ resetOnRelease[b] /\ absent[h] < MaxPending
                /\ slots' = [slots EXCEPT ![b] = Reset]
                /\ free' = [free EXCEPT ![b] = @ + 1]
                /\ absent' = [absent EXCEPT ![h] = @ + 1]
                /\ UNCHANGED inactive
             \/ /\ ~resetOnRelease[b]
                /\ slots' = [slots EXCEPT ![b] = Inactive(h)]
                /\ inactive' = [inactive EXCEPT ![h] = b]
                /\ UNCHANGED <<free, absent>>
       \/ /\ ~(slots[b].state = "Primary" /\ slots[b].inner = i)
          /\ UNCHANGED <<slots, free, index, absent>>
    /\ UNCHANGED <<resetOnRelease, doomed, registering, presence, policy>>

\* release_duplicate; the keepalive is a field and is dropped afterwards.
ReleaseDuplicate(i) ==
    LET b == inners[i].block IN
    /\ inners[i].phase = "dropping" /\ ~inners[i].primary
    /\ inners' = [inners EXCEPT ![i].phase = "released"]
    /\ \/ /\ slots[b].state = "Duplicate" /\ slots[b].inner = i
          /\ absent[inners[i].hash] < MaxPending
          /\ slots' = [slots EXCEPT ![b] = Reset]
          /\ free' = [free EXCEPT ![b] = @ + 1]
          /\ absent' = [absent EXCEPT ![inners[i].hash] = @ + 1]
       \/ /\ ~(slots[b].state = "Duplicate" /\ slots[b].inner = i)
          /\ UNCHANGED <<slots, free, absent>>
    /\ UNCHANGED <<index, resetOnRelease, doomed, registering, presence, policy>>

\* Mutant: the field is forgotten instead of dropped.
DropKeepaliveLeaked(d) ==
    /\ inners[d].phase = "released"
    /\ inners' = [inners EXCEPT ![d] = NoObject]
    /\ UNCHANGED <<slots, free, index, resetOnRelease, doomed, marks, policy>>

DropKeepalive(d) ==
    LET p == inners[d].keep IN
    /\ inners[d].phase = "released"
    /\ inners' = [inners EXCEPT
          ![d] = NoObject,
          ![p].phase = IF StillHeld(p, inners[p].refs, d) THEN "live" ELSE "dropping"]
    /\ UNCHANGED <<slots, free, index, resetOnRelease, doomed, marks, policy>>

-----------------------------------------------------------------------------
Next ==
    \/ \E S \in SUBSET Block : Allocate(S)
    \/ DrainInactive
    \/ \E b \in Block : \/ \E h \in Hash : Stage(b, h)
                        \/ ResetComplete(b)
                        \/ DropGuard(b)
                        \/ RegisterReject(b)
    \/ \E b \in Block, n \in Inner : \/ RegisterFresh(b, n)
                                     \/ RegisterDuplicate(b, n)
                                     \/ RegisterRejectIdle(b, n)
                                     \/ \E d \in Inner : RegisterDuplicateIdle(b, n, d)
    \/ \E h \in Hash : \/ MatchActive(h)
                       \/ MarkAbsent(h)
                       \/ \E n \in Inner : MatchIdle(h, n)
    \/ \E i \in Inner : \/ MarkPresent(i)
                        \/ CloneHandle(i)
                        \/ DropHandle(i)
                        \/ ReleasePrimary(i)
                        \/ ReleaseDuplicate(i)
                        \/ DropKeepalive(i)
                        \/ \E v \in BOOLEAN : \/ SetEvictOnReset(i, v)
                                              \/ SetPrimaryResetOnRelease(i, v)

Spec == Init /\ [][Next]_vars

\* Once an Arc's count has reached zero its thread runs the Drop to the end,
\* and a call in progress finishes.  Nothing forces a caller to drop a handle.
Fairness ==
    /\ \A i \in Inner : WF_vars(ReleasePrimary(i)) /\ WF_vars(ReleaseDuplicate(i))
    /\ \A i \in Inner : WF_vars(DropKeepalive(i)) /\ WF_vars(MarkPresent(i))
    /\ \A h \in Hash : WF_vars(MarkAbsent(h))
    /\ \A b \in Block : WF_vars(b \in doomed /\ DropGuard(b))

FairSpec == Spec /\ Fairness
-----------------------------------------------------------------------------
(* What the store promises.                                                *)

\* Every field of the store has its type; in particular the deque never counts a
\* block below zero and no inner is cloned past the bound.
TypeOK ==
    /\ slots \in [Block -> [state : SlotStates, hash : Hash \cup {NoHash},
                            inner : Inner \cup {NoInner}]]
    /\ free \in [Block -> Nat]
    /\ inactive \in [Hash -> Block \cup {NoBlock}]
    /\ activeByHash \in [Hash -> Block \cup {NoBlock}]
    /\ resetOnRelease \in [Block -> BOOLEAN]
    /\ inners \in [Inner -> InnerRecord]
    /\ doomed \subseteq Block /\ registering \subseteq Inner
    /\ presence \in [Hash -> Int] /\ absent \in [Hash -> Nat]
    /\ policy \in {"Allow", "Reject"}

\* The three pools agree with the slots: a block is in the free deque once
\* exactly when its slot is Reset, and a hash is indexed as active (inactive)
\* exactly for its Primary (Inactive) slot.  This is what keeps the panics of
\* acquire_for_hash_locked ("active_by_hash[..] but slot is ..") and of
\* take_inactive_handle ("expected Inactive state") and the LRU backend's
\* capacity assertion from firing.
PoolsAgree ==
    /\ \A b \in Block : free[b] = IF slots[b].state = "Reset" THEN 1 ELSE 0
    /\ \A h \in Hash, b \in Block :
          /\ activeByHash[h] = b <=> (slots[b].state = "Primary" /\ slots[b].hash = h)
          /\ inactive[h] = b <=> (slots[b].state = "Inactive" /\ slots[b].hash = h)

\* A registered hash is in one of the two indexes, never in both: no lookup
\* can find a second canonical block for it.
OneCanonicalBlock ==
    \A h \in Hash : activeByHash[h] = NoBlock \/ inactive[h] = NoBlock

\* A handle is the authority on its block: while any strong reference to an
\* inner exists, the slot is registered under that inner's hash and belongs to
\* that very inner (ImmutableBlockInner, LifecyclePin "will not be recycled").
HeldSlotsBelong ==
    \A i \in Inner : Live(i) =>
        LET s == slots[inners[i].block]
        IN  /\ s.inner = i /\ s.hash = inners[i].hash
            /\ s.state = IF inners[i].primary THEN "Primary" ELSE "Duplicate"

\* The keepalive of a duplicate works through every step of its own drop:
\* the primary it points to is live and canonical for the same hash, so it is
\* neither evicted nor replaced (immutable.rs: "the primary cannot be evicted
\* while a duplicate exists").
DuplicatePinsPrimary ==
    \A d \in Inner : inners[d].keep # NoInner =>
        LET p == inners[d].keep
        IN  /\ Live(p) /\ inners[p].primary
            /\ inners[p].hash = inners[d].hash
            /\ activeByHash[inners[d].hash] = inners[p].block

\* A block whose holder opted out of caching never becomes evictable cache,
\* even when a lookup beats release_primary to the mutex: the override rides
\* through the eager Primary -> Inactive -> Primary transition.
OptOutNeverCached ==
    \A b \in Block : slots[b].state = "Inactive" => ~resetOnRelease[b]

\* The registry's presence count is exact up to the calls in flight, so
\* mark_absent never finds a missing marker (handle.rs debug_assert).
Bearing(h) == {b \in Block : /\ slots[b].state \in {"Primary", "Duplicate", "Inactive"}
                             /\ slots[b].hash = h}
PresenceIsShadow ==
    \A h \in Hash :
        /\ presence[h] = Cardinality(Bearing(h)) + absent[h]
                           - Cardinality({i \in registering : inners[i].hash = h})
        /\ absent[h] > 0 => presence[h] > 0

\* No step takes a block away from its holders: an inner that is live before
\* and after a step has the same slot content (block, hash, role) throughout.
HeldBlockStable ==
    [][\A i \in Inner :
         (Live(i) /\ inners'[i].phase \in {"live", "dropping"}) =>
            /\ inners'[i].block = inners[i].block
            /\ slots'[inners[i].block] = slots[inners[i].block]]_vars

\* Nothing leaks: a registered block that no caller can reach any more (no
\* handle anywhere) goes back to a pool, whichever drops, keepalives and
\* lookups are still in flight, unless a lookup hands out a handle again.
UnreachableBlocksReturn ==
    \A b \in Block :
        (slots[b].state \in {"Primary", "Duplicate"} /\ \A i \in Inner : inners[i].refs = 0)
            ~> (slots[b].state \in {"Reset", "Inactive"} \/ \E i \in Inner : inners[i].refs > 0)

\* The store implements the abstract prefix cache: what each slot state means
\* to the code above it.
Use(b) == CASE slots[b].state = "Reset" -> "free"
            [] slots[b].state \in {"Mutable", "Staged"} -> "exclusive"
            [] slots[b].state = "Primary" -> "shared"
            [] slots[b].state = "Duplicate" -> "copy"
            [] slots[b].state = "Inactive" -> "cached"
Key(b) == IF slots[b].state = "Staged" THEN NoHash ELSE slots[b].hash

Cache == INSTANCE PrefixCache WITH use <- [b \in Block |-> Use(b)],
                                   key <- [b \in Block |-> Key(b)]
CacheSpec == Cache!Spec
=============================================================================
