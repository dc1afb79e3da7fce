----------------------------- MODULE EntitledPool -----------------------------
(***************************************************************************)
(* The arbitration of one rank's block pool between its scheduler thread   *)
(* and the resolve tasks (pegainfer-kv-store pool.rs and the page side of  *)
(* store.rs resolve_prefix; the calls in the order of the glm52 admission, *)
(* scheduler/admission.rs).                                                *)
(*                                                                         *)
(* A resolve task probes the prefix cache and pins what it hits, reserves  *)
(* blocks for a host-tier load, registers what was loaded, and hands the   *)
(* pins on with the request.  The scheduler thread admits a request for    *)
(* its whole lifetime, matches its prefix, draws, registers, reverts and   *)
(* releases.  "entitled" counts blocks promised to admitted requests and   *)
(* not yet drawn; the reserve gate serialises what trades availability     *)
(* against it.  The probe does not take the gate.                          *)
(*                                                                         *)
(* The block manager is the one of BlockStore under the Allow policy, at   *)
(* the grain the pool sees: which blocks are pinned, which hold content.   *)
(* A request's positions are counted in blocks; SchedulableSequence shows  *)
(* that a sequence never draws beyond its lifetime.                        *)
(***************************************************************************)
EXTENDS Integers, Sequences, FiniteSets, FiniteSetsExt

CONSTANTS Req, NoReq,
          Block, NoBlock,
          NoHash,
          Chain,     \* Req -> content of its blocks, those it will generate included
          Prompt,    \* Req -> complete blocks of its prompt
          Cap,       \* Req -> prompt blocks it may reuse (PrefixProbe::cacheable)
          Life,      \* Req -> lifetime_blocks
          Cached     \* content earlier requests may have left in the cache

Hash == UNION {{Chain[r][i] : i \in 1..Len(Chain[r])} : r \in Req}

ASSUME PoolAssumption ==
    /\ NoReq \notin Req /\ NoBlock \notin Block /\ NoHash \notin Hash
    /\ IsFiniteSet(Req) /\ IsFiniteSet(Block)
    /\ \A r \in Req :
           /\ Chain[r] \in Seq(Hash) /\ {Cap[r], Prompt[r], Life[r]} \subseteq Nat
           /\ Cap[r] <= Prompt[r] /\ Prompt[r] <= Len(Chain[r]) /\ Len(Chain[r]) <= Life[r]
    /\ Cached \subseteq Hash

VARIABLES
    content,     \* Block -> the hash it is registered under
    primary,     \* Block -> the canonical block a duplicate pins
    stage,       \* Req -> where the request is
    hold,        \* Req -> blocks its PrefixProbe pins, in prefix order
    reserved,    \* Req -> blocks of its LoadReservation, with the load task
    assigned,    \* Req -> registered blocks of its sequence
    drawn,       \* Req -> mutable blocks of its sequence
    admitted,    \* Req -> EntitledSeq::admitted
    entitled,    \* BlockPool::entitled
    gate,        \* who holds the reserve gate between its check and its act
    want         \* the count that check was made for

vars == <<content, primary, stage, hold, reserved, assigned, drawn, admitted, entitled, gate, want>>
store == <<content, primary>>

\* The resolve task owns a request up to "queued", the scheduler thread after.
\* "reserving": gate held; "leased": blocks reserved, copy not started.
Stages == {"new", "probed", "reserving", "leased", "loading", "committing", "queued",
           "admitted", "matched", "running", "retired", "done"}

Ran(s) == {s[i] : i \in 1..Len(s)}

\* Pinned blocks: every guard alive, and the canonical block behind a duplicate.
Direct(h, v, a, d) == UNION {Ran(h[r]) \cup v[r] \cup Ran(a[r]) \cup Ran(d[r]) : r \in Req}
Behind(S, p) == {p[b] : b \in S} \ {NoBlock}
Pinned(h, v, a, d, p) == Direct(h, v, a, d) \cup Behind(Direct(h, v, a, d), p)

\* available_blocks: reset plus inactive.
Available == Block \ Pinned(hold, reserved, assigned, drawn, primary)

Resident(r) == Len(assigned[r]) + Len(drawn[r])
Remaining(r) == Life[r] - Resident(r)

Init ==
    /\ \E f \in [Block -> Cached \cup {NoHash}] :
           /\ \A a, b \in Block : a # b /\ f[a] = f[b] => f[a] = NoHash
           /\ content = f
    /\ primary = [b \in Block |-> NoBlock]
    /\ stage = [r \in Req |-> "new"]
    /\ hold = [r \in Req |-> <<>>] /\ reserved = [r \in Req |-> {}]
    /\ assigned = [r \in Req |-> <<>>] /\ drawn = [r \in Req |-> <<>>]
    /\ admitted = [r \in Req |-> FALSE] /\ entitled = 0
    /\ gate = NoReq /\ want = 0

-----------------------------------------------------------------------------
(* The block manager *)

Canonical(h) == {b \in Block : content[b] = h /\ primary[b] = NoBlock}

\* match_blocks: the longest run of leading hashes with a canonical block.
Hits(r, n) ==
    LET len == Max({0} \cup {k \in 1..n : \A i \in 1..k : Canonical(Chain[r][i]) # {}})
    IN [i \in 1..len |-> CHOOSE b \in Canonical(Chain[r][i]) : TRUE]

\* allocate_blocks: reset blocks first, then inactive ones lose their content.
Allocation(k) ==
    LET free == {b \in Available : content[b] = NoHash}
    IN {S \in SUBSET Available : Cardinality(S) = k /\ (S \subseteq free \/ free \subseteq S)}

Wipe(S) == content' = [b \in Block |-> IF b \in S THEN NoHash ELSE content[b]]

\* Guards dropped: a duplicate nobody pins is reset, a canonical block keeps
\* its content and becomes inactive.
DropTo(h, v, a, d) ==
    LET live == Direct(h, v, a, d)
        gone == {b \in Block : primary[b] # NoBlock /\ b \notin live}
    IN /\ Wipe(gone)
       /\ primary' = [b \in Block |-> IF b \in gone THEN NoBlock ELSE primary[b]]

\* register_block under Allow: the first block of a hash becomes canonical, a
\* later one a duplicate that pins it, inactive or not.
Register(b, h) ==
    LET c == Canonical(h)
    IN /\ content' = [content EXCEPT ![b] = h]
       /\ primary' = [primary EXCEPT ![b] = IF c = {} THEN NoBlock ELSE CHOOSE x \in c : TRUE]

EvictInactive ==
    /\ Wipe(Available)
    /\ UNCHANGED <<primary, stage, hold, reserved, assigned, drawn, admitted, entitled, gate, want>>

-----------------------------------------------------------------------------
(* The resolve task of a request *)

Goto(r, s) == stage' = [stage EXCEPT ![r] = s]
account == <<admitted, entitled>>
turn == <<gate, want>>

\* probe_prefix_with_cache_salt: no gate.
ProbePrefix(r) ==
    /\ stage[r] = "new"
    /\ hold' = [hold EXCEPT ![r] = Hits(r, Prompt[r])]
    /\ Goto(r, "probed")
    /\ UNCHANGED <<store, reserved, assigned, drawn, account, turn>>

\* reserve_loaded_blocks for a host hit of n blocks: the check, under the gate.
\* A decline leaves the task where it is, to query again or to conclude.
ReserveCheck(r, n) ==
    /\ stage[r] = "probed" /\ gate = NoReq
    /\ n \in 1..(Cap[r] - Len(hold[r]))
    /\ Cardinality(Available) >= n + Max({entitled, 0})
    /\ Goto(r, "reserving") /\ gate' = r /\ want' = n
    /\ UNCHANGED <<store, hold, reserved, assigned, drawn, account>>

\* Its allocation; a probe may have pinned the blocks since the check.
ReserveTake(r) ==
    /\ stage[r] = "reserving"
    /\ \/ \E S \in Allocation(want) :
              /\ reserved' = [reserved EXCEPT ![r] = S]
              /\ Wipe(S) /\ Goto(r, "leased")
       \/ /\ Allocation(want) = {}
          /\ Goto(r, "probed")
          /\ UNCHANGED <<reserved, content>>
    /\ gate' = NoReq /\ want' = 0
    /\ UNCHANGED <<primary, hold, assigned, drawn, account>>

StartLoad(r) ==
    /\ stage[r] = "leased"
    /\ Goto(r, "loading")
    /\ UNCHANGED <<store, hold, reserved, assigned, drawn, account, turn>>

\* The tier failed the load: the reservation is dropped.
LoadFails(r) ==
    /\ stage[r] = "loading"
    /\ reserved' = [reserved EXCEPT ![r] = {}]
    /\ Goto(r, "committing")
    /\ UNCHANGED <<store, hold, assigned, drawn, account, turn>>

\* commit_loaded_blocks, one register_block at a time.
CommitLoaded(r) ==
    /\ stage[r] \in {"loading", "committing"}
    /\ \E b \in reserved[r] :
           /\ Register(b, Chain[r][Len(hold[r]) + 1])
           /\ hold' = [hold EXCEPT ![r] = Append(@, b)]
           /\ reserved' = [reserved EXCEPT ![r] = @ \ {b}]
    /\ Goto(r, "committing")
    /\ UNCHANGED <<assigned, drawn, account, turn>>

\* Mutant: pins past the reuse cap are kept.
FinishKeepsAll(r) ==
    /\ \/ stage[r] = "probed"
       \/ stage[r] = "loading"
       \/ stage[r] = "committing" /\ reserved[r] = {}
    /\ Goto(r, "queued")
    /\ UNCHANGED <<store, hold, reserved, assigned, drawn, account, turn>>

\* finish: degraded or complete, and from "loading" at the deadline, which
\* leaves the reservation to the detached load task.
Finish(r) ==
    /\ \/ stage[r] = "probed"
       \/ stage[r] = "loading"
       \/ stage[r] = "committing" /\ reserved[r] = {}
    /\ hold' = [hold EXCEPT ![r] = SubSeq(@, 1, Min({Len(@), Cap[r]}))]
    /\ DropTo(hold', reserved, assigned, drawn)
    /\ Goto(r, "queued")
    /\ UNCHANGED <<reserved, assigned, drawn, account, turn>>

\* The detached task's copy settles after the wait was abandoned.
LateLoadSettles(r) ==
    /\ stage[r] \notin {"leased", "loading", "committing"} /\ reserved[r] # {}
    /\ reserved' = [reserved EXCEPT ![r] = {}]
    /\ UNCHANGED <<store, stage, hold, assigned, drawn, account, turn>>

\* The client went away: seen by the resolve task before the load starts, or
\* by admission at the front of the queue.
Cancel(r) ==
    /\ stage[r] \in {"new", "probed", "leased", "queued"}
    /\ hold' = [hold EXCEPT ![r] = <<>>]
    /\ reserved' = [reserved EXCEPT ![r] = IF stage[r] = "leased" THEN {} ELSE @]
    /\ DropTo(hold', reserved', assigned, drawn)
    /\ Goto(r, "done")
    /\ UNCHANGED <<assigned, drawn, account, turn>>

-----------------------------------------------------------------------------
(* The scheduler thread: one request is taken through admission at a time *)

Admitting == {q \in Req : stage[q] \in {"admitted", "matched"}}
SchedulerFree == Admitting = {}

\* The admission budget of r: the lifetimes of the occupied slots and its own
\* fit the pool, and what is physically left covers what is still owed.
Committed == MapThenSumSet(LAMBDA q : Life[q],
                           {q \in Req : stage[q] \in {"admitted", "matched", "running"}})
Fits(r) ==
    /\ Committed + Life[r] <= Cardinality(Block)
    /\ Cardinality(Available) + Len(hold[r]) >= Max({entitled, 0}) + Remaining(r)

\* A hold behind a stalled front is shed: its blocks stay matchable, evictable.
Shed(r) ==
    /\ SchedulerFree
    /\ stage[r] = "queued" /\ hold[r] # <<>>
    /\ \E front \in Req \ {r} : stage[front] = "queued" /\ ~Fits(front)
    /\ hold' = [hold EXCEPT ![r] = <<>>]
    /\ DropTo(hold', reserved, assigned, drawn)
    /\ UNCHANGED <<stage, reserved, assigned, drawn, account, turn>>

\* Mutant: admission does not wait for the reserve gate.
TryAdmitUngated(r) ==
    /\ SchedulerFree
    /\ stage[r] = "queued" /\ Fits(r)
    /\ admitted' = [admitted EXCEPT ![r] = TRUE]
    /\ entitled' = entitled + Remaining(r)
    /\ Goto(r, "admitted")
    /\ UNCHANGED <<store, hold, reserved, assigned, drawn, turn>>

\* try_admit with the hold as credit.
TryAdmit(r) ==
    /\ SchedulerFree /\ gate = NoReq
    /\ stage[r] = "queued" /\ Fits(r)
    /\ admitted' = [admitted EXCEPT ![r] = TRUE]
    /\ entitled' = entitled + Remaining(r)
    /\ Goto(r, "admitted")
    /\ UNCHANGED <<store, hold, reserved, assigned, drawn, turn>>

\* match_and_add_prefix, like every later move of the sequence, inside
\* with_draw: under the gate, the resident delta settled with it.
MatchPrefix(r) ==
    /\ stage[r] = "admitted" /\ gate = NoReq
    /\ assigned' = [assigned EXCEPT ![r] = Hits(r, Cap[r])]
    /\ entitled' = entitled - Len(assigned'[r])
    /\ Goto(r, "matched")
    /\ UNCHANGED <<store, hold, reserved, drawn, admitted, turn>>

DropHold(r) ==
    /\ stage[r] = "matched"
    /\ hold' = [hold EXCEPT ![r] = <<>>]
    /\ DropTo(hold', reserved, assigned, drawn)
    /\ Goto(r, "running")
    /\ UNCHANGED <<reserved, assigned, drawn, account, turn>>

\* schedule_*: k blocks, in an order the allocator picks.
Draw(r, k) ==
    /\ SchedulerFree /\ gate = NoReq
    /\ stage[r] = "running" /\ k \in 1..Remaining(r)
    /\ \E S \in Allocation(k) :
           /\ \E order \in {q \in [1..k -> S] : \A i, j \in 1..k : i # j => q[i] # q[j]} :
                  drawn' = [drawn EXCEPT ![r] = @ \o order]
           /\ Wipe(S)
    /\ entitled' = entitled - k
    /\ UNCHANGED <<primary, stage, hold, reserved, assigned, admitted, turn>>

\* apply_*: the oldest drawn block is complete and is registered.
RegisterDrawn(r) ==
    /\ SchedulerFree /\ gate = NoReq
    /\ stage[r] = "running" /\ drawn[r] # <<>>
    /\ Len(assigned[r]) < Len(Chain[r])
    /\ Register(Head(drawn[r]), Chain[r][Len(assigned[r]) + 1])
    /\ assigned' = [assigned EXCEPT ![r] = Append(@, Head(drawn[r]))]
    /\ drawn' = [drawn EXCEPT ![r] = Tail(@)]
    /\ UNCHANGED <<stage, hold, reserved, account, turn>>

\* Mutant: the blocks return and the refund is forgotten.
ReturnDrawnKeepsCounter(r, k) ==
    /\ SchedulerFree /\ gate = NoReq
    /\ stage[r] = "running" /\ k \in 1..Len(drawn[r])
    /\ drawn' = [drawn EXCEPT ![r] = SubSeq(@, 1, Len(@) - k)]
    /\ UNCHANGED <<store, stage, hold, reserved, assigned, admitted, entitled, turn>>

\* revert_schedule and rejected drafts: the newest k blocks go back.
ReturnDrawn(r, k) ==
    /\ SchedulerFree /\ gate = NoReq
    /\ stage[r] = "running" /\ k \in 1..Len(drawn[r])
    /\ drawn' = [drawn EXCEPT ![r] = SubSeq(@, 1, Len(@) - k)]
    /\ entitled' = entitled + k
    /\ UNCHANGED <<store, stage, hold, reserved, assigned, admitted, turn>>

\* Mutant: the whole lifetime is refunded.
RetireRefundsLife(r) ==
    /\ SchedulerFree /\ stage[r] = "running"
    /\ admitted' = [admitted EXCEPT ![r] = FALSE]
    /\ entitled' = entitled - Life[r]
    /\ Goto(r, "retired")
    /\ UNCHANGED <<store, hold, reserved, assigned, drawn, turn>>

\* release: the remainder is refunded first, without the gate ...
Retire(r) ==
    /\ SchedulerFree /\ stage[r] = "running"
    /\ admitted' = [admitted EXCEPT ![r] = FALSE]
    /\ entitled' = entitled - Remaining(r)
    /\ Goto(r, "retired")
    /\ UNCHANGED <<store, hold, reserved, assigned, drawn, turn>>

\* ... then the blocks go.
Release(r) ==
    /\ stage[r] = "retired"
    /\ assigned' = [assigned EXCEPT ![r] = <<>>] /\ drawn' = [drawn EXCEPT ![r] = <<>>]
    /\ DropTo(hold, reserved, assigned', drawn')
    /\ Goto(r, "done")
    /\ UNCHANGED <<hold, reserved, account, turn>>

Counts == 1..Cardinality(Block)

Next ==
    \/ EvictInactive
    \/ \E r \in Req :
           \/ ProbePrefix(r)
           \/ \E n \in Counts : ReserveCheck(r, n)
           \/ ReserveTake(r)
           \/ StartLoad(r)
           \/ LoadFails(r)
           \/ CommitLoaded(r)
           \/ Finish(r)
           \/ LateLoadSettles(r)
           \/ Cancel(r)
           \/ Shed(r)
           \/ TryAdmit(r)
           \/ MatchPrefix(r)
           \/ DropHold(r)
           \/ \E k \in Counts : Draw(r, k)
           \/ RegisterDrawn(r)
           \/ \E k \in Counts : ReturnDrawn(r, k)
           \/ Retire(r)
           \/ Release(r)

Spec == Init /\ [][Next]_vars

-----------------------------------------------------------------------------
(* Properties *)

\* Types: no sequence holds more than its lifetime, and the counter, signed in
\* the code and clamped at zero by its reader, is never negative.
TypeOK ==
    /\ content \in [Block -> Hash \cup {NoHash}]
    /\ primary \in [Block -> Block \cup {NoBlock}]
    /\ stage \in [Req -> Stages]
    /\ hold \in [Req -> Seq(Block)] /\ reserved \in [Req -> SUBSET Block]
    /\ assigned \in [Req -> Seq(Block)] /\ drawn \in [Req -> Seq(Block)]
    /\ \A r \in Req : Resident(r) <= Life[r]
    /\ admitted \in [Req -> BOOLEAN]
    /\ entitled \in Nat
    /\ gate \in Req \cup {NoReq} /\ want \in 0..Cardinality(Block)

\* BlockPool::entitled is what its comment says, at every moment another thread
\* can read it: the number of blocks that admitted requests may still draw.
Promised == UNION {{q} \X (1..Remaining(q)) : q \in {p \in Req : admitted[p]}}
CounterExact == entitled = Cardinality(Promised)

\* What resolve_prefix's hold was credited for at admission, the match redeems:
\* the request never ends up owed more than the check left for it.
CreditRedeemed ==
    \A r \in Req : stage[r] = "matched" => Len(assigned[r]) >= Len(hold[r])

\* Blocks no reservation and no sequence owns: free, cached, pinned by a hold,
\* or canonical behind a duplicate.
Unowned == Block \ UNION {reserved[r] \cup Ran(assigned[r]) \cup Ran(drawn[r]) : r \in Req}
\* Holds credited at an admission and not yet matched.
CreditPending ==
    Cardinality(UNION {{q} \X (1..Len(hold[q])) : q \in {p \in Req : stage[p] = "admitted"}})

\* The floor: reservations and sequences never eat into what admitted requests
\* are owed, whatever the interleaving of reserves, admissions and returns.
FloorCovered == Cardinality(Unowned) + CreditPending >= entitled

\* Stronger, and what pool.rs promises: an admitted request can draw all it is
\* still owed, now.
AdmittedDrawSucceeds ==
    \A r \in Req : stage[r] = "running" => Cardinality(Available) >= Remaining(r)
=============================================================================
