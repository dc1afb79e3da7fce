# pegainfer: a verification project for the serving control plane

pegainfer is an LLM inference server in Rust. A request enters through an HTTP
frontend, becomes an envelope on a scheduler's channel, draws KV-cache blocks
from a pool, is prefilled and decoded on the GPU in steps, and streams tokens
back. The numbers the kernels compute are not the subject of this project. The
subject is the control around them: who owns a cache block, under which hash
others may find it, how many blocks a request may still claim, and what a client
has been told when its stream ends. These are the places where threads, drops
and panics meet, and where a unit test sees one schedule of many.

## 1. Inventory

### 1.1 The path of a request

1. `pegainfer-frontend` accepts it. The vLLM bridge (`vllm/bridge/stepped.rs`)
   gives it an id, keeps a stream for it and sends an envelope through
   `SchedulerHandle` (`engine/wiring.rs`).
2. The driver thread (`engine/driver.rs`) drains envelopes into the ledger
   (`engine/ledger.rs`) and the model's scheduler, calls `step`, and commits one
   message with what the step did for each request.
3. On the kv-store line (glm52) a resolve task first looks for the prompt's prefix:
   `KvStore::resolve_prefix` probes the block manager, reserves pages, loads what
   the host tier has and commits it. The scheduler then admits the request with
   its whole lifetime reserved (`RequestKv::try_admit`).
4. Every step draws blocks (`SchedulableSequence::schedule_*`), runs the forward
   pass and applies it (`apply_*`), which publishes complete blocks by hash.
5. All blocks live in the logical store of `kvbm-logical` (`pools/store.rs`),
   held by RAII guards whose `Drop` runs on whatever thread drops them; hashes
   are registered in `registry/`, which also emits cache events.

### 1.2 Components

| component | state | operations | hard because | correct when | module |
|---|---|---|---|---|---|
| logical block store (`kvbm-logical/pools`, `blocks`, `manager`) | one slot per block, free deque, active and inactive hash index under one mutex; strong and weak references outside it | allocate, stage, complete, register, match, clone, pin, drop, drain | an `Arc` is dead before its `Drop` has the mutex; a duplicate's keepalive goes after its own release; presence marks come after the unlock | a block is in one pool, a hash has one canonical block, held blocks do not move, nothing leaks | `BlockStore`, refining `PrefixCache` |
| block registry and cache events (`registry`, `events`) | hash to `Weak` handle per position, attachments | register, match, transfer, drop, Create/Remove | the same gap in the handle's `Drop`, and a second one before its fields go | one live handle per hash, events balanced | `BlockRegistry` |
| schedulable sequence (`integrations/scheduled.rs`, `request.rs`) | token, KV and prefill positions, assigned and mutable blocks, scheduled operation | match, schedule, apply, revert, pad, adopt, release | four step kinds over one arithmetic of block boundaries | never above its lifetime, pages cover the step, only computed blocks published | `SchedulableSequence` |
| entitled pool (`pegainfer-kv-store/pool.rs`) | entitled counter, reserve gate, guards of every request | probe, reserve, commit, admit, draw, return, release | the resolve tasks and the scheduler trade the same blocks | an admitted request's draw succeeds | `EntitledPool` |
| KV store (`store.rs`, `tier.rs`, `host.rs`, `pegainfer-kv-offload`) | tier leases, in-flight copies, pinned counter, save guards | resolve, seal, retire, flush | deadlines race copies; detached tasks | a lease and a page are released once, after the copy | resolve's page side in `EntitledPool`; leases, deadlines, saves and flush in `Glm52Engine` |
| step contract (`engine/`) | accounts, statement, envelopes, deferred finishes, exit token | register, admit, push, finish, fail, retire, defer, commit, drop | the driver may fail, unwind or be shut down at any point | one answer per request, in order, from somebody | `StepContract` |
| stepped bridge (`vllm/bridge/stepped.rs`) | name to id, id to stream, notes held back | add, abort, dispatch, shut down | reused wire ids, exit racing the last steps | a client gets its own tokens and one end | `StepContract` |
| glm52 scheduler | submit and ready channels, pending queue, slots, deferred releases, leased shape | intake, admit, shed, bypass, defer, submit a step, apply, teardown | holds and saves wait on pages; a step is launched before its predecessor is read | admitted draws succeed, every request is answered, no memory is freed under a copy | `Glm52Engine`; the plain admission's pool calls also in `EntitledPool` |
| k3 scheduler, whale rendezvous, gang board | launch counts, queue, slots, sequencer and member, job board | admit, post, gather, commit, cancel, level, enter, decode | free-running ranks agree on a launch while every launch needs all of them | all enter at the same launch, or none; nobody waits for ever | `K3Scheduler` |
| qwen3, qwen35, kimi-k2 schedulers | queues, slots, plans, ranks | admit, plan, resolve, step | overlap of prefill and decode; ranks in lock-step | no starvation, ranks agree | not modelled, see 7 |
| legacy bridge and handle (`vllm/bridge.rs`, `engine/handle.rs`, `sink.rs`) | token-event channels | add, abort, forward | as the stepped bridge, one channel per request | as the stepped bridge | not modelled, see 7 |
| eviction backends, `tinylfu`, event batcher, external assignments, `pegainfer-kv-cache` | trees, sketches, batches | insert, pop, batch | few | order of eviction; no event lost | not modelled, see 7 |
| wire encoding, LoRA registry, history, stop rules, sampler, metrics, simulator, CUDA runtime and kernels, server, benches | | | no interleaving of their own, or numerics | | not modelled |

`PROJECT.json` lists the same components with their source files, and 40 hazards
at the lines where they bite. Its map gives the source lines of every definition.

### 1.3 Interaction

- `SchedulableSequence` calls the block manager for every draw, registration and
  match; the guards it keeps are the handles of `BlockStore`.
- `EntitledPool` is the arbiter above it: it decides when a sequence may start
  and counts what it may still draw. Its picture of the block manager (which
  blocks are pinned, which hold content) is `BlockStore` under the Allow policy at
  a coarser grain, and its bound on a draw is `WithinLifetime` of
  `SchedulableSequence`.
- `BlockStore` and `BlockRegistry` share the hash handles: the store's presence
  marks are updated on the registry's handle outside the store mutex.
- `Glm52Engine` puts the pool under its real client: resolve tasks, the host
  tier and the engine thread. It counts blocks (prompts are disjoint and cold),
  takes a step's draw from `SchedulableSequence`'s arithmetic, and leaves shared
  prefixes and the inside of a reservation to `EntitledPool`.
- `K3Scheduler` is one scheduler of the step contract per rank, with the two
  protocols that bring several ranks into one launch.
- `StepContract` is above all of them and assumes nothing of the scheduler except
  the ledger's own assertions.

## 2. The modules

### 2.1 BlockStore, PrefixCache

`BlockStore` has one action per critical section of `pools/store.rs` and one for
each gap outside the mutex.

| state | code |
|---|---|
| `slots` | `SlotState` of every block, with its hash and its `Weak` |
| `free` | entries of the free deque, counted so that a double release is visible |
| `inactive`, `activeByHash` | the evictable index and the primary map |
| `resetOnRelease` | the per-block reset override |
| `inners` | `ImmutableBlockInner` allocations: phase, block, keepalive, strong handles |
| `doomed` | guards that a returning call is about to drop (a rejected duplicate) |
| `registering`, `presence`, `absent` | `mark_present` and `mark_absent` calls before and after they ran |
| `policy` | the duplication policy, chosen in `Init` and fixed |

`DropHandle` only takes the strong count to zero. `ReleasePrimary` or
`ReleaseDuplicate` is the critical section that follows, and `DropKeepalive` the
field drop after that. Between them `MatchIdle`, `RegisterDuplicateIdle` and
`RegisterRejectIdle` may find the dead `Weak` and resurrect the block, which is
what `acquire_for_hash_locked` does. An address in `Inner` may be used again only
when no slot keeps a `Weak` to it, as with the real allocator: the identity
check of `release_primary` depends on it. Which inactive block is evicted is a
free choice, so the result holds for every backend.

`PrefixCache` is what the store promises: free, exclusive, shared, copy and
cached blocks, with no lock and no handle. A hash has at most one canonical
block, a copy keeps it shared, and a shared block is given up before it can be
written again. `CacheSpec` is `PrefixCache!Spec` under the mapping `Use`, `Key`.

### 2.2 BlockRegistry

`entry` is the `Weak` a hash leads to, `handles` the objects at their addresses,
`balance` the Create minus the Remove events. `DropHandle` takes the count to zero, `Unregister` is the
`Drop` body under the position lock, `Close` the drop of the fields afterwards,
which sends the Remove. `Acquire` and `Register` may run between any two of them.

### 2.3 SchedulableSequence

One sequence, with tokens and blocks as counts. Every public operation that
`RequestKv` forwards is an action: `MatchAndAddPrefix`, `SchedulePrefill`,
`ScheduleDecode`, `ScheduleSpeculative`, their `Apply...`, `RevertSchedule`,
`PadTailBlock`, `AdoptExternalPrefillAnchor`, `Release`. A refused draw and a
failed precondition leave the sequence alone in the code (the error returns
precede every assignment), so neither is a step. Staging and registration happen
in one call (`CompleteAndRegister`), as in `complete_and_register_pending`.
How long a chunk the scheduler grants is the constant `Chunks`.

### 2.4 EntitledPool

Resolve tasks (`ProbePrefix`, `ReserveCheck`, `ReserveTake`, `StartLoad`,
`LoadFails`, `CommitLoaded`, `Finish`, `LateLoadSettles`, `Cancel`) and the
scheduler thread (`Shed`, `TryAdmit`, `MatchPrefix`, `DropHold`, `Draw`,
`RegisterDrawn`, `ReturnDrawn`, `Retire`, `Release`) over one pool. The reserve
gate is held from `ReserveCheck` to `ReserveTake`; the calls of the scheduler
that take it are single steps enabled only while it is free. The probe does not
take it, as in the code. `Shed` follows the order of `admission.rs`: a stalled
front drops holds behind it, and a request that is alone keeps its own.
`EvictInactive` stands for the part of the block manager that no request here
asked for: the cache's content may go at any time it is unpinned.

### 2.5 StepContract

The driver thread is a program counter (`driver`) over drain, step, commit and
four ways to end: a fatal step, a failed commit, a drained shutdown, and a panic. Each
tears down in Rust's drop order: locals in reverse (`DropExitGuard`, then
`DropLedger`, then `DropReceiver` with the envelopes still in the channel). Inside
a step the scheduler makes any ledger calls its assertions let through. The
bridge adds, aborts, dispatches, and ends its loop by shutdown, link failure or
the exit token. Deferred finishes are sent or dropped by other threads at any
time. `out` is a history of what the client was sent; `lost` names the answers a
panic destroyed, so that the rest of the promise can still be stated exactly.

A finish may be bare: `FinishReason::Stop` without a typed cause, which a producer
that suppresses the token it stopped at reports (k3 does). The bridge then appends
the request's stop sentinel to the output (`reduce_update`, `stepped.rs:603`), a token
that no engine pushed and no tally counts (`Suffix`). A request without a sentinel
behaves as if the finish were not bare. The `completion_tokens` of a terminal end at
the bridge: no output carries them, so `out` has no count, and what a terminal counts
is compared with the tokens at the moment the bridge takes it from the stream.

### 2.6 K3Scheduler

Every rank runs one scheduler thread without pause, since a launch is a
collective: it completes only when all ranks have queued the launch of the same
index (`Paired`). `count` is `steps_launched`, `pc` is where the thread is in
`step`. A deployment arms one of two lanes, chosen in `Init`.

| state | code |
|---|---|
| `seqr` | `WhaleSequencer`: next number, committed floor, the whale being gathered with its replies, the queue |
| `up`, `down` | the FIFO links of the hub (`whale_hub.rs`), each message stamped with the launch it must be read by |
| `armed`, `committed` | `WhaleMember` |
| `posted`, `fallback` | `WhaleLane`: the outstanding post, the cancelled one |
| `jobs`, `nextId`, `horizon`, `job` | `GangBoard` and the rank's pass over it (`gang.rs`) |
| `queued`, `free`, `work`, `state`, `toks`, `aborted` | queue, slots, running requests and ledger of the rank |
| `entered` | history: which superstep a rank entered at which launch |

In the whale lane a step drains the mailbox, enters a committed whale if this is
its launch, and admits local prefills only if nothing is armed or committed. The
sequencer answers a request by gathering launch counts, commits to the highest
plus `Slack`, and cancels at a deadline that may fire at any time. In the CP lane
a rank checks in on the board; when all have, those behind the highest count pump
empty launches until they are level, and all compute. The threads of an in-process
gang meet at the barrier in `publish_and_snapshot` before the launch; the exchange
windows afterwards order device work by events, so a superstep's call returns
(`Stitched`) once every member has queued its own launch and it has paired.

`Latency` bounds how many launch periods a hub message may take. The assumption
`2 * Latency + 1 < Slack` is what the code's constant has to satisfy; the instance
is at the bound (`Latency` 1, `Slack` 4), and one launch less of slack breaks
`NeverFatal` (its mutant). `Latency` is at least one period: a message sent during a
launch may be read after the next one even in a single process, whose local hub is
otherwise the same with earlier delivery.

### 2.7 Glm52Engine

One expert-parallel rank of the engine, its KV store and the host tier behind it.

| state | code |
|---|---|
| `submit`, `open`, `closed`, `done` | the submit channel, dropped handles and receivers, what the client was told |
| `task`, `form`, `cached`, `polls` | the resolve task (`resolve_prefix`, `native_pd_resolve`) |
| `query`, `lease`, `load` | the detached tier query, its lease, the detached copy to the device |
| `hold`, `reserved`, `resident`, `guards` | who pins pool pages |
| `pin`, `save` | the store's pinned counter and the copy to the host |
| `ready`, `pending`, `inflight` | `ready_rx`, the queue, `resolves_inflight` |
| `active`, `deferred`, `leased`, `consume`, `expect` | slots, deferred releases, launch-ahead |
| `pos`, `out`, `matched`, `span` | a sequence's positions and the rows in flight |

The engine thread goes through `Intake`, admission (`DropFront`, `Shed`, `Pick`,
`TakePlain`, `TakeNative`, `Defer`, `AdmitEnds`), `StepSubmit`, `StepApply`, and at the end
`FlushLoads` and `FlushSaves`. Intake, the sweep of the queue and the budget are
one step: they touch only what the engine thread owns plus a snapshot that
`try_admit` checks again, and that later check is a step of its own. A deadline
ends a wait, not the work behind it: `QueryDeadline` and `LoadDeadline` leave the
detached query or copy running, and a lease that comes too late is given back by
`LateLease`. A prefill step's span is one token or the rest of the prompt, which
abstracts the planner's budget. Requests are greedy; the tier may miss, fail,
answer too late or after several polls.

## 3. What the runs check

Bounds are constants of the modules: `MaxRefs` (handles cloned from one object),
`MaxPending` (marks in flight per hash), `MaxRequests`, `MaxTokens`, `MaxSteps`
(steps ahead of the bridge), `MaxDraft`, and the sizes of the sets.

| run | instance | checks | result |
|---|---|---|---|
| `store` | 2 blocks, 2 hashes, 3 addresses, `MaxRefs` 2, `MaxPending` 1, both policies | all properties of the store, `CacheSpec`, `UnreachableBlocksReturn` | holds, 356,304 states |
| `registry_safe` | 2 hashes, one of them filtered, 4 addresses | `CanonicalRegistration`, `EventsBalanced`, `DeadEntriesGo` | holds, 11,221 states |
| `sequence_draw` | block size 3, prompts 1..8, budgets 0..7, any chunk, drafts to 4 | `WithinLifetime`, `PagesCoverStep`, `NeverStuck`, `OnlyTailUncomputed` | holds, 5,300 states |
| `sequence_chunk` | block size 2, a prompt of 4, any chunk | `RegisteredMeansComputed` | violated, finding 1 |
| `pool_warm` | 3 requests with a shared prompt, 4 blocks, cached content | `CounterExact`, `CreditRedeemed`, `FloorCovered` | holds, 82,606 states |
| `pool_starve` | 2 requests, shared prompt, cached content | `AdmittedDrawSucceeds` | violated, finding 2 |
| `step_stream` | 1 request, 2 tokens, metadata, echoes and bare stops, 2 steps ahead | `FinishedMeansComplete`, `NothingAfterTheEnd`, `NobodyWaitsInVain` | holds, 233,877 states |
| `step_pair` | 2 requests under one wire id or two, 2 tokens, bare stops | `OneAnswer`, `TokensInOrder`, `NeverForgotten` | holds, 4,097,085 states |
| `k3_gang` | 2 ranks, 3 requests, 5 deployments: two whales, one refused, one beside a short prompt, verdicts only, two CP jobs beside a short prompt; one slot per rank | `NeverFatal`, `OneLaunchPerSuperstep`, `FallbackMeansCancelled`, `SlotsConserved`, `EveryoneAnswered` | holds, 594,593 states |
| `glm52_serve` | 4 configurations of 2 or 3 requests, pools of 4 to 6 pages of 3 tokens, 2 slots | `PromisesBacked`, `NoLoadUnderReplay`, `ArenasOutliveDMA`, `LeasesReturned`, `EveryoneAnswered` | holds, 241,317 states |
| `glm52_desync` | 3 requests, launch-ahead, no tier | `NeverDesync` | violated, finding 3 |
| `glm52_starve` | 2 native hand-offs, a pool of the smallest accepted size | `EveryoneAnswered` | violated, finding 4 |

What the properties say beyond their names: `OnlyTailUncomputed` bounds what a
sequence publishes before its KV exists (rows of the block a chunk ended in, later
only the row of the dangling token). `FinishedMeansComplete` says of a finished client
that it has as many tokens as the ledger tallied, or one more when the last is the
sentinel, and of a terminal the bridge is about to take that its count is the tokens
shipped before and with it. `TokensInOrder` gives the sentinel its place, once and last
in a finished stream. `FloorCovered` is the promise of the reserve gate: blocks nobody owns, plus
the credit that an admission in progress will redeem, cover everything entitled.
It does not imply that an admitted draw succeeds, because an unowned block can be
pinned; that gap is finding 2. `NeverForgotten` says that a waiting client's answer is
always carried by somebody, except answers a panic destroyed (section 5).
`PromisesBacked` is the pool's promise in the engine that relies on it: entitlements
stay covered through native restores, boundary copies, saves that outlive their
request and speculative give-back. `OneLaunchPerSuperstep` is both directions of
unanimity: one superstep, one launch, and no launch for two supersteps.
`FallbackMeansCancelled` says that a poster which gave up on a whale was right to:
nobody holds a commit for it.

Each module's `TypeOK` is checked in its first run. Every property of a passing
run also has a mutant in `PROJECT.json`: a plausible bug in one mapped
definition under which the same run reports it violated.

**Why the bounds are enough.** The store needs a primary, its duplicate and two
hashes so that a lookup, a registration or an eviction can hit the wrong one (two
blocks are enough for each to be evicted for the other), three addresses so that a
dying object, its resurrection and a duplicate coexist, and a second handle so that
a clone outlives its origin. `MaxPending` bounds marks in flight, and the liveness
property holds although it delays releases. The
registry needs an old handle, a newer one and one more for the same hash. The
sequence runs cross every residue of the block size three times, with budgets
shorter and longer than a block. In the pool runs the three lifetimes (3, 2, 3)
exceed the pool of 4, so admission has to refuse, and a two-block shared prefix
allows hit, load, duplicate and eviction of one half. In the step runs, two
requests under one name are needed for confusion of identities, two tokens for
order, and two steps in the stream for a deferred finish that overtakes (a
deferred finish is sent whether or not the driver is a step ahead). Two k3 ranks are
a gang in either lane; two whales make one wait while the other is gathered,
committed or cancelled; a short prompt behind a whale makes a local prefill compete
with it; the launch bound of 18 is never reached while a request is open (if it
were, `EveryoneAnswered` would fail). The glm52 pools are smaller than the
lifetimes of their requests together, so that requests stall, are shed, are passed
and wait for a save; three tokens per page give a native an unaligned boundary page,
and two slots a request that ends while another goes on.

**Symmetry.** Blocks of the pool and wire ids of `step_pair` are permuted: both are
only compared for equality and those runs check safety only. Requests differ in
their prompts and are not permuted, and runs with a liveness property use no
symmetry.

**Deadlock** is checked in the store, registry, step and k3 runs (`StepContract` has
an explicit `Stopped` step for a system that has shut down, `K3Scheduler` a
`Horizon` step once no request is left to follow). A sequence that was released, a
pool whose requests have all ended and an engine after teardown really stop: those
runs say `CHECK_DEADLOCK FALSE`. That a live sequence cannot get stuck is `NeverStuck`.

**Fairness.** `BlockStore` and `BlockRegistry`: a `Drop` that has begun runs to
its end and a call in progress returns (weak fairness of the release, keepalive
and mark steps); nothing is assumed of callers, who may hold their handles for
ever. `StepContract`: the driver loop has no blocking wait besides the step
itself, a step returns, teardown completes, the bridge task polls its channel,
and whoever holds a deferred finish sends or drops it, because `Drop` sends too.
Nothing is assumed of the scheduler's verdicts: a scheduler may keep an
account open for ever, and `NobodyWaitsInVain` is stated for that.
`K3Scheduler`: some rank or the sequencer that can run does (`WF_vars(Progress)`).
This is as good as fairness to each of them, because no rank can be more than one
launch ahead of another, or ahead of a message that is due. Arrivals, aborts and
gather timeouts are never forced. `Glm52Engine`: the engine thread loops without a
blocking wait while there is work, and the runtime's tasks and the tier's copies
come to an end. A tier that hangs for ever is therefore outside the liveness
properties; its effect on teardown, where the code bounds the wait, is in
`ArenasOutliveDMA`. No client is assumed to send or to hang up.

## 4. What is proved

The theorems hold for every value of the constants that satisfies the module's
assumption: any number of blocks, hashes, addresses and handles, any block size,
prompt, budget, chunking and draft length.

| theorem | statement | from |
|---|---|---|
| `BlockStoreProofs!StoreInvariant` | `Spec => []IInv` | `StoreAssumption` |
| `BlockStoreProofs!Safety` | `Spec => []PoolsAgree` and the next five together | `StoreInvariant` |
| `BlockStoreProofs!StoreTypes` | `Spec => []TypeOK` | `Safety` |
| `BlockStoreProofs!CanonicalBlockUnique` | `Spec => []OneCanonicalBlock` | `Safety` |
| `BlockStoreProofs!SlotsBelongToHolders` | `Spec => []HeldSlotsBelong` | `Safety` |
| `BlockStoreProofs!KeepaliveHolds` | `Spec => []DuplicatePinsPrimary` | `Safety` |
| `BlockStoreProofs!ResetOnReleaseHonoured` | `Spec => []OptOutNeverCached` | `Safety` |
| `BlockStoreProofs!HeldBlocksNeverMove` | `Spec => HeldBlockStable` | `StoreInvariant` |
| `BlockStoreProofs!StoreImplementsCache` | `Spec => CacheSpec` | `StoreInvariant` |
| `BlockStoreProofs!PresenceShadows` | `Spec => []PresenceIsShadow` | `StoreInvariant` |
| `BlockRegistryProofs!OneRegistrationPerHash` | `Spec => [](TypeOK /\ CanonicalRegistration)` | `RegistryAssumption` |
| `BlockRegistryProofs!RegistryTypes` | `Spec => []TypeOK` | `OneRegistrationPerHash` |
| `BlockRegistryProofs!EventsStayBalanced` | `Spec => []EventsBalanced` | `RegistryAssumption`, `FiniteAddresses` |
| `SchedulableSequenceProofs!SequenceInvariant` | `Spec => []IInv` | `SequenceAssumption` |
| `SchedulableSequenceProofs!SequenceTypes` | `Spec => []TypeOK` | `SequenceInvariant` |
| `SchedulableSequenceProofs!LifetimeCoversDraw` | `Spec => []WithinLifetime` | `SequenceInvariant` |
| `SchedulableSequenceProofs!StepPagesCover` | `Spec => []PagesCoverStep` | `SequenceInvariant` |
| `SchedulableSequenceProofs!AlwaysALegalStep` | `Spec => []NeverStuck` | `SequenceInvariant` |
| `SchedulableSequenceProofs!UncomputedRowsBounded` | `Spec => []OnlyTailUncomputed` | `SequenceInvariant`, `RowsInvariant` |
| `SchedulableSequenceProofs!DecodeLeavesNoneUncomputed` | `Spec => DecodeSettles` | `SequenceInvariant` |
| `SchedulableSequenceProofs!WholePromptComputed` | `WholePrompt` implies `Spec => []RegisteredMeansComputed` | `SequenceInvariant`, `UncomputedRowsBounded` |
| `StepContractProofs!TypeCorrect` | `Spec => []TypeOK` | `ContractAssumption` |
| `StepContractProofs!Dutiful` | `Spec => [](IInv /\ NamesDrawn)` | `TypeCorrect` |
| `StepContractProofs!OneAnswerHolds` | `Spec => []OneAnswer` | `Dutiful` |
| `StepContractProofs!NothingAfterTheEndHolds` | `Spec => NothingAfterTheEnd` | `Dutiful` |
| `StepContractProofs!NeverForgottenHolds` | `Spec => []NeverForgotten` | `Dutiful` |
| `StepContractProofs!StreamsHold` | `Spec => []StreamInv` | `Dutiful` |
| `StepContractProofs!TokensInOrderHolds` | `Spec => []TokensInOrder` | `StreamsHold` |
| `StepContractProofs!FinishedMeansCompleteHolds` | `Spec => []FinishedMeansComplete` | `StreamsHold` |
| `EntitledPoolProofs!PoolInvariant` | `Spec => []IInv` | `PoolAssumption` |
| `EntitledPoolProofs!PoolTypes` | `Spec => []TypeOK` | `PoolInvariant` |
| `EntitledPoolProofs!CounterExactHolds` | `Spec => []CounterExact` | `PoolInvariant` |
| `EntitledPoolProofs!CreditRedeemedHolds` | `Spec => []CreditRedeemed` | `PoolInvariant` |
| `EntitledPoolProofs!FloorCoveredHolds` | `Spec => []FloorCovered` | `PoolInvariant` |
| `Glm52EngineProofs!CopiesTracked` | `Spec => []CopyInv` | `EngineAssumption` |
| `Glm52EngineProofs!NoLoadUnderReplayHolds` | `Spec => []NoLoadUnderReplay` | `CopiesTracked` |
| `Glm52EngineProofs!ArenasOutliveDMAHolds` | `Spec => []ArenasOutliveDMA` | `CopiesTracked` |
| `Glm52EngineProofs!PoolCovered` | `Spec => []PoolInv` | `CopiesTracked`'s lemmas |
| `Glm52EngineProofs!EngineTypes` | `Spec => []TypeOK` | `PoolCovered` |
| `Glm52EngineProofs!PromisesBackedHolds` | `Spec => []PromisesBacked` | `PoolCovered` |
| `K3SchedulerProofs!SlotsInvariant` | `Spec => []SlotInv` | `K3Assumption` |
| `K3SchedulerProofs!K3Types` | `Spec => []TypeOK` | `SlotsInvariant` |
| `K3SchedulerProofs!SlotsConservedHolds` | `Spec => []SlotsConserved` | `SlotsInvariant` |
| `K3RendezvousProofs!PactInvariant` | `Spec => []Pact` | `SlotsInvariant`'s lemmas, `K3Assumption` |
| `K3RendezvousProofs!NeverFatalHolds` | `Spec => []NeverFatal` | `PactInvariant` |
| `K3RendezvousProofs!FallbackMeansCancelledHolds` | `Spec => []FallbackMeansCancelled` | `PactInvariant` |
| `K3RendezvousProofs!BoardInvariant` | `Spec => []BoardPact` | `PactInvariant` |
| `K3RendezvousProofs!OneLaunchPerSuperstepHolds` | `Spec => []OneLaunchPerSuperstep` | `PactInvariant`, `BoardInvariant` |

**The store.** `IInv` is the conjunction of the six safety properties and three
parts they lack. `SlotsNameTheirInner`: a slot's `Weak` names an object for that
block and hash, so the identity test in `ReleasePrimary` decides ownership.
`InnerShape`: which fields an object has in each phase; without it a released
object could still appear to own a block. `LiveIsHeld`: a live object has a handle
or a keepalive on it, so the step that takes its count to zero is the only one
that ends it. The proof has one lemma per action, and under it one step per
conjunct the action disturbs. What several actions share (one more handle,
a resurrection) is in the lemmas `AddHandle` and `Resurrection`.

The presence count is kept hash by hash (`Shadow`, inductive relative to `IInv`): a
step moves at most one block and one pending call of a hash, and `Tallies` says what
that does to the cardinalities. The sets are finite because they begin empty, so no
bound on the pool is assumed. That a marker to be withdrawn is there follows from
`CallsHaveBlocks`: a registration that has yet to mark holds a block of its own.

**The refinement.** A step that changes no slot is a stutter of `PrefixCache`.
`Allocate` and `DrainInactive` map to `Take`, a dropped guard to `Return`, `MatchIdle` to `Hit`,
a fresh registration to `Publish`, a duplicate to `PublishCopy`, a release to
`GiveUp` or `GiveUpCopy`. The guard that needs the invariant is
`Copies(key[b]) = {}` of `GiveUp`: it follows from `DuplicatePinsPrimary`, since a
copy whose canonical block's object is dead would keep it alive.

**The registry.** `IInv` adds `ObjectShape`: what a handle's address holds
in each phase, so that `Unregister` recognises its own entry. The events need a
second invariant: an address nobody uses belongs to no hash (`UnusedBlank`), so a
registration adds exactly one object to its hash's set and the last step of a
`Drop` removes exactly one; the lemmas on finite sets turn this into the count.

**The sequence.** `IInv` relates the positions. `PositionExact` ties `kv`, the
prefill position and the token total (a decoding sequence has exactly one
token without KV); `TokensFit` bounds the total by prompt plus budget;
`BlocksFit` bounds the registered blocks by complete token blocks; `PaddedStops`
says a padded sequence takes no further step; `PagesCoverStep` is needed by
itself because an apply moves `kv` over what the schedule drew. From these
`resident <= Ceil(input + output)` follows by the arithmetic lemmas `DivFacts`,
`Cancel`, `Scale`, `CeilFacts` and `PendingFacts`, which state the facts about
division by a symbolic block size that the solver does not find alone.

How far registration may run ahead of the KV rests on a second invariant,
`RowsInv`, inductive relative to `IInv`. Its part `DrawnPrefix` says that during
the prefill the blocks held reach no further than the scheduled chunk, and that
what a revert gives back restores the bound of the computed positions; without
it a revert could leave blocks that a later chunk registers. `PromptComputed`
covers requests that want no output.

`WholePromptComputed` is the counterpart of finding 1: a line whose prefill is one step
over all that the prefix match left, and that drafts nothing, registers only computed
blocks. That is what kimi-k2 does on both of its schedulers
(`pegainfer-kimi-k2/src/runner/scheduler.rs:390`, `scheduler/dp.rs:448`). It is no
statement about qwen3 or GLM5.2, which split a prompt: GLM5.2 aligns the budget of a
launch to the block size (`pegainfer-glm52/src/lib.rs:474`), but `plan_prefill_spans`
deals that budget out to requests in spans of any length, and finding 1 applies. The
invariant `Settled` says that until the prefill is done it stands at the end of
the matched prefix, a block boundary, where `OnlyTailUncomputed` leaves no row over, and
that registration is exact afterwards. The case that needs the boundary is
`AdoptExternalPrefillAnchor`: it ends the prefill without a step that would settle
the last block.

**The step contract.** The first invariant, `IInv`, is about where the duty to answer
a request is. `Duties(r)` says of each place (envelope, account, statement, deferred
finish, step stream, client) what the others must then not hold, and `Streaming`
that the bridge's two maps agree about a request it serves. `OneAnswer` alone is not
inductive: it needs `ChannelOrdered` (envelopes carry distinct ids that are not yet
in the ledger), `Undrawn` (an id not yet given out is nowhere) and `Phases` (the
statement is empty between steps). Each action touches one request or moves
all of them at once; for those of the first kind `NothingNew` is the frame: a
request whose records did not change, or only shrank, keeps its duties.
`NeverForgotten` is proved from `Owed`, which names the place that will answer.

The second invariant, `StreamInv`, is about the content. `Chain(r)` claims a position
for every step on the stream such that steps, then the statement or the
deferred finish, continue what the client has, one after the other, up to the
ledger's tally; a witness function stands for the sum that would otherwise need an
induction over the stream. `ScheduledOnce`, `Announced` and `FactsKept` say the
same of the admission and the metadata; `Announced` speaks of every update that puts
a token before the client, a bare stop without tokens of its own among them. `Delivered`
allows the sentinel at the end of a finished stream only, so a client that waits has
nothing but tokens, and the one step that can append the sentinel is the one that ends
the stream. All of it is claimed only while the client
waits: a stream the bridge ended by itself leaves updates behind that nobody reads.

**The pool.** `FloorCovered` is not inductive for two reasons. Between the check
and the allocation of a reservation the floor must also cover what the check was made
for, so `Backed` has a case for the held gate. And between an admission and its match
the promise rests partly on the request's own hold: `Credited` is the hold with the
blocks its duplicates stand for, and `Backed` counts only unowned blocks outside it,
plus the credit. The match then turns credit into owned blocks one for one, because
each block of the hold still leads to a canonical block of its content (`Duplicates`,
`Filled`) and there is only one (`OneCanonical`), so the match returns it; this is
also why `CreditRedeemed` holds. `Sound` collects these facts about blocks together
with the exclusive ownership of raw ones. It is stated as a relation, so that one
lemma per kind of change (`WipeSound`, `DropSound`, `RegisterSound`, `RawSound`) serves
all the actions. `StageFacts` says what a request may hold at each stage;
`OneAdmitting` that one request at a time is between admission and running. The sums
of the model, what is promised and what is credited, are cardinalities of
sets of pairs (`Slots`), so that `SlotsMove` can state without an induction that a
change of one request's share changes the count by the difference.

**The glm52 engine.** `CopyInv` is about tasks and copies. `InflightExact` says
`resolves_inflight` is the number of tasks under way plus the results not yet taken;
with it the loop's exit test means that no resolve is left (`Drained`), so no load can
start after `flush_loads` has looked. The abandoned copies are what the flushes wait
for (`Flushed`). `NoTier` says that without a tier no task gets past its first poll,
which is why a lease granted only without a tier excludes a load.

`PoolInv` is about requests and blocks. `PromisesBacked` becomes `Covered`: summed over
the requests, what each has out of the pool and may still draw (`Burden`) is at most the
pool. A step either adds to no request's burden (`CoveredKept`) or adds n blocks to one
request when the pool has n more than it owes (`CoveredTaken`): a reservation and the two
takes are the only steps of the second kind. For a native take the blocks its hold shares
with the new sequence have to be exactly the full pages, so `Forms` says a restored
native in the queue still holds its whole chain: only plain holds are shed. `Places` puts
a request in one place at a time, and says that one that was never admitted owns nothing;
a copy abandoned at its deadline may settle later at any of them. `Admitted` gives the
position of a sequence and the fit of its span, from which the draw of a step stays
within the lifetime (`SpanDraws`, `OutcomeFacts`). A save's guards take over blocks only
when the sequence releases them in the same step, which `LeaseAlone` gives: a deferred
release and a tier never meet. The invariant was checked with TLC on
six configurations before it was proved.

Sums are cardinalities of sets of units here too (`TotalSum`, `TotalMove`, `TotalUp`).
The one recursive definition, the filter `Without`, is handled by a table of its
prefixes and the least position where a claim about it would fail (`FilterDefined`,
`WithoutFacts`), which needs no induction rule.

**The k3 schedulers.** `SlotsConserved` needs to know whose slot a step gives back.
`Works` says that a local prefill, and a superstep whose member owns the whale, is about
a request of that rank in the state the step leaves; `Posts` and `Queues` say the same of
the outstanding post, the cancelled one and the queue, which lists a request once. On the
board the link is longer: a rank that computes a job is not among those that ran it
(`Computing`), so if it owns the job, the job is still owed, and an owed job is its
owner's work (`OwnJob`), of which there is one (`OneJob`); the owner leaves the board
only when nothing up to its horizon is left, and its own job is within the horizon.
`Ledger` bounds the tokens. `HubTypes` is needed because a commit or a cancel names
the request that then moves: the letters are what `Mail` copies from the sequencer's
outbound list (`MailFacts`), whose entries `GatherFacts` describes.

*The rendezvous.* `NeverFatal` and `FallbackMeansCancelled` depend on every message in
flight, so `Pact` relates the sequencer, both links of every rank and what each member
holds to one account, the minutes `T`: for each number the sequencer has given out, its
request and its fate (open, dropped, or the launch it was committed to). `T` is not a
variable of the model; `Pact` says that one exists, and a step of the sequencer extends
it. `Minutes` says that fates of later numbers are later launches, a request has one
number and only the whale being gathered is open. `Letters`, `Armed`, `Agreement` and
`Boarded` say that what a member reads, holds and has entered is what the minutes say,
`Ordered` that a link carries numbers in order, `Gathering` that each member of the gang
has the gather, its reply or the recorded answer under way exactly once, `Asking`,
`InLine`, `Awaited` and `Numbered` that the owner still waits with the post a number is
for. `Refusals` is the crux of `track_own_post`: a cancel whose gather the rank never read
is about its own post, because links are FIFO and a refused post was never gathered.

The other half is time (`Clock`). `Pace` keeps the ranks within one launch of each other;
`Reported` says that no rank has launched past the due time of a report in flight, which
is at most `Latency + 1` after the count it reports; `Promised` that a commit is handed
over before the launch it names, and to a rank whose next boundary (`Reach`) is not past
it; `Ahead` that a committed launch is not passed. A commit names a launch at least
`Slack` after each count gathered, and between a member's reply and its reading of the
commit there are at most two message latencies and the launch under way, hence the
assumption `2 * Latency + 1 < Slack`. `Lanes` and `IsQuiet` add that
a rank with a whale pending makes one launch between two readings of its mailbox. What
`StartNextGather` does to the queue in one call is proved one refusal at a time
(`Popping`, `Started`) over a table of intermediate links (`DeliverSteps`).

*The gang board.* `BoardPact` is for the lane of one process. A rank has checked in on one
job at most that it has not run, the oldest, with the count it stands at or, while it
pumps, the next one (`CheckedIn`). Once somebody has entered, everyone has checked in and
nobody above that launch (`Levelled`): a rank that pumps was below another's mark, so its
next launch is still at most the level. Hence whoever enters later enters at the same
launch (`Unanimous`). `InTurn` says that ranks enter the jobs in the order of the board,
none left out, at growing launches, so two jobs never share a launch. This invariant was
checked with TLC for two and for three ranks first.

`OneCanonicalBlock`, `HeldBlockStable` and `DecodeSettles` are stated by theorems
only. The first two follow from what the `store` run checks (`CacheSpec`,
`HeldSlotsBelong`), the third is a special case worth a proof and not a run.
`WholePromptComputed` proves, under its hypothesis, the property that `sequence_chunk`
shows violated without it.

**Only model-checked.** Liveness (`UnreachableBlocksReturn`, `DeadEntriesGo`,
`NobodyWaitsInVain`, `LeasesReturned`, both `EveryoneAnswered`) is outside the
prover's reach.
Every safety property of a passing run is stated by a theorem.

## 5. Findings

1. `sequence_chunk`: a prefill chunk that ends inside a block publishes that block
   with uncomputed rows. A verify step does the same with the one row of its
   dangling last token, which `apply_decode` defers on purpose. A line that prefills a
   prompt's uncached part in one step and does not draft is safe
   (`WholePromptComputed`).
2. `pool_starve`: a probe, or a registration that pins a cached copy, takes blocks
   the floor counted as available, and an admitted draw can then fail.
3. `glm52_desync`: a request that ends in a step whose successor was launched ahead
   makes that successor fail. The engine feeds padding for the dead slot, the device
   compares with the token it speculated on, and the mismatch is fatal.
4. `glm52_starve`: on a pool of the smallest accepted size two restored native
   hand-offs hold each other's pages. The front does not fit, only plain holds are
   shed, the bypass obeys the same budget, and no page is ever released.

The quoted lines are in `PROJECT.json`. Observations without a run of their own:

- The debug assertion in a registration handle's `Drop` ("registry entry vanished
  while a strong ref was alive", `registry/handle.rs:101`) can fire in a correct run:
  a newer registration of the hash came and went before this `Drop` had the lock.
- A terminal that a ledger call recorded is lost when the same step panics, since
  the drop sweep answers open accounts only (`ledger.rs:363`; `lost` in
  `StepContract`). The bridge later ends such a stream with an engine-dead error.
- The exit token resolves before the ledger is dropped (`driver.rs:64`), which
  `NobodyWaitsInVain` shows to be harmless to clients.
- The Remove event of an old registration can follow the Create of a newer live one
  (`protocol.rs:85`).
- A loaded block that turned into a duplicate pins one block more than its hold's
  credit (`store.rs:188`), so a request as large as the pool may wait on its own hold.
- In a glm52 step that both consumes a speculation and leases the next one,
  `release_deferred` also drains the deferrals that same step added, against the
  comment at `scheduler/mod.rs:541` ("A lease step may ADD deferrals; it never
  completes them"). Finding 3 makes the next step fail before this matters.
- The header of `gang.rs` (lines 10 to 13) describes exchange windows that sync the
  local stream and park at a CPU barrier; `executor/cp.rs` orders them by events, and
  the barrier is before the launch. The model follows the executor.

## 6. Not modelled, and why

The repository has about 206,000 lines, nearly all of them kernels, model
executors, weight loading, benchmarks, oracles and build scripts. They are numerics
over device memory, without a small state space or an interleaving of their own; so
the map covers a small share of the lines although it covers most of the code
that decides about ownership, admission and answers. Wire encoding, HTTP, metrics
and tooling are left out for the same reason.

Of the modelled components:

- store: metrics and the order in which the backend evicts, which do not change the
  reachable states; registry: typed attachments, the frequency sketch, the drop of a
  handle after its registry;
- sequence: `append_tokens`, `reacquire` and `drop_unassigned` have no caller
  outside tests; pool: content salts;
- KV store: saves of class `Handoff` and the parking in `retire` that follows from
  them are used by the store's own tests only; a request in the engine always takes
  the other class;
- step contract: calls the ledger's assertions refuse, which close the account and then
  panic (`Panic` stands for the panic itself); which finish reason a request has, beyond
  whether its stop is bare;
- glm52: `MayLease` has neither the eager switch (`plan.rs:144`) nor the length limit of
  the speculated position (`plan.rs:174`), and so leases at least where the code does;
  the prefill-only role, draft rounds and resets beyond the span they add, the
  mirrored tensor-parallel topology (where ranks block on each other), graph dumps;
- k3: an executor error in an expert-parallel world ends the process, which a model
  of the survivors need not follow; slab exchange at start-up, the prompt hash check,
  the width computation, the 60 s exchange deadline, the draft lane; a hub that refuses
  the send of a post (`scheduler/mod.rs:571`), where the rank releases the slot, fails
  the request and reports an engine-fatal error. `PrefillLaunch` waits for its pairing
  before every chunk, while the executor queues the chunks of a prompt and synchronises
  once before the boundary sample (`executor/mod.rs:1226` to `1313`); launch counts are
  reported only after that, so what other ranks can observe is the same.

## 7. Plan

1. Done: `BlockStore` / `PrefixCache`, `BlockRegistry`, `SchedulableSequence`,
   `EntitledPool`, `StepContract`, `Glm52Engine` and `K3Scheduler`, each with proofs of
   the safety properties its runs check.
2. Components next: the qwen3 and qwen35 schedulers (admission, prefetch parking,
   chunking), kimi-k2's data-parallel coordinator, the legacy bridge, the lineage
   eviction backend against a reference definition, the event batcher. Each would
   take a run of its own; the questions asked so far were judged the more important.
