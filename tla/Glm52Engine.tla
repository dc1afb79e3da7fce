------------------------------ MODULE Glm52Engine ------------------------------
(***************************************************************************)
(* One rank of the GLM5.2 engine (pegainfer-glm52 scheduler/) with the KV  *)
(* store it shares its pool with (pegainfer-kv-store store.rs, tier.rs).   *)
(*                                                                         *)
(* The engine thread loops: take what clients submitted, drain what the    *)
(* resolve tasks made ready, admit from the queue, step, apply.  Per       *)
(* request a resolve task runs beside it: query the host tier until it     *)
(* hits or the deadline passes, reserve pages, load, hand the pinned       *)
(* prefix over.  Queries and loads are detached: a deadline ends the wait, *)
(* not the work.  A finished request's blocks are saved to the host by a   *)
(* detached copy that pins them past their release.                        *)
(*                                                                         *)
(* Prompts are disjoint and cold, so blocks are counted (EntitledPool has  *)
(* shared prefixes and the steps inside a reservation).  Positions are     *)
(* tokens; SchedulableSequence gives the draws.                            *)
(***************************************************************************)
EXTENDS Integers, Sequences, FiniteSets, FiniteSetsExt, SequencesExt

CONSTANTS Req, NoReq,
          Page,       \* tokens in a block
          Slots,      \* decode slots
          Kind,       \* Req -> "plain", "native" (restored from a peer), "eos" or "bad"
          In,         \* Req -> prompt tokens; committed_len of a native
          MaxOut,     \* Req -> max_tokens
          MaxPolls,   \* tier queries before the deadline passes
          MaxDraft,   \* drafts a verify span feeds
          Setups      \* engine configurations: [reqs, fickle, usable, cache,
                      \* tier, drafter]: fickle requests' clients may go away

Least(a, b) == IF a < b THEN a ELSE b
Most(a, b) == IF a > b THEN a ELSE b
Minus(a, b) == IF a > b THEN a - b ELSE 0
Ceil(n) == (n + Page - 1) \div Page

ASSUME EngineAssumption ==
    /\ NoReq \notin Req /\ IsFiniteSet(Req)
    /\ {Page, Slots, MaxPolls} \subseteq Nat \ {0} /\ MaxDraft \in Nat
    /\ Kind \in [Req -> {"plain", "native", "eos", "bad"}]
    /\ In \in [Req -> Nat \ {0}] /\ MaxOut \in [Req -> Nat \ {0}]
    /\ \A s \in Setups : /\ s.fickle \subseteq s.reqs /\ s.reqs \subseteq Req
                         /\ s.usable \in Nat /\ {s.cache, s.tier, s.drafter} \subseteq BOOLEAN

Native(r) == Kind[r] \in {"native", "eos"}

\* Blocks over the lifetime: a native's replayed anchor is one more input.
Life(r) == Ceil((IF Native(r) THEN In[r] + 1 ELSE In[r]) + MaxOut[r])

\* Blocks a complete resolve pins.  A plain prompt keeps a token uncached; a
\* native's chain is padded past its anchor unless the commit is aligned.
Chain(r) == IF ~Native(r) THEN (In[r] - 1) \div Page
            ELSE IF In[r] % Page = 0 THEN In[r] \div Page ELSE Ceil(In[r] + 1)

FullPages(r) == In[r] \div Page

VARIABLES
    setup,
    sent, submit, open, closed, done,           \* clients and the submit channel
    task, form, cached, polls, query, lease, load,  \* resolve tasks and the host tier
    hold, reserved, resident, guards,           \* who pins blocks
    pin, save,                                  \* the pinned counter, saves
    ready, pending, inflight,                   \* ready_rx, the queue, resolves_inflight
    active, deferred, leased, consume,          \* slots, deferred_releases, leased_shape, flags.consume
    expect,                                     \* rows the device's speculation was launched with
    pos, out, matched, span,                    \* kv_position, completion, prefix blocks, rows in flight
    pc, cand, budget                            \* the engine thread

clients == <<sent, submit, open, closed, done>>
tasks == <<task, form, cached, polls, query, lease, load>>
pins == <<hold, reserved, resident, guards>>
saves == <<pin, save>>
queues == <<ready, pending, inflight>>
slots == <<active, deferred, leased, consume, expect>>
seqs == <<pos, out, matched, span>>
thread == <<pc, cand, budget>>
vars == <<setup, clients, tasks, pins, saves, queues, slots, seqs, thread>>

Usable == setup.usable   \* blocks of the pool without the padding page
Zero == [r \in Req |-> 0]

Init ==
    /\ setup \in Setups
    /\ sent = {} /\ submit = <<>> /\ open = TRUE /\ closed = {} /\ done = [r \in Req |-> "no"]
    /\ task = [r \in Req |-> "none"] /\ form = [r \in Req |-> "plain"] /\ cached = Zero /\ polls = Zero
    /\ query = [r \in Req |-> "none"] /\ lease = Zero /\ load = [r \in Req |-> "none"]
    /\ hold = Zero /\ reserved = Zero /\ resident = Zero /\ guards = Zero
    /\ pin = Zero /\ save = [r \in Req |-> "none"]
    /\ ready = <<>> /\ pending = <<>> /\ inflight = 0
    /\ active = {} /\ deferred = {} /\ leased = {} /\ consume = FALSE /\ expect = Zero
    /\ pos = Zero /\ out = Zero /\ matched = Zero /\ span = Zero
    /\ pc = "drain" /\ cand = NoReq /\ budget = 0

\* The sum of f, a count of units so that the proofs need no induction.
Total(f) == Cardinality(UNION {{r} \X (1..f[r]) : r \in DOMAIN f})

\* Blocks out of the free pool: a save's guards pin part of what the sequence
\* holds, then that part alone; a boundary copy's hold shares its full pages.
Pins(r) == Most(resident[r], guards[r]) + reserved[r]
           + (IF resident[r] = 0 THEN hold[r] ELSE Minus(hold[r], FullPages(r)))
Available == Usable - Total([r \in Req |-> Pins(r)])

Entitled == Total([r \in active |-> Life(r) - resident[r]])
PinnedBlocks == Total(pin)

-----------------------------------------------------------------------------
(* Clients *)

Submit(r) ==
    /\ open /\ r \in setup.reqs \ sent
    /\ sent' = sent \cup {r} /\ submit' = Append(submit, r)
    /\ UNCHANGED <<setup, open, closed, done, tasks, pins, saves, queues, slots, seqs, thread>>

\* The client drops its receiver.
Disconnect(r) ==
    /\ r \in (setup.fickle \cap sent) \ closed /\ done[r] = "no"
    /\ closed' = closed \cup {r}
    /\ UNCHANGED <<setup, sent, submit, open, done, tasks, pins, saves, queues, slots, seqs, thread>>

\* Every engine handle is dropped.
HangUp ==
    /\ open /\ open' = FALSE
    /\ UNCHANGED <<setup, sent, submit, closed, done, tasks, pins, saves, queues, slots, seqs, thread>>

-----------------------------------------------------------------------------
(* The resolve task of a request and the tier behind it *)

\* resolve_prefix's finish with h blocks held, and native_pd_resolve's verdict:
\* a native short of its chain fails and drops what it held.
Conclude(r, h) ==
    LET short == Kind[r] = "native" /\ h < Chain(r)
    IN /\ hold' = [hold EXCEPT ![r] = IF short THEN 0 ELSE h]
       /\ cached' = [cached EXCEPT ![r] = h]
       /\ form' = [form EXCEPT ![r] = IF short THEN "failed" ELSE IF Native(r) THEN "native" ELSE "plain"]
       /\ task' = [task EXCEPT ![r] = "sent"]
       /\ ready' = Append(ready, r)

still == <<setup, clients, saves, pending, inflight, slots, seqs, thread>>

\* The first checks of a task, and those of every later poll: a gone client, no
\* tier or nothing to ask it ends the resolve, else a query is spawned.
Poll(r) ==
    /\ task[r] \in {"begin", "paused"}
    /\ IF r \in closed \/ ~setup.tier \/ Kind[r] = "eos" \/ Chain(r) = 0
         THEN Conclude(r, 0) /\ UNCHANGED <<polls, query>>
         ELSE /\ polls' = [polls EXCEPT ![r] = @ + 1]
              /\ query' = [query EXCEPT ![r] = "asked"]
              /\ task' = [task EXCEPT ![r] = "waiting"]
              /\ UNCHANGED <<form, cached, hold, ready>>
    /\ UNCHANGED <<still, lease, load, reserved, resident, guards>>

\* Mutant: an abandoned hit keeps its lease.
LateLeaseKept(n) == n

\* A late hit's LeaseGuard is dropped unread.
LateLease(n) == 0

\* The tier settles a query.  A hit leases its blocks; a full-hit query hits
\* with all of them or not at all.  An abandoned query's task drops the answer.
TierAnswers(r) ==
    /\ query[r] = "asked"
    /\ \E a \in {"miss", "loading", "failed", "hit"},
          n \in (IF Native(r) THEN {Chain(r)} ELSE 1..Chain(r)) :
           /\ query' = [query EXCEPT ![r] = IF task[r] = "waiting" THEN a ELSE "none"]
           /\ lease' = [lease EXCEPT ![r] = IF a # "hit" THEN 0
                                            ELSE IF task[r] = "waiting" THEN n ELSE LateLease(n)]
    /\ UNCHANGED <<still, task, form, cached, polls, load, pins, ready>>

\* The wait for a query ends at the deadline: TimedOut.
QueryDeadline(r) ==
    /\ task[r] = "waiting" /\ query[r] = "asked"
    /\ Conclude(r, 0)
    /\ UNCHANGED <<still, polls, query, lease, load, reserved, resident, guards>>

\* The resolve loop on an answer: conclude, reserve for a hit, or pause.
TakeAnswer(r) ==
    LET wait == polls[r] < MaxPolls
        fits == query[r] = "hit" /\ Available >= lease[r] + Entitled
        ends == \/ query[r] = "failed"
                \/ query[r] = "miss" /\ ~Native(r)
                \/ ~fits /\ ~wait
    IN /\ task[r] = "waiting" /\ query[r] \in {"miss", "loading", "failed", "hit"}
       /\ query' = [query EXCEPT ![r] = "none"]
       /\ reserved' = [reserved EXCEPT ![r] = IF fits THEN lease[r] ELSE 0]
       /\ lease' = [lease EXCEPT ![r] = IF fits THEN @ ELSE 0]
       /\ IF ends THEN Conclude(r, 0)
                  ELSE /\ task' = [task EXCEPT ![r] = IF fits THEN "leased" ELSE "paused"]
                       /\ UNCHANGED <<form, cached, hold, ready>>
       /\ UNCHANGED <<still, polls, load, resident, guards>>

\* The last cancel check, then the copy is submitted.
StartLoad(r) ==
    /\ task[r] = "leased"
    /\ IF r \in closed
         THEN /\ Conclude(r, 0)
              /\ lease' = [lease EXCEPT ![r] = 0] /\ reserved' = [reserved EXCEPT ![r] = 0]
              /\ UNCHANGED load
         ELSE /\ task' = [task EXCEPT ![r] = "loading"]
              /\ load' = [load EXCEPT ![r] = "copying"]
              /\ UNCHANGED <<form, cached, hold, ready, lease, reserved>>
    /\ UNCHANGED <<still, polls, query, resident, guards>>

\* The tier settles the copy and consumes the lease.  Nobody waiting: the
\* detached task drops the reservation.
LoadSettles(r) ==
    /\ load[r] = "copying"
    /\ lease' = [lease EXCEPT ![r] = 0]
    /\ IF task[r] = "loading"
         THEN /\ \E o \in {"ok", "failed"} : load' = [load EXCEPT ![r] = o]
              /\ UNCHANGED reserved
         ELSE load' = [load EXCEPT ![r] = "none"] /\ reserved' = [reserved EXCEPT ![r] = 0]
    /\ UNCHANGED <<still, task, form, cached, polls, query, hold, resident, guards, ready>>

\* commit_loaded_blocks, or the reservation of a failed load dropped.
TakeLoad(r) ==
    /\ task[r] = "loading" /\ load[r] \in {"ok", "failed"}
    /\ Conclude(r, IF load[r] = "ok" THEN reserved[r] ELSE 0)
    /\ reserved' = [reserved EXCEPT ![r] = 0]
    /\ load' = [load EXCEPT ![r] = "none"]
    /\ UNCHANGED <<still, polls, query, lease, resident, guards>>

\* The wait for a load ends at the deadline; its task keeps the reservation.
LoadDeadline(r) ==
    /\ task[r] = "loading" /\ load[r] = "copying"
    /\ Conclude(r, 0)
    /\ UNCHANGED <<still, polls, query, lease, load, reserved, resident, guards>>

-----------------------------------------------------------------------------
(* Saves *)

quiet == <<setup, clients, tasks, queues, slots, seqs, thread>>

\* The copy lands (or fails) and its result is sent before the guards drop.
SaveLands(r) ==
    /\ save[r] = "copying"
    /\ save' = [save EXCEPT ![r] = "landed"]
    /\ UNCHANGED <<quiet, pins, pin>>

GuardsDrop(r) ==
    /\ save[r] = "landed" /\ guards[r] > 0
    /\ guards' = [guards EXCEPT ![r] = 0]
    /\ UNCHANGED <<quiet, hold, reserved, resident, saves>>

\* The store's watcher: the counter, then the hand-off's completion.
WatcherSettles(r) ==
    /\ save[r] = "landed" /\ pin[r] > 0
    /\ pin' = [pin EXCEPT ![r] = 0]
    /\ UNCHANGED <<quiet, pins, save>>

Task(r) ==
    \/ Poll(r) \/ TierAnswers(r) \/ QueryDeadline(r) \/ TakeAnswer(r)
    \/ StartLoad(r) \/ LoadSettles(r) \/ TakeLoad(r) \/ LoadDeadline(r)
    \/ SaveLands(r) \/ GuardsDrop(r) \/ WatcherSettles(r)

-----------------------------------------------------------------------------
(* The engine thread: intake *)

\* validate_request; a handoff only a drafting engine restores.
Rejects(r) == Kind[r] = "bad" \/ (Native(r) /\ ~setup.drafter)
Without(q, S) ==
    LET kept[n \in 0..Len(q)] ==
            IF n = 0 THEN <<>>
            ELSE IF q[n] \in S THEN kept[n - 1] ELSE Append(kept[n - 1], q[n])
    IN kept[Len(q)]
Answer(S, how) == done' = [r \in Req |-> IF r \in S THEN how ELSE done[r]]

\* Natives whose reply needs no capacity: the peer consumed EOS, or the
\* replayed anchor is the whole output.
ZeroCapacity(r) == form[r] = "native" /\ (Kind[r] = "eos" \/ MaxOut[r] = 1)

\* Mutant: a resolve is not counted.
CountedNone(S) == 0

\* resolves_inflight counts every spawned resolve until ready_rx yields it.
Counted(S) == Cardinality(S)

\* The submit channel is emptied: a request is rejected, or queued when there is
\* nothing to resolve, or gets a resolve task.
\* Then ready_rx.  The loop ends when nothing is left anywhere; admission
\* freezes while a speculation is outstanding, else starts: zero-capacity
\* natives are answered, and the budget of the rest hides pinned saves.
Intake ==
    LET took == ToSet(submit) \ {r \in Req : Rejects(r)}
        spawned == {r \in took : setup.cache \/ Native(r)}
        queue == pending \o Without(submit, Req \ (took \ spawned)) \o ready
        swept == {r \in ToSet(queue) : leased = {} /\ ZeroCapacity(r)}
    IN /\ pc = "drain"
       /\ submit' = <<>> /\ ready' = <<>>
       /\ task' = [r \in Req |-> IF r \in spawned THEN "begin" ELSE task[r]]
       /\ inflight' = inflight + Counted(spawned) - Len(ready)
       /\ pending' = Without(queue, swept)
       /\ done' = [r \in Req |-> IF r \in swept THEN "finished"
                                 ELSE IF r \in ToSet(submit) \ took THEN "rejected" ELSE done[r]]
       /\ hold' = [r \in Req |-> IF r \in swept THEN 0 ELSE hold[r]]
       /\ budget' = IF leased = {} THEN Minus(Usable, PinnedBlocks) ELSE 0
       /\ pc' = IF ~open /\ active = {} /\ queue = <<>> /\ inflight' = 0 THEN "teardown"
                ELSE IF leased = {} THEN "admit" ELSE "step"
       /\ UNCHANGED <<setup, sent, open, closed, form, cached, polls, query, lease, load,
                      reserved, resident, guards, saves, slots, seqs, cand>>

-----------------------------------------------------------------------------
(* Admission *)

\* Mutant: a native's boundary page counts as its own.
CreditWhole(r) == hold[r]

\* Held blocks that fold into the request: a native's boundary page does not.
Credit(r) == IF form[r] = "native" THEN FullPages(r) ELSE hold[r]

Committed == Total([r \in active |-> Life(r)])
ActiveResident == Total([r \in active |-> resident[r]])
Fits(r) == Committed + Life(r) <= Least(budget, Available + ActiveResident + Credit(r))

Open(i) == pending[i] \notin closed
First == pending[1]
Admitting == pc = "admit" /\ pending # <<>> /\ Cardinality(active) < Slots
Stalled == Admitting /\ Open(1) /\ form[First] # "failed" /\ ~Fits(First)

\* Plain holds behind the front; natives behind it that fit now.
Sheddable == {i \in 2..Len(pending) : form[pending[i]] = "plain" /\ hold[pending[i]] > 0}
Passable == {i \in 2..Len(pending) : form[pending[i]] = "native" /\ Open(i) /\ Fits(pending[i])}

afloat == <<setup, sent, submit, open, closed, tasks, reserved, resident, guards, saves,
            ready, inflight, slots, seqs>>

\* A closed or failed front leaves the queue.
DropFront ==
    /\ Admitting /\ (~Open(1) \/ form[First] = "failed")
    /\ Answer({First}, IF Open(1) THEN "rejected" ELSE "dropped")
    /\ hold' = [hold EXCEPT ![First] = 0]
    /\ pending' = Tail(pending)
    /\ UNCHANGED <<afloat, pc, cand, budget>>

\* Mutant: a stalled front sheds nothing.
ShedNever == FALSE /\ UNCHANGED vars

Shed ==
    /\ Stalled /\ Sheddable # {}
    /\ hold' = [hold EXCEPT ![pending[Max(Sheddable)]] = 0]
    /\ UNCHANGED <<afloat, done, pending, pc, cand, budget>>

\* The front, or past a stalled front the first native that fits.
Pick ==
    LET i == IF Stalled THEN Min(Passable) ELSE 1
    IN /\ Admitting /\ Open(1) /\ form[First] # "failed"
       /\ Stalled => Sheddable = {} /\ Passable # {}
       /\ cand' = pending[i]
       /\ pending' = RemoveAt(pending, i)
       /\ pc' = "take"
       /\ UNCHANGED <<afloat, done, hold, budget>>

\* An idle engine's step is all padding rows.
AdmitEnds ==
    /\ pc = "admit"
    /\ \/ ~Admitting
       \/ Stalled /\ Sheddable = {} /\ Passable = {}
    /\ budget' = 0
    /\ pc' = IF active = {} THEN "drain" ELSE "step"
    /\ UNCHANGED <<afloat, done, hold, pending, cand>>

\* try_admit's re-check, and what a lost race does: back to the front.
Backed(r) == Available + Credit(r) >= Entitled + Life(r)

Defer ==
    /\ pc = "take" /\ ~Backed(cand)
    /\ pending' = <<cand>> \o pending /\ cand' = NoReq
    /\ budget' = 0
    /\ pc' = IF active = {} THEN "drain" ELSE "step"
    /\ UNCHANGED <<afloat, done, hold>>

\* A plain request matches what its hold pins; one that was shed, what is left
\* of it in the cache.  The hold is dropped after the match.
TakePlain ==
    LET r == cand
    IN /\ pc = "take" /\ Backed(r) /\ form[r] = "plain"
       /\ \E m \in IF hold[r] > 0 THEN {hold[r]} ELSE 0..cached[r] :
              /\ matched' = [matched EXCEPT ![r] = m]
              /\ resident' = [resident EXCEPT ![r] = m]
              /\ pos' = [pos EXCEPT ![r] = m * Page]
       /\ hold' = [hold EXCEPT ![r] = 0]
       /\ active' = active \cup {r}
       /\ cand' = NoReq /\ pc' = "admit"
       /\ UNCHANGED <<setup, clients, tasks, reserved, guards, saves, queues, deferred, leased,
                      consume, expect, out, span, budget>>

\* admit_native: the anchor is replayed to the client; a client that is gone
\* leaves the slot empty.  Full pages match, boundary rows get a page of their
\* own whose source stays pinned until the first step has copied it.
TakeNative ==
    LET r == cand
        boundary == IF In[r] % Page = 0 THEN 0 ELSE 1
    IN /\ pc = "take" /\ Backed(r) /\ form[r] = "native"
       /\ IF r \in closed
            THEN /\ Answer({r}, "dropped")
                 /\ hold' = [hold EXCEPT ![r] = 0]
                 /\ UNCHANGED <<active, resident, matched, pos, out>> /\ pc' = "admit"
            ELSE /\ active' = active \cup {r}
                 /\ matched' = [matched EXCEPT ![r] = FullPages(r)]
                 /\ resident' = [resident EXCEPT ![r] = FullPages(r) + boundary]
                 /\ hold' = [hold EXCEPT ![r] = IF boundary = 0 THEN 0 ELSE @]
                 /\ pos' = [pos EXCEPT ![r] = In[r]] /\ out' = [out EXCEPT ![r] = 1]
                 /\ pc' = IF Available < boundary THEN "fatal" ELSE "admit"
                 /\ UNCHANGED done
       /\ cand' = NoReq
       /\ UNCHANGED <<setup, sent, submit, open, closed, tasks, reserved, guards, saves, queues,
                      deferred, leased, consume, expect, span, budget>>

-----------------------------------------------------------------------------
(* One step *)

Live == active \ deferred
MidPrefill(r) == ~Native(r) /\ pos[r] < In[r]
FeedWant(r) == IF MidPrefill(r) THEN In[r] - pos[r] ELSE 1

\* Mutant: a lease is granted beside a host tier.
MayLeaseBesideTier ==
    /\ pending = <<>> /\ ~setup.drafter /\ deferred = {} /\ active # {}
    /\ \A r \in active : FeedWant(r) = 1 /\ (pos[r] + 1) % Page # 0

\* lease_flags over greedy requests: the next step may be launched ahead.
MayLease ==
    /\ pending = <<>> /\ ~setup.drafter /\ ~setup.tier /\ deferred = {} /\ active # {}
    /\ \A r \in active : FeedWant(r) = 1 /\ (pos[r] + 1) % Page # 0

\* Rows a slot may get: one for its liveness, the rest as the bucket allows.
Spans(r) == IF MidPrefill(r) THEN {1, In[r] - pos[r]}
            ELSE 1..Least(IF setup.drafter THEN 1 + MaxDraft ELSE 1, MaxOut[r] - out[r])

\* Blocks a sequence holds once its span is scheduled.
Scheduled(r, n) ==
    Most(resident[r], IF MidPrefill(r) THEN Ceil(pos[r] + n)
                      ELSE IF n = 1 THEN (pos[r] + 1) \div Page + 1 ELSE Ceil(pos[r] + 1 + n))

\* The row inputs of a consumed replay: a dead slot's row has the padding's.
InputPosition(r) == IF r \in Live THEN pos[r] ELSE 0

still_stepping == <<setup, clients, tasks, hold, reserved, guards, saves, queues, active, deferred,
                    pos, out, matched, cand, budget>>

\* The speculation on the device was launched with other inputs than the
\* engine's: the step fails.
StepDesyncs ==
    /\ pc = "step" /\ \E r \in leased : expect[r] # InputPosition(r)
    /\ pc' = "desync"
    /\ UNCHANGED <<still_stepping, resident, leased, consume, expect, span>>

\* A lease is consumed or the rows are planned; every span draws its blocks;
\* the next step is launched ahead if it may be.
StepSubmit ==
    /\ pc = "step" /\ \A r \in leased : expect[r] = InputPosition(r)
    /\ \E n \in [Live -> 1..Max({1 + MaxDraft} \cup {In[r] : r \in Req})] :
           /\ \A r \in Live : n[r] \in (IF leased # {} THEN {1} ELSE Spans(r))
           /\ span' = [r \in Req |-> IF r \in Live THEN n[r] ELSE 0]
           /\ resident' = [r \in Req |-> IF r \in Live THEN Scheduled(r, n[r]) ELSE resident[r]]
    /\ consume' = (leased # {})
    /\ leased' = IF MayLease THEN active ELSE {}
    /\ expect' = [r \in Req |-> IF r \in leased' THEN pos[r] + 1 ELSE 0]
    /\ pc' = IF Total(resident') - Total(resident) > Available THEN "fatal" ELSE "join"
    /\ UNCHANGED still_stepping

\* What a slot's outputs may come to: [a] committed inputs, [e] tokens
\* generated, [eos] whether the last one was an end of sequence.
Outcomes(r) ==
    IF MidPrefill(r) /\ pos[r] + span[r] < In[r] THEN {[a |-> span[r], e |-> 0, eos |-> FALSE]}
    ELSE IF MidPrefill(r) THEN [a : {span[r]}, e : {1}, eos : BOOLEAN]
    ELSE {[a |-> n, e |-> n, eos |-> b] : n \in 1..span[r], b \in BOOLEAN}

Finishes(r, o) == o.e > 0 /\ (o.eos \/ out[r] + o.e >= MaxOut[r])

\* Registered blocks after the apply call of the span's kind.
Assigned(r, o) ==
    Least(resident[r], IF MidPrefill(r) THEN In[r] \div Page
                       ELSE IF span[r] = 1 THEN (pos[r] + 1) \div Page
                       ELSE (pos[r] + o.a + 1) \div Page)

\* A speculative apply gives back all but one of the blocks it did not fill.
Kept(r, o) ==
    IF span[r] = 1 \/ MidPrefill(r) THEN resident[r]
    ELSE Assigned(r, o) + Least(resident[r] - Assigned(r, o),
                                IF out[r] + o.e >= MaxOut[r] THEN 0 ELSE 1)

\* apply_step_outputs with the outcomes o: boundary copies have landed, spans
\* are committed, the finished and the disconnected are sealed and retired, or
\* deferred under a lease; a consumed lease completes the deferred ones.
StepApply ==
    /\ pc = "join"
    /\ \E o \in [Live -> UNION {Outcomes(r) : r \in Live}] :
       /\ \A r \in Live : o[r] \in Outcomes(r)
       /\ LET freed == {r \in Live : r \in closed \/ Finishes(r, o[r])}
              count == [r \in Req |-> IF setup.tier /\ r \in freed
                                        THEN Minus(Assigned(r, o[r]), matched[r]) ELSE 0]
              waiting == IF leased = {} THEN deferred ELSE deferred \cup freed
              released == (IF leased = {} THEN freed ELSE {}) \cup (IF consume THEN waiting ELSE {})
              left(f, v) == [r \in Req |-> IF r \in released THEN 0
                                            ELSE IF r \in Live THEN v[r] ELSE f[r]]
          IN /\ done' = [r \in Req |-> IF r \notin freed THEN done[r]
                                       ELSE IF r \in closed THEN "dropped" ELSE "finished"]
             /\ hold' = [r \in Req |-> IF r \in active THEN 0 ELSE hold[r]]
             /\ pos' = left(pos, [r \in Live |-> pos[r] + o[r].a])
             /\ out' = left(out, [r \in Live |-> out[r] + o[r].e])
             /\ resident' = left(resident, [r \in Live |-> Kept(r, o[r])])
             /\ matched' = left(matched, matched)
             /\ pin' = [r \in Req |-> pin[r] + count[r]]
             /\ guards' = [r \in Req |-> guards[r] + count[r]]
             /\ save' = [r \in Req |-> IF count[r] > 0 THEN "copying" ELSE save[r]]
             /\ deferred' = IF consume THEN {} ELSE waiting
             /\ active' = active \ released
    /\ span' = Zero /\ consume' = FALSE
    /\ pc' = "drain"
    /\ UNCHANGED <<setup, sent, submit, open, closed, tasks, reserved, queues, leased, expect,
                   cand, budget>>

-----------------------------------------------------------------------------
(* The end of the engine *)

\* The process exits: its slots and its queue get an error, the rest a closed sink.
Fatal ==
    /\ pc \in {"fatal", "desync"}
    /\ done' = [r \in Req |-> IF r \notin sent \/ done[r] # "no" THEN done[r]
                              ELSE IF r \in active \cup ToSet(pending) THEN "error" ELSE "cut"]
    /\ pc' = "exit"
    /\ UNCHANGED <<setup, sent, submit, open, closed, tasks, pins, saves, queues, slots, seqs,
                   cand, budget>>

Copying(f) == \E r \in Req : f[r] = "copying"

\* flush_loads under its deadline: no restore is in flight, or time ran out.
FlushLoads ==
    /\ pc = "teardown"
    /\ pc' = IF Copying(load) THEN "late" ELSE "flush"
    /\ UNCHANGED <<setup, clients, tasks, pins, saves, queues, slots, seqs, cand, budget>>

\* Mutant: the restores' drain is not consulted.
DispositionOfSaves(loads, flushed) == IF flushed THEN "freed" ELSE "leaked"

\* teardown_disposition.
Disposition(loads, flushed) == IF loads /\ flushed THEN "freed" ELSE "leaked"

\* flush_saves under its deadline, then the workers are freed or leaked.
FlushSaves ==
    /\ pc \in {"flush", "late"}
    /\ pc' = Disposition(pc = "flush", ~Copying(save) /\ Total(guards) = 0)
    /\ UNCHANGED <<setup, clients, tasks, pins, saves, queues, slots, seqs, cand, budget>>

-----------------------------------------------------------------------------

Engine ==
    \/ Intake \/ DropFront \/ Shed \/ Pick \/ AdmitEnds \/ Defer \/ TakePlain \/ TakeNative
    \/ StepDesyncs \/ StepSubmit \/ StepApply \/ Fatal \/ FlushLoads \/ FlushSaves

Tasks == pc # "exit" /\ \E r \in Req : Task(r)

Next ==
    \/ Engine
    \/ Tasks
    \/ pc # "exit" /\ (HangUp \/ \E r \in Req : Submit(r) \/ Disconnect(r))

\* The engine thread never blocks; the runtime's tasks, the tier's copies
\* included, finish in a bounded number of steps.
Spec == Init /\ [][Next]_vars /\ WF_vars(Engine) /\ WF_vars(Tasks)

-----------------------------------------------------------------------------
(* Properties *)

\* Every variable has its type, and no sequence holds more than its lifetime.
TypeOK ==
    /\ setup \in Setups /\ closed \subseteq sent /\ sent \subseteq setup.reqs
    /\ ToSet(submit) \cup ToSet(ready) \cup ToSet(pending) \subseteq sent
    /\ done \in [Req -> {"no", "rejected", "finished", "dropped", "error", "cut"}]
    /\ task \in [Req -> {"none", "begin", "waiting", "paused", "leased", "loading", "sent"}]
    /\ query \in [Req -> {"none", "asked", "miss", "loading", "failed", "hit"}]
    /\ load \in [Req -> {"none", "copying", "ok", "failed"}]
    /\ save \in [Req -> {"none", "copying", "landed"}]
    /\ polls \in [Req -> Nat] /\ lease \in [Req -> Nat] /\ cached \in [Req -> Nat]
    /\ hold \in [Req -> Nat] /\ reserved \in [Req -> Nat] /\ guards \in [Req -> Nat]
    /\ resident \in [Req -> Nat] /\ \A r \in active : resident[r] <= Life(r)
    /\ pin \in [Req -> Nat] /\ expect \in [Req -> Nat] /\ span \in [Req -> Nat]
    /\ pos \in [Req -> Nat] /\ out \in [Req -> Nat] /\ matched \in [Req -> Nat]
    /\ inflight \in Nat /\ budget \in Nat
    /\ active \subseteq sent /\ deferred \subseteq active /\ leased \subseteq sent
    /\ Cardinality(active) <= Slots
    /\ cand \in Req \cup {NoReq}
    /\ pc \in {"drain", "admit", "take", "step", "join", "fatal", "desync", "exit",
               "teardown", "flush", "late", "freed", "leaked"}

\* Full-lifetime reservation (admission.rs "honor-or-reject", try_admit): what
\* admitted requests may still draw is in the free pool whatever restores, saves,
\* holds and speculative give-backs do meanwhile, so no schedule call ever fails.
PromisesBacked == pc # "fatal" /\ Entitled <= Available

\* plan.rs lease_flags: a replay launched ahead never runs beside a restore's
\* host-to-device copy into the same pool.
NoLoadUnderReplay == leased # {} => ~Copying(load)

\* teardown_disposition: the model arenas are freed only when no detached copy
\* can still touch them, queries and loads abandoned at a deadline included.
ArenasOutliveDMA == pc = "freed" => ~Copying(load) /\ ~Copying(save)

\* store.rs guarded_query, LeaseGuard: every lease a tier query took is handed
\* back or consumed, the ones whose wait was abandoned too.
LeasesReturned == []<>(Total(lease) = 0)

\* Every request the engine was sent is answered: a stalled front sheds or is
\* passed, a lost race is retried, the loop does not end under a resolve.
EveryoneAnswered == []<>(\A r \in sent : done[r] # "no")

\* plan.rs: "A free-running engine ALWAYS consumes its own speculation".
NeverDesync == pc # "desync"
=============================================================================
