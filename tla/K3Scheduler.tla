----------------------------- MODULE K3Scheduler -----------------------------
(***************************************************************************)
(* The K3 schedulers of an expert-parallel world and the two ways they     *)
(* agree to prefill one long prompt together (pegainfer-k3/src/scheduler). *)
(*                                                                         *)
(* Every rank runs one scheduler thread that steps for ever.  A step's     *)
(* launch is a collective: it returns only once every rank has queued the  *)
(* launch of the same index (Paired), so a rank that waits for anything    *)
(* else can stop the world.  Both lanes must bring the members of a gang   *)
(* into one superstep at the same absolute launch:                         *)
(*   "whale" - members in different processes, through a sequencer that    *)
(*             gathers launch counts and commits to a launch ahead of all  *)
(*             of them (whale.rs, whale_hub.rs);                           *)
(*   "cp"    - partitions of one process, through a shared job board on    *)
(*             which they level their counts (gang.rs).                    *)
(* A deployment arms one lane; the initial states choose it.               *)
(***************************************************************************)
EXTENDS Integers, Sequences, FiniteSets, FiniteSetsExt, SequencesExt

CONSTANTS World,            \* ranks are 0 .. World - 1
          Width,            \* the gang width k3_whale_width picks
          Tray,             \* ranks of one tray
          Slack,            \* K3_WHALE_COMMIT_SLACK
          Latency,          \* launch periods one hub message may take
          Request, NoReq,
          Home,             \* the rank a request is submitted to
          Fickle,           \* the requests whose client may abandon them
          Setups,           \* the deployments followed: the armed lane, and what
                            \* each request is
          MaxBatch,         \* slots of one rank
          MaxTokens,        \* completion length of a request
          PrefillLaunches,  \* launches (chunks) of a local prefill
          MaxPost,          \* bound: requests arrive at or before this launch
          MaxLaunch         \* bound on the launches of a rank

Rank == 0 .. World - 1

\* "long" prompts are in a gang's window, "refused" ones are long for their
\* poster but admit no width at the sequencer, "misfit" ones exceed the
\* context, "empty" ones ask for no token, "absent" ones never come.
Kind == {"short", "long", "refused", "misfit", "empty", "absent"}

ASSUME K3Assumption ==
    /\ World \in Nat \ {0} /\ Width \in 2 .. World /\ Tray \in Nat \ {0}
    /\ Slack \in Nat /\ Latency \in Nat \ {0} /\ 2 * Latency + 1 < Slack
    /\ NoReq \notin Request /\ Home \in [Request -> Rank]
    /\ Fickle \subseteq Request
    /\ Setups \subseteq [lane : {"whale", "cp"}, kind : [Request -> Kind]]
    /\ {MaxBatch, MaxTokens, PrefillLaunches} \subseteq Nat \ {0}
    /\ MaxPost \in Nat /\ MaxLaunch \in Nat

VARIABLES
    lane, kind,     \* the armed lane and the requests' kinds, fixed
    count,          \* steps_launched of each rank
    pc,             \* where each scheduler thread is
    state,          \* per request: where it is, or how it was answered
    toks,           \* per request: tokens in the ledger
    aborted,        \* requests whose abort flag is set
    queued,         \* per rank: requests waiting for a slot, in submit order
    free,           \* per rank: free slots
    work,           \* per rank: the request whose prefill runs, or NoReq
    left,           \* per rank: launches its local prefill still has to make
    seqr,           \* the sequencer: next_seq, committed_floor, gathering, queue
    up, down,       \* per rank: FIFO links to and from the sequencer
    armed,          \* per rank: the gathered whales awaiting their commit
    committed,      \* per rank: committed whales in launch order
    posted,         \* per rank: the outstanding post (or NoPost) ...
    fallback,       \* ... and the cancelled one, to be prefilled locally
    jobs, nextId,   \* the gang board: the pending jobs by id
    horizon,        \* per rank: last job id its run_jobs pass serves
    job,            \* per rank: id of the job it computes
    entered,        \* <<superstep, rank, launch>> of every superstep entry
    fatal           \* ranks whose step returned an error (engine-fatal)

hub == <<seqr, up, down>>
member == <<armed, committed>>
post == <<posted, fallback>>
board == <<jobs, nextId, horizon, job>>
batch == <<state, toks, queued, free>>
const == <<lane, kind>>
vars == <<const, count, pc, batch, aborted, work, left, hub, member, post, board,
          entered, fatal>>

NoPost == [req |-> NoReq, seq |-> -1]
None == [seq |-> -1, req |-> NoReq]
Over == {"answered", "retired"}   \* finished, failed or rejected; or dropped in silence

-----------------------------------------------------------------------------
(* Launches                                                                *)

\* The collective of r's last launch is complete: every rank has queued it.
Paired(r) == \A q \in Rank : count[q] >= count[r]

\* The newest launch any rank has queued: the fleet's clock.
Now == Max({count[r] : r \in Rank})

\* A message sent now is handed over within Latency launch periods: a rank
\* does not queue launch n while the sequencer has one due before n unread.
Timely(n) == \A r \in Rank : \A i \in 1 .. Len(up[r]) : n <= up[r][i].due

\* The bound: the world is followed while a request is, or may still be, open.
Live ==
    \E q \in Request :
        IF state[q] = "new" THEN kind[q] # "absent" /\ count[Home[q]] <= MaxPost ELSE state[q] \notin Over

\* steps_launched += 1
Launch(r) ==
    /\ Live /\ count[r] < MaxLaunch
    /\ Timely(count[r] + 1)
    /\ count' = [count EXCEPT ![r] = @ + 1]

Goto(r, where) == pc' = [pc EXCEPT ![r] = where]

Stamp(m) == [m |-> m, due |-> Now + Latency]

Fail(r) == fatal' = fatal \cup {r} /\ Goto(r, "dead")

-----------------------------------------------------------------------------
(* The whale sequencer (whale.rs, WhaleSequencer)                          *)

\* k3_whale_gang: the contiguous block of ranks holding the poster.
Gang(poster) ==
    LET base == IF Width >= Tray THEN (poster \div Tray) * Tray ELSE poster
        start == Min({base, World - Width})
    IN  start .. start + Width - 1

\* The outbound messages addressed to r, in the order they are listed.
Mail(r, out) ==
    LET f[n \in 0 .. Len(out)] ==
            IF n = 0 THEN <<>>
            ELSE IF r \in out[n].to THEN Append(f[n - 1], Stamp(out[n].m)) ELSE f[n - 1]
    IN  f[Len(out)]

Deliver(links, out) == [r \in Rank |-> links[r] \o Mail(r, out)]

\* start_next_gather: refuse what admits no width, gather the first that does.
StartNextGather(s) ==
    LET open == {i \in 1 .. Len(s.queue) : kind[s.queue[i]] # "refused"}
        drop == IF s.gathering # None THEN 0
                ELSE IF open = {} THEN Len(s.queue) ELSE Min(open) - 1
        refusals == [i \in 1 .. drop |->
            [to |-> {Home[s.queue[i]]}, m |-> [type |-> "Cancel", seq |-> s.next + i - 1]]]
    IN  IF s.gathering # None \/ open = {}
        THEN [s |-> [s EXCEPT !.next = @ + drop, !.queue = SubSeq(@, drop + 1, Len(@))],
              out |-> refusals]
        ELSE LET d == [seq |-> s.next + drop, req |-> s.queue[drop + 1]]
             IN  [s |-> [s EXCEPT !.next = @ + drop + 1, !.queue = SubSeq(@, drop + 2, Len(@)),
                                  !.gathering = d, !.replies = {}],
                  out |-> Append(refusals, [to |-> Gang(Home[d.req]),
                                            m |-> [type |-> "Gather", seq |-> d.seq, req |-> d.req]])]

\* Mutant: one launch less of slack.
CommitLaunchTight(s) ==
    Max({e.count + Slack - 1 : e \in s.replies} \cup {s.floor + 1})

\* The launch try_commit names: ahead of every gathered count and of the
\* previous whale's superstep.
CommitLaunch(s) ==
    Max({e.count + Slack : e \in s.replies} \cup {s.floor + 1})

Ask(r, m) ==
    LET s == [seqr EXCEPT !.queue = Append(@, m.req)]
        g == StartNextGather(s)
    IN  seqr' = g.s /\ down' = Deliver(down, g.out) /\ UNCHANGED <<fatal, pc>>

\* A Ready of a whale that is no longer gathered is stale and ignored.
Reply(r, m) ==
    IF seqr.gathering = None \/ seqr.gathering.seq # m.seq
    THEN UNCHANGED <<seqr, down, fatal, pc>>
    ELSE LET s == [seqr EXCEPT !.replies = @ \cup {[rank |-> r, count |-> m.count]}]
             gang == Gang(Home[seqr.gathering.req])
             twice == \E e \in seqr.replies : e.rank = r
             launch == CommitLaunch(s)
             g == StartNextGather([s EXCEPT !.gathering = None, !.replies = {},
                                            !.floor = launch])
         IN  IF r \notin gang \/ twice
             THEN Fail(r) /\ UNCHANGED <<seqr, down>>
             ELSE IF {e.rank : e \in s.replies} # gang
             THEN seqr' = s /\ UNCHANGED <<down, fatal, pc>>
             ELSE /\ seqr' = g.s
                  /\ down' = Deliver(down, <<[to |-> gang, m |-> [type |-> "Commit",
                        seq |-> seqr.gathering.seq, launch |-> launch]]>> \o g.out)
                  /\ UNCHANGED <<fatal, pc>>

\* The sequencer thread consumes one message (on_message).
SequencerStep(r) ==
    /\ up[r] # <<>>
    /\ up' = [up EXCEPT ![r] = Tail(@)]
    /\ LET m == Head(up[r]).m
       IN  IF m.type = "Request" THEN Ask(r, m) ELSE Reply(r, m)
    /\ UNCHANGED <<const, count, batch, aborted, work, left, member, post, board, entered>>

\* Mutant: the timeout does not start the next gather.
GatherTimeoutOnly ==
    /\ seqr.gathering # None
    /\ seqr' = [seqr EXCEPT !.gathering = None, !.replies = {}]
    /\ down' = Deliver(down, <<[to |-> Gang(Home[seqr.gathering.req]),
                               m |-> [type |-> "Cancel", seq |-> seqr.gathering.seq]]>>)
    /\ UNCHANGED <<const, count, pc, batch, aborted, work, left, up, member, post, board,
                   entered, fatal>>

\* on_gather_timeout: cancel the whale being gathered and start the next.
GatherTimeout ==
    /\ seqr.gathering # None
    /\ LET d == seqr.gathering
           g == StartNextGather([seqr EXCEPT !.gathering = None, !.replies = {}])
       IN  /\ seqr' = g.s
           /\ down' = Deliver(down, <<[to |-> Gang(Home[d.req]),
                        m |-> [type |-> "Cancel", seq |-> d.seq]]>> \o g.out)
    /\ UNCHANGED <<const, count, pc, batch, aborted, work, left, up, member, post, board,
                   entered, fatal>>

-----------------------------------------------------------------------------
(* Answers and slots                                                       *)

\* Mutant: the executor's state goes, the scheduler's reservation stays.
CloseKeepsSlot(r, S, G) ==
    /\ toks' = [q \in Request |-> IF q \in S THEN 0 ELSE IF q \in G THEN toks[q] + 1 ELSE toks[q]]
    /\ UNCHANGED free

\* The streams of S end and their ledger accounts close; every other stream
\* of G has gained a token.  release_slot gives r the slots of S back.
Close(r, S, G) ==
    /\ toks' = [q \in Request |-> IF q \in S THEN 0 ELSE IF q \in G THEN toks[q] + 1 ELSE toks[q]]
    /\ free' = [free EXCEPT ![r] = @ + Cardinality(S)]

\* An abandoned request is dropped in silence, any other is answered.
FinishOrRetire(S) ==
    state' = [q \in Request |-> IF q \notin S THEN state[q]
                                ELSE IF q \in aborted THEN "retired" ELSE "answered"]

\* An error is written to the ledger whatever the abort flag says.
FailAll(S) == state' = [q \in Request |-> IF q \in S THEN "answered" ELSE state[q]]

\* commit_first_token: the first token may end the stream.
CommitFirstToken(r, q) ==
    \/ FinishOrRetire({q}) /\ Close(r, {q}, {})
    \/ /\ MaxTokens > 1
       /\ state' = [state EXCEPT ![q] = "running"]
       /\ Close(r, {}, {q})

Running(r) == {q \in Request : Home[q] = r /\ state[q] = "running"}

-----------------------------------------------------------------------------
(* The whale member (whale.rs, WhaleMember; mod.rs, serve_whale_lane)      *)

\* Mutant: any cancel read before the own gather refuses the post.
RefusedByAny(r, seq) == posted[r] # NoPost /\ posted[r].seq \in {-1, seq}

\* track_own_post, for a cancel: is it this rank's outstanding post that the
\* sequencer gave up on?
Refused(r, seq) ==
    /\ posted[r] # NoPost
    /\ \/ posted[r].seq = seq
       \/ posted[r].seq = -1 /\ \A d \in armed[r] : d.seq # seq

TakeGather(r, m) ==
    /\ posted' = [posted EXCEPT ![r] =
           IF @.req = m.req /\ Home[m.req] = r THEN [@ EXCEPT !.seq = m.seq] ELSE @]
    /\ armed' = [armed EXCEPT ![r] = @ \cup {[seq |-> m.seq, req |-> m.req]}]
    /\ up' = [up EXCEPT ![r] = Append(@, Stamp([type |-> "Ready", seq |-> m.seq,
                                                 count |-> count[r]]))]
    /\ UNCHANGED <<pc, fatal, committed, fallback, state>>

TakeCommit(r, m) ==
    LET at == {d \in armed[r] : d.seq = m.seq}
        late == m.launch <= count[r]
        disordered == committed[r] # <<>> /\ m.launch <= Last(committed[r]).launch
    IN  IF at = {} \/ late \/ disordered
        THEN Fail(r) /\ UNCHANGED <<member, posted, fallback, up, state>>
        ELSE /\ \E d \in at :
                    /\ armed' = [armed EXCEPT ![r] = @ \ {d}]
                    /\ committed' = [committed EXCEPT ![r] = Append(@,
                           [seq |-> m.seq, req |-> d.req, launch |-> m.launch])]
             /\ UNCHANGED <<pc, fatal, posted, fallback, up, state>>

TakeCancel(r, m) ==
    /\ IF Refused(r, m.seq)
       THEN /\ fallback' = [fallback EXCEPT ![r] = posted[r]]
            /\ posted' = [posted EXCEPT ![r] = NoPost]
            /\ state' = [state EXCEPT ![posted[r].req] = "fallback"]
       ELSE UNCHANGED <<posted, fallback, state>>
    /\ armed' = [armed EXCEPT ![r] = {d \in @ : d.seq # m.seq}]
    /\ UNCHANGED <<pc, fatal, committed, up>>

\* serve_whale_lane drains the rank's mailbox, one message at a time.
ServeMessage(r) ==
    /\ pc[r] = "top" /\ down[r] # <<>>
    /\ down' = [down EXCEPT ![r] = Tail(@)]
    /\ LET m == Head(down[r]).m
       IN  CASE m.type = "Gather" -> TakeGather(r, m)
             [] m.type = "Commit" -> TakeCommit(r, m)
             [] m.type = "Cancel" -> TakeCancel(r, m)
    /\ UNCHANGED <<const, count, toks, queued, free, aborted, work, left, seqr, board, entered>>

\* A message may stay in flight past this boundary only until it is due.
Drained(r) == down[r] # <<>> => Head(down[r]).due > count[r]

IsQuiet(r) == armed[r] = {} /\ committed[r] = <<>>

\* Mutant: a committed whale is entered at the next boundary.
AtLaunchAtOnce(r) == IF committed[r] = <<>> THEN "free" ELSE "enter"

\* at_launch: a committed whale is entered at its launch and nowhere else.
AtLaunch(r) ==
    IF committed[r] = <<>> \/ Head(committed[r]).launch > count[r] THEN "free"
    ELSE IF Head(committed[r]).launch = count[r] THEN "enter" ELSE "passed"

\* enter_whale, up to the executor call.
EnterWhale(r) ==
    LET w == Head(committed[r])
        owner == Home[w.req] = r
    IN  IF owner /\ posted[r].req # w.req
        THEN Fail(r) /\ UNCHANGED <<committed, posted, work, job, entered>>
        ELSE /\ committed' = [committed EXCEPT ![r] = Tail(@)]
             /\ posted' = IF owner THEN [posted EXCEPT ![r] = NoPost] ELSE posted
             /\ work' = [work EXCEPT ![r] = IF owner THEN w.req ELSE NoReq]
             /\ job' = [job EXCEPT ![r] = [seq |-> w.seq, req |-> w.req]]
             /\ entered' = entered \cup {<<w.seq, r, count[r]>>}
             /\ Goto(r, "whale") /\ UNCHANGED fatal

ServeEnter(r) ==
    /\ lane = "whale" /\ pc[r] = "top" /\ Drained(r) /\ AtLaunch(r) # "free"
    /\ IF AtLaunch(r) = "passed"
       THEN Fail(r) /\ UNCHANGED <<committed, posted, work, job, entered>>
       ELSE EnterWhale(r)
    /\ UNCHANGED <<const, count, batch, aborted, left, hub, armed, fallback, jobs, nextId, horizon>>

\* A pending whale restricts the step to single-launch work; otherwise a
\* cancelled post is prefilled here (run_whale_fallback), then admissions run.
ServeFree(r) ==
    /\ lane = "whale" /\ pc[r] = "top" /\ Drained(r) /\ AtLaunch(r) = "free"
    /\ LET q == fallback[r].req
       IN  IF ~IsQuiet(r) THEN Goto(r, "admitHeld") /\ UNCHANGED <<batch, fallback, work, left>>
           ELSE IF fallback[r] = NoPost
           THEN Goto(r, "admit") /\ UNCHANGED <<batch, fallback, work, left>>
           ELSE /\ fallback' = [fallback EXCEPT ![r] = NoPost]
                /\ UNCHANGED queued
                /\ IF q \in aborted
                   THEN FinishOrRetire({q}) /\ Close(r, {q}, {}) /\ Goto(r, "admit") /\ UNCHANGED <<work, left>>
                   ELSE /\ work' = [work EXCEPT ![r] = q]
                        /\ left' = [left EXCEPT ![r] = PrefillLaunches]
                        /\ state' = [state EXCEPT ![q] = "prefill"]
                        /\ Goto(r, "prefill") /\ UNCHANGED <<free, toks>>
    /\ UNCHANGED <<const, count, aborted, hub, member, posted, board, entered, fatal>>

\* p has begun superstep id: it is armed, or its windows have rung.
Entered(p, id) == \E e \in entered : e[1] = id /\ e[2] = p

\* cp_superstep returns when the device is done: r's launch has paired and every
\* exchange window has met its counterpart, for which each member's own launch
\* has to be queued and paired, or is already over.
Stitched(r, gang) ==
    /\ Paired(r)
    /\ \A p \in gang : /\ Entered(p, job[r].seq)
                       /\ job[p].seq = job[r].seq => pc[p] \in {"whaleWait", "cpWait"} /\ Paired(p)

\* prefill_whale: one launch.
WhaleLaunch(r) ==
    /\ pc[r] = "whale" /\ Launch(r) /\ Goto(r, "whaleWait")
    /\ UNCHANGED <<const, batch, aborted, work, left, hub, member, post, board, entered, fatal>>

WhaleReturn(r) ==
    /\ pc[r] = "whaleWait" /\ Stitched(r, Gang(Home[job[r].req]))
    /\ Goto(r, "top")
    /\ job' = [job EXCEPT ![r] = None]
    /\ work' = [work EXCEPT ![r] = NoReq]
    /\ IF work[r] = NoReq THEN UNCHANGED batch
       ELSE /\ IF work[r] \in aborted 
               THEN FinishOrRetire({work[r]}) /\ Close(r, {work[r]}, {})
               ELSE CommitFirstToken(r, work[r])
            /\ UNCHANGED queued
    /\ UNCHANGED <<const, count, aborted, left, hub, member, post, jobs, nextId, horizon,
                   entered, fatal>>

-----------------------------------------------------------------------------
(* Admission (mod.rs, admit_queued)                                        *)

Pop(r) == queued' = [queued EXCEPT ![r] = Tail(@)]

\* Verdicts that never touch the device: abandoned, misfit, empty.
AdmitVerdict(r) ==
    /\ pc[r] \in {"admit", "admitHeld"} /\ free[r] > 0 /\ queued[r] # <<>>
    /\ LET q == Head(queued[r])
       IN  /\ q \in aborted \/ kind[q] \in {"misfit", "empty"}
           /\ state' = [state EXCEPT ![q] = IF q \in aborted THEN "retired" ELSE "answered"]
    /\ Pop(r)
    /\ UNCHANGED <<const, count, pc, toks, free, aborted, work, left, hub, member, post, board,
                   entered, fatal>>

\* Mutant: admission does not look at the free slots.
RunsAnyway(r, kinds) ==
    /\ queued[r] # <<>>
    /\ Head(queued[r]) \notin aborted /\ kind[Head(queued[r])] \in kinds

\* A head that is to run, given a free slot.
Runs(r, kinds) ==
    /\ free[r] > 0 /\ queued[r] # <<>>
    /\ Head(queued[r]) \notin aborted /\ kind[Head(queued[r])] \in kinds

WhaleKinds == IF lane = "whale" THEN {"long", "refused"} ELSE {}
GangKinds == IF lane = "cp" THEN {"long"} ELSE {}
LocalKinds == {"short", "long", "refused"} \ (WhaleKinds \cup GangKinds)

\* One post per rank is outstanding; a second long prompt waits at the head.
MayPost(r) == posted[r] = NoPost /\ fallback[r] = NoPost

PostWhale(r) ==
    /\ pc[r] \in {"admit", "admitHeld"} /\ Runs(r, WhaleKinds) /\ MayPost(r)
    /\ LET q == Head(queued[r])
       IN  /\ posted' = [posted EXCEPT ![r] = [req |-> q, seq |-> -1]]
           /\ up' = [up EXCEPT ![r] = Append(@, Stamp([type |-> "Request", req |-> q]))]
           /\ state' = [state EXCEPT ![q] = "posted"]
    /\ free' = [free EXCEPT ![r] = @ - 1]
    /\ Pop(r)
    /\ UNCHANGED <<const, count, pc, toks, aborted, work, left, seqr, down, member, fallback,
                   board, entered, fatal>>

\* A prefill on the rank's own device: several launches, so never while a
\* whale is pending.
PrefillStart(r) ==
    /\ pc[r] = "admit" /\ Runs(r, LocalKinds)
    /\ LET q == Head(queued[r])
       IN  work' = [work EXCEPT ![r] = q] /\ state' = [state EXCEPT ![q] = "prefill"]
    /\ left' = [left EXCEPT ![r] = PrefillLaunches]
    /\ free' = [free EXCEPT ![r] = @ - 1]
    /\ Pop(r) /\ Goto(r, "prefill")
    /\ UNCHANGED <<const, count, toks, aborted, hub, member, post, board, entered, fatal>>

PrefillLaunch(r) ==
    /\ pc[r] = "prefill" /\ left[r] > 0 /\ Paired(r) /\ Launch(r)
    /\ left' = [left EXCEPT ![r] = @ - 1]
    /\ UNCHANGED <<const, pc, batch, aborted, work, hub, member, post, board, entered, fatal>>

\* The prompt is ingested, or the prefill failed and fails this request only.
PrefillReturn(r) ==
    /\ pc[r] = "prefill" /\ left[r] = 0 /\ Paired(r)
    /\ \/ CommitFirstToken(r, work[r])
       \/ FailAll({work[r]}) /\ Close(r, {work[r]}, {})
    /\ work' = [work EXCEPT ![r] = NoReq]
    /\ Goto(r, "admit")
    /\ UNCHANGED <<const, count, queued, aborted, left, hub, member, post, board, entered, fatal>>

\* The loop ends: no slot, nothing queued, or a head that has to wait.
AdmitDone(r) ==
    /\ pc[r] \in {"admit", "admitHeld"}
    /\ \/ free[r] = 0 \/ queued[r] = <<>>
       \/ Runs(r, WhaleKinds) /\ ~MayPost(r)
       \/ Runs(r, LocalKinds) /\ pc[r] = "admitHeld"

-----------------------------------------------------------------------------
(* The CP gang (gang.rs)                                                   *)

\* post_and_run: a job on the board, and the poster serves up to it.
PostJob(r) ==
    /\ pc[r] = "admit" /\ Runs(r, GangKinds)
    /\ LET q == Head(queued[r])
           new == [req |-> q, entries |-> [p \in Rank |-> -1], done |-> {}]
       IN  /\ jobs' = [i \in DOMAIN jobs \cup {nextId} |-> IF i = nextId THEN new ELSE jobs[i]]
           /\ work' = [work EXCEPT ![r] = q] /\ state' = [state EXCEPT ![q] = "prefill"]
    /\ nextId' = nextId + 1
    /\ horizon' = [horizon EXCEPT ![r] = nextId]
    /\ free' = [free EXCEPT ![r] = @ - 1]
    /\ Pop(r) /\ Goto(r, "gang")
    /\ UNCHANGED <<const, count, toks, aborted, left, hub, member, post, job, entered, fatal>>

\* The jobs up to the horizon that r has not run; run_jobs takes the oldest.
Pending(r) == {id \in DOMAIN jobs : id <= horizon[r] /\ r \notin jobs[id].done}

\* The board's level: known once every partition has checked in.
Level(entries) ==
    IF \E p \in Rank : entries[p] = -1 THEN -1 ELSE Max({entries[p] : p \in Rank})

\* One pass over the board under its lock: compute when level, pump if not.
GangPass(r) ==
    /\ pc[r] = "gang"
    /\ LET at == Min(Pending(r))
           here == [jobs[at].entries EXCEPT ![r] = count[r]]
       IN  IF Pending(r) = {} THEN Goto(r, "admit") /\ UNCHANGED <<jobs, job, entered>>
           ELSE IF Level(here) = count[r]
           THEN /\ jobs' = [jobs EXCEPT ![at].entries = here]
                /\ job' = [job EXCEPT ![r] = [seq |-> at, req |-> jobs[at].req]]
                /\ entered' = entered \cup {<<at, r, count[r]>>}
                /\ Goto(r, "cp")
           ELSE /\ jobs' = [jobs EXCEPT ![at].entries = [here EXCEPT ![r] = count[r] + 1]]
                /\ Goto(r, "pump") /\ UNCHANGED <<job, entered>>
    /\ UNCHANGED <<const, count, batch, aborted, work, left, hub, member, post, nextId, horizon,
                   fatal>>

\* pump_step: a padding launch, waited for before the board is read again.
PumpLaunch(r) ==
    /\ pc[r] = "pump" /\ Launch(r) /\ Goto(r, "pumpWait")
    /\ UNCHANGED <<const, batch, aborted, work, left, hub, member, post, board, entered, fatal>>

PumpReturn(r) ==
    /\ pc[r] = "pumpWait" /\ Paired(r) /\ Goto(r, "gang")
    /\ UNCHANGED <<const, count, batch, aborted, work, left, hub, member, post, board, entered,
                   fatal>>

\* prefill_cp: the gang's threads meet at a barrier (publish_and_snapshot), then
\* each makes its launch.
CpLaunch(r) ==
    /\ pc[r] = "cp" /\ \A p \in Rank : Entered(p, job[r].seq)
    /\ Launch(r) /\ Goto(r, "cpWait")
    /\ UNCHANGED <<const, batch, aborted, work, left, hub, member, post, board, entered, fatal>>

\* The segment is done: mark it executed, drop finished jobs; the owner's
\* boundary token is the request's first.
CpReturn(r) ==
    /\ pc[r] = "cpWait" /\ Stitched(r, Rank)
    /\ LET marked == [jobs EXCEPT ![job[r].seq].done = @ \cup {r}]
       IN  jobs' = [id \in {i \in DOMAIN jobs : marked[i].done # Rank} |-> marked[id]]
    /\ job' = [job EXCEPT ![r] = None]
    /\ IF Home[job[r].req] = r
       THEN /\ CommitFirstToken(r, work[r]) /\ UNCHANGED queued
            /\ work' = [work EXCEPT ![r] = NoReq] /\ Goto(r, "admit")
       ELSE Goto(r, "gang") /\ UNCHANGED <<batch, work>>
    /\ UNCHANGED <<const, count, aborted, left, hub, member, post, nextId, horizon, entered, fatal>>

-----------------------------------------------------------------------------
(* Steps (mod.rs, submit, step, decode_running)                            *)

\* Requests arrive between two steps.
Submit(q) ==
    /\ state[q] = "new" /\ kind[q] # "absent" /\ pc[Home[q]] = "top" /\ count[Home[q]] <= MaxPost
    /\ state' = [state EXCEPT ![q] = "queued"]
    /\ queued' = [queued EXCEPT ![Home[q]] = Append(@, q)]
    /\ UNCHANGED <<const, count, pc, toks, free, aborted, work, left, hub, member, post, board,
                   entered, fatal>>

\* The frontend may abandon a request at any moment.
Abort(q) ==
    /\ q \in Fickle /\ state[q] \notin Over \cup {"new"} /\ q \notin aborted
    /\ aborted' = aborted \cup {q}
    /\ UNCHANGED <<const, count, pc, batch, work, left, hub, member, post, board, entered, fatal>>

\* A step first serves the gang board, up to its last job, then admits; in
\* the whale lane it begins at the mailbox.
StepStart(r) ==
    /\ lane = "cp" /\ pc[r] = "top"
    /\ IF DOMAIN jobs # {}
       THEN horizon' = [horizon EXCEPT ![r] = Max(DOMAIN jobs)] /\ Goto(r, "gang")
       ELSE UNCHANGED horizon /\ Goto(r, "admit")
    /\ UNCHANGED <<const, count, batch, aborted, work, left, hub, member, post, jobs, nextId, job,
                   entered, fatal>>

\* retire_aborted, then one launch, live rows or not.
DecodeLaunch(r) ==
    /\ AdmitDone(r) /\ Launch(r) /\ Goto(r, "decodeWait")
    /\ FinishOrRetire(Running(r) \cap aborted) /\ Close(r, Running(r) \cap aborted, {})
    /\ UNCHANGED <<const, queued, aborted, work, left, hub, member, post, board, entered, fatal>>

\* Every live row gains a token; streams end at a stop token or their length.
\* A failed step fails the whole batch and the scheduler goes on.
DecodeReturn(r) ==
    /\ pc[r] = "decodeWait" /\ Paired(r) /\ Goto(r, "top")
    /\ LET full == {q \in Running(r) : toks[q] + 1 >= MaxTokens}
       IN  \/ \E stop \in SUBSET Running(r) :
                  FinishOrRetire(stop \cup full) /\ Close(r, stop \cup full, Running(r))
           \/ FailAll(Running(r)) /\ Close(r, Running(r), {})
    /\ UNCHANGED <<const, count, queued, aborted, work, left, hub, member, post, board, entered,
                   fatal>>

\* Beyond the bound nothing is followed.
Horizon == (Live => Now = MaxLaunch) /\ UNCHANGED vars

RankStep(r) ==
    \/ StepStart(r) \/ ServeMessage(r) \/ ServeEnter(r) \/ ServeFree(r)
    \/ WhaleLaunch(r) \/ WhaleReturn(r)
    \/ AdmitVerdict(r) \/ PostWhale(r)
    \/ PrefillStart(r) \/ PrefillLaunch(r) \/ PrefillReturn(r)
    \/ PostJob(r) \/ GangPass(r) \/ PumpLaunch(r) \/ PumpReturn(r)
    \/ CpLaunch(r) \/ CpReturn(r)
    \/ DecodeLaunch(r) \/ DecodeReturn(r)

Init ==
    /\ \E s \in Setups : lane = s.lane /\ kind = s.kind
    /\ count = [r \in Rank |-> 0] /\ pc = [r \in Rank |-> "top"]
    /\ state = [q \in Request |-> "new"] /\ toks = [q \in Request |-> 0]
    /\ aborted = {} /\ queued = [r \in Rank |-> <<>>] /\ free = [r \in Rank |-> MaxBatch]
    /\ work = [r \in Rank |-> NoReq] /\ left = [r \in Rank |-> 0]
    /\ seqr = [next |-> 0, floor |-> -1, gathering |-> None, replies |-> {}, queue |-> <<>>]
    /\ up = [r \in Rank |-> <<>>] /\ down = [r \in Rank |-> <<>>]
    /\ armed = [r \in Rank |-> {}] /\ committed = [r \in Rank |-> <<>>]
    /\ posted = [r \in Rank |-> NoPost] /\ fallback = [r \in Rank |-> NoPost]
    /\ jobs = <<>> /\ nextId = 0
    /\ horizon = [r \in Rank |-> 0] /\ job = [r \in Rank |-> None]
    /\ entered = {} /\ fatal = {}

Progress == \E r \in Rank : RankStep(r) \/ SequencerStep(r)

Next ==
    \/ Progress
    \/ GatherTimeout
    \/ \E q \in Request : Submit(q) \/ Abort(q)
    \/ Horizon

\* Some thread that can run does.  That is enough to be fair to each of them:
\* no rank gets more than one launch ahead of another, and no launch ahead of
\* a message that is due.  Nothing makes a request arrive, be abandoned, or a
\* gather time out.
Spec == Init /\ [][Next]_vars /\ WF_vars(Progress)

-----------------------------------------------------------------------------
(* Properties                                                              *)

\* Every variable has its type; no slot or token count leaves its range.
TypeOK ==
    /\ count \in [Rank -> 0 .. MaxLaunch] /\ left \in [Rank -> 0 .. PrefillLaunches]
    /\ pc \in [Rank -> {"top", "whale", "whaleWait", "admit", "admitHeld", "prefill", "gang",
                        "pump", "pumpWait", "cp", "cpWait", "decodeWait", "dead"}]
    /\ state \in [Request -> {"new", "queued", "posted", "fallback", "prefill", "running"} \cup Over]
    /\ free \in [Rank -> 0 .. MaxBatch] /\ work \in [Rank -> Request \cup {NoReq}]
    /\ toks \in [Request -> 0 .. MaxTokens] /\ aborted \subseteq Request
    /\ fatal \subseteq Rank

\* No rank ever takes an engine-fatal path of the rendezvous: a commit never
\* arrives late or out of order or for a whale the member did not gather, a
\* superstep's boundary is never passed, and the commit of a post finds its
\* poster still waiting for exactly that request (whale.rs on_message and
\* at_launch, mod.rs enter_whale).
NeverFatal == fatal = {}

\* Unanimity: everyone who enters a superstep does so at the same launch, and
\* a launch belongs to at most one superstep (headers of whale.rs and gang.rs).
OneLaunchPerSuperstep ==
    \A e, f \in entered : (e[1] = f[1]) <=> (e[3] = f[3])

\* A cancel is paired with the right post: a request that fell back to a local
\* prefill is not also armed or committed as a whale anywhere its cancel was
\* read, and never committed at all (mod.rs track_own_post).
FallbackMeansCancelled ==
    \A r \in Rank : fallback[r] # NoPost =>
        /\ \A d \in armed[r] : d.req # fallback[r].req
        /\ \A p \in Rank : \A i \in 1 .. Len(committed[p]) : committed[p][i].req # fallback[r].req

\* Slots are conserved: every slot is free or held by exactly one request,
\* through posts, fallbacks, failed prefills and aborts (mod.rs release_slot).
SlotsConserved ==
    \A r \in Rank : free[r] + Cardinality({q \in Request : Home[q] = r
        /\ state[q] \in {"posted", "fallback", "prefill", "running"}}) = MaxBatch

\* Every request that reached a scheduler is eventually answered or retired,
\* however gathers time out and gangs level: no rank waits quietly for a
\* peer that needs its launch, and no queued whale is stranded.
EveryoneAnswered == []<>(\A q \in Request : state[q] \in Over \cup {"new"})
=============================================================================
