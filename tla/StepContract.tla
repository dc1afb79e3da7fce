----------------------------- MODULE StepContract -----------------------------
(***************************************************************************)
(* The contract between the frontend and one scheduler: the driver thread  *)
(* (engine/driver.rs) with its account book (engine/ledger.rs), the        *)
(* envelopes and deferred finishes that carry a request outside the book   *)
(* (engine/request_lifecycle.rs, engine/wiring.rs), and the bridge task    *)
(* that turns steps into client streams (vllm/bridge/stepped.rs).          *)
(*                                                                         *)
(* Three parties run concurrently: the driver thread, whatever threads     *)
(* hold deferred finishes, and the bridge task.  They share the submission *)
(* channel, the step stream, the abort flags and the exit token.  The      *)
(* scheduler is any implementation of the trait: inside a step it makes    *)
(* ledger calls that the ledger's assertions allow, in any order, and it   *)
(* may fail, panic, or lose track of a request.                            *)
(***************************************************************************)
EXTENDS Integers, Sequences, FiniteSets

CONSTANTS Name,         \* request ids of the wire; a client may use one again
          NoName,
          MaxRequests,  \* bound on the requests submitted
          MaxTokens,    \* bound on the tokens of one request
          MaxSteps,     \* bound on the steps the scheduler takes ahead of the bridge
          Extras        \* what occurs beyond tokens: "facts" (KV transfer metadata), "good"
                        \* or "bad" prompt echoes (that do not convert), "bare" stops

ASSUME ContractAssumption ==
    /\ NoName \notin Name /\ MaxRequests \in Nat \ {0} /\ MaxTokens \in Nat
    /\ MaxSteps \in Nat \ {0} /\ Extras \subseteq {"facts", "good", "bad", "bare"}

VARIABLES
    nextId,       \* requests submitted so far (SchedulerHandle::next_id)
    submissions,  \* the submission channel: ids in their envelopes
    abort,        \* Id -> the flag shared with RequestControl
    driver,       \* where the driver thread is
    open,         \* submissions_open
    held,         \* requests the scheduler counts as running or waiting
    accounts,     \* Id -> the ledger's account
    statement,    \* Id -> the update buffered for this step
    deferred,     \* Id -> the update of a DeferredFinish not yet sent
    steps,        \* the step stream: a sequence of [Id -> update]
    exited,       \* the exit token is cancelled
    lost,         \* requests whose recorded answer died with the statement
    bridge,       \* "up", "draining" after its loop ended, "down"
    names,        \* Name -> id
    streams,      \* Id -> SteppedStream
    owner,        \* Name -> the request a client means by it
    out           \* Id -> what the client was sent for its request

engine == <<driver, open, held, accounts, statement, lost>>
front == <<nextId, bridge, names, streams, owner, out>>
vars == <<nextId, submissions, abort, driver, open, held, accounts, statement, deferred,
          steps, exited, lost, bridge, names, streams, owner, out>>

Id == 1..MaxRequests
NoId == 0
\* The suffix of a bare stop; no engine pushes it, and no tally counts it.
Sentinel == <<NoId, 0>>
Token == (Id \X (1..MaxTokens)) \cup {Sentinel}
\* Whether a finish is bare: FinishReason::Stop without a typed cause, from a
\* producer that suppresses the token it stopped at, for a request that has a
\* stop_sentinel_id.  Without one the bridge treats it as any other finish.
Bare == IF "bare" \in Extras THEN BOOLEAN ELSE {FALSE}
Terminals == {"finished", "rejected", "failed"}
DriverPhases == {"drain", "step", "commit", "commitErr", "fatal", "exiting", "unwinding",
                 "sweeping", "closing", "discarding", "gone"}

\* RequestUpdate::empty: nothing to say about the request.
Empty == [sched |-> FALSE, toks |-> <<>>, meta |-> FALSE, echo |-> "none",
          term |-> "none", bare |-> FALSE, count |-> 0]
NoUpdates == [r \in Id |-> Empty]
Failed(n) == [Empty EXCEPT !.term = "failed", !.count = n]
Solo(r, u) == [NoUpdates EXCEPT ![r] = u]

NoAccount == [state |-> "none", tally |-> 0, noted |-> FALSE, echoed |-> FALSE]
Queued == [state |-> "queued", tally |-> 0, noted |-> FALSE, echoed |-> FALSE]
NoStream == [name |-> NoName, sched |-> "none", meta |-> FALSE]
NewStream(n) == [name |-> n, sched |-> "none", meta |-> FALSE]
Silent == [toks |-> <<>>, sched |-> 0, meta |-> FALSE, end |-> "no"]

IsOpen(r) == accounts[r].state \in {"queued", "active"}
Active(r) == accounts[r].state = "active"
Waiting(r) == streams[r] # NoStream

Init ==
    /\ nextId = 0 /\ submissions = <<>> /\ steps = <<>>
    /\ abort = [r \in Id |-> FALSE]
    /\ driver = "drain" /\ open = TRUE /\ held = {}
    /\ accounts = [r \in Id |-> NoAccount]
    /\ statement = NoUpdates /\ deferred = NoUpdates
    /\ exited = FALSE /\ lost = {} /\ bridge = "up"
    /\ names = [n \in Name |-> NoId]
    /\ owner = [n \in Name |-> NoId]
    /\ streams = [r \in Id |-> NoStream]
    /\ out = [r \in Id |-> Silent]

\* An unbounded channel; what is sent after the bridge's loop has ended is
\* never read.
After(msgs) == IF bridge = "up" THEN steps \o msgs ELSE <<>>
Send(msg) == steps' = After(<<msg>>)

-----------------------------------------------------------------------------
(* The driver: drain the submissions, step, commit.                        *)

\* RequestLedger::register and Scheduler::submit for one envelope.
Register ==
    /\ driver = "drain" /\ submissions # <<>>
    /\ submissions' = Tail(submissions)
    /\ accounts' = [accounts EXCEPT ![Head(submissions)] = Queued]
    /\ held' = held \cup {Head(submissions)}
    /\ UNCHANGED <<abort, driver, open, statement, deferred, steps, exited, front, lost>>

\* TryRecvError::Empty or Disconnected.
Drained ==
    /\ driver = "drain" /\ submissions = <<>>
    /\ Len(steps) < MaxSteps
    /\ driver' = "step"
    /\ open' = (open /\ bridge # "down")
    /\ UNCHANGED <<submissions, abort, held, accounts, statement, deferred, steps, exited, front, lost>>

\* A ledger call of the scheduler: it rewrites r's account and buffered update.
Touch(r, account, update) ==
    /\ driver = "step" /\ r \in held
    /\ accounts' = [accounts EXCEPT ![r] = account]
    /\ statement' = [statement EXCEPT ![r] = update]
    /\ held' = IF account.state = "closed" THEN held \ {r} ELSE held
    /\ UNCHANGED <<submissions, abort, driver, open, steps, exited, front, lost>>

\* The account is removed; its last tally is kept here for the properties.
Closed(r) == [accounts[r] EXCEPT !.state = "closed"]

Admit(r) ==
    /\ accounts[r].state = "queued"
    /\ Touch(r, [accounts[r] EXCEPT !.state = "active"], [statement[r] EXCEPT !.sched = TRUE])
    /\ UNCHANGED deferred

Reject(r) ==
    /\ accounts[r].state = "queued"
    /\ Touch(r, Closed(r), [statement[r] EXCEPT !.term = "rejected"])
    /\ UNCHANGED deferred

\* Mutant: the tally counts the call, the tokens are dropped with the buffer.
PushTokensLost(r) ==
    /\ Active(r) /\ accounts[r].tally < MaxTokens
    /\ Touch(r, [accounts[r] EXCEPT !.tally = @ + 1], statement[r])
    /\ UNCHANGED deferred

PushTokens(r) ==
    /\ Active(r) /\ accounts[r].tally < MaxTokens
    /\ LET t == accounts[r].tally + 1
       IN  Touch(r, [accounts[r] EXCEPT !.tally = t],
                    [statement[r] EXCEPT !.toks = Append(@, <<r, t>>)])
    /\ UNCHANGED deferred

\* kv_transfer: a fact that waits for the next output, as the one of
\* set_cached_tokens waits for the first.
SetFacts(r) ==
    /\ "facts" \in Extras /\ Active(r) /\ ~accounts[r].noted
    /\ Touch(r, [accounts[r] EXCEPT !.noted = TRUE], [statement[r] EXCEPT !.meta = TRUE])
    /\ UNCHANGED deferred

\* echo_prompt, once, when the prefill completes.
EchoPrompt(r, e) ==
    /\ Active(r) /\ ~accounts[r].echoed
    /\ Touch(r, [accounts[r] EXCEPT !.echoed = TRUE], [statement[r] EXCEPT !.echo = e])
    /\ UNCHANGED deferred

\* Mutant: the terminal counts the token that stopped the request, too.
AnswerOffByOne(r, term, bare) ==
    [statement[r] EXCEPT !.term = term, !.bare = bare, !.count = accounts[r].tally + 1]
\* The count on a terminal is the ledger's tally.
Answer(r, term, bare) ==
    [statement[r] EXCEPT !.term = term, !.bare = bare, !.count = accounts[r].tally]

Finish(r) ==
    /\ Active(r)
    /\ \E bare \in Bare : Touch(r, Closed(r), Answer(r, "finished", bare))
    /\ UNCHANGED deferred

Fail(r) ==
    /\ IsOpen(r)
    /\ Touch(r, Closed(r), Answer(r, "failed", FALSE))
    /\ UNCHANGED deferred

\* is_aborted, then retire: silent, and the buffered update is discarded.
Retire(r) ==
    /\ IsOpen(r) /\ abort[r]
    /\ Touch(r, Closed(r), Empty)
    /\ UNCHANGED deferred

\* Mutant: the tokens of this step stay behind in the statement.
DeferFinishWithoutTokens(r) ==
    /\ Active(r)
    /\ Touch(r, Closed(r), statement[r])
    /\ deferred' = [deferred EXCEPT ![r] =
                      [Empty EXCEPT !.term = "finished", !.count = accounts[r].tally]]

\* defer_finish_with_cause: the buffered update folds into the token.
DeferFinish(r) ==
    /\ Active(r)
    /\ Touch(r, Closed(r), Empty)
    /\ \E bare \in Bare : deferred' = [deferred EXCEPT ![r] = Answer(r, "finished", bare)]

\* A scheduler bug the contract covers: the request is dropped unanswered.
LoseTrack(r) ==
    /\ driver = "step" /\ r \in held
    /\ held' = held \ {r}
    /\ UNCHANGED <<submissions, abort, driver, open, accounts, statement, deferred, steps,
                   exited, front, lost>>

\* step returns Ok or Err.
StepReturns ==
    /\ driver = "step"
    /\ driver' \in {"commit", "commitErr"}
    /\ UNCHANGED <<submissions, abort, open, held, accounts, statement, deferred, steps,
                   exited, front, lost>>

\* commit_step sends the non-vacant updates, or an empty step when only the
\* metrics changed (here: only into an empty channel).
CommitStep ==
    /\ \/ statement # NoUpdates /\ Send(statement)
       \/ statement = NoUpdates /\ UNCHANGED steps
       \/ statement = NoUpdates /\ steps = <<>> /\ Send(NoUpdates)
    /\ statement' = NoUpdates

Commit ==
    /\ driver \in {"commit", "commitErr"}
    /\ CommitStep
    /\ driver' = IF driver = "commitErr" THEN "fatal"
                 ELSE IF held = {} /\ ~open THEN "exiting" ELSE "drain"
    /\ UNCHANGED <<submissions, abort, open, held, accounts, deferred, exited, front, lost>>

WrittenOff == [r \in Id |-> IF IsOpen(r) THEN Failed(accounts[r].tally) ELSE Empty]
Emptied == [r \in Id |-> IF IsOpen(r) THEN Closed(r) ELSE accounts[r]]

\* The fatal path: fail_all, then a last commit of a statement just sent.
FailAll ==
    /\ driver = "fatal"
    /\ driver' = "exiting"
    /\ accounts' = Emptied
    /\ steps' = IF WrittenOff = NoUpdates THEN steps ELSE After(<<WrittenOff>>)
    /\ UNCHANGED <<submissions, abort, open, held, statement, deferred, exited, front, lost>>

\* The thread unwinds out of submit, step or metrics.
Panic ==
    /\ driver \in {"drain", "step"}
    /\ driver' = "unwinding"
    /\ UNCHANGED <<submissions, abort, open, held, accounts, statement, deferred, steps,
                   exited, front, lost>>

-----------------------------------------------------------------------------
(* Teardown: the driver's locals are dropped in reverse declaration order. *)

\* Mutant: the exit is signalled by an orderly return only.
DropExitGuardOrderly ==
    /\ driver \in {"exiting", "unwinding"}
    /\ driver' = "sweeping" /\ exited' = (driver = "exiting")
    /\ UNCHANGED <<submissions, abort, open, held, accounts, statement, deferred, steps, front, lost>>

DropExitGuard ==
    /\ driver \in {"exiting", "unwinding"}
    /\ driver' = "sweeping" /\ exited' = TRUE
    /\ UNCHANGED <<submissions, abort, open, held, accounts, statement, deferred, steps, front, lost>>

\* Mutant: accounts the scheduler lost track of are forgotten.
DropLedgerHeldOnly ==
    /\ driver = "sweeping"
    /\ driver' = "closing"
    /\ accounts' = Emptied /\ statement' = NoUpdates
    /\ lost' = {r \in Id : statement[r].term # "none"}
    /\ LET known == [r \in Id |-> IF r \in held THEN WrittenOff[r] ELSE Empty]
       IN  steps' = IF known = NoUpdates THEN steps ELSE After(<<known>>)
    /\ UNCHANGED <<submissions, abort, open, held, deferred, exited, front>>

\* Drop for RequestLedger: open accounts are written off; what the statement
\* still buffers is dropped with it.
DropLedger ==
    /\ driver = "sweeping"
    /\ driver' = "closing"
    /\ accounts' = Emptied /\ statement' = NoUpdates
    /\ lost' = {r \in Id : statement[r].term # "none"}
    /\ steps' = IF WrittenOff = NoUpdates THEN steps ELSE After(<<WrittenOff>>)
    /\ UNCHANGED <<submissions, abort, open, held, deferred, exited, front>>

\* The receiver is disconnected, then the envelopes it still holds are dropped
\* one by one, and each answers for itself.
DropReceiver ==
    /\ driver = "closing"
    /\ driver' = "discarding"
    /\ UNCHANGED <<submissions, abort, open, held, accounts, statement, deferred, steps,
                   exited, front, lost>>

DropEnvelope ==
    /\ driver = "discarding" /\ submissions # <<>>
    /\ submissions' = Tail(submissions)
    /\ Send(Solo(Head(submissions), Failed(0)))
    /\ UNCHANGED <<abort, engine, deferred, exited, front>>

DriverReturns ==
    /\ driver = "discarding" /\ submissions = <<>>
    /\ driver' = "gone"
    /\ UNCHANGED <<submissions, abort, open, held, accounts, statement, deferred, steps,
                   exited, front, lost>>

-----------------------------------------------------------------------------
(* Deferred finishes, on any thread.                                       *)

SendDeferred(r) ==
    /\ deferred[r] # Empty
    /\ deferred' = [deferred EXCEPT ![r] = Empty]
    /\ Send(Solo(r, deferred[r]))
    /\ UNCHANGED <<submissions, abort, engine, exited, front>>

\* Dropped unsent: the tokens ship, the terminal becomes Failed.
DropDeferred(r) ==
    /\ deferred[r] # Empty
    /\ deferred' = [deferred EXCEPT ![r] = Empty]
    /\ Send(Solo(r, [deferred[r] EXCEPT !.term = "failed"]))
    /\ UNCHANGED <<submissions, abort, engine, exited, front>>

-----------------------------------------------------------------------------
(* The bridge task.                                                        *)

\* A client uses a wire id again once it was answered or has aborted.
Reusable(n) == names[n] = NoId

\* handle_message Add, start_request, SchedulerHandle::submit.  A request the
\* bridge refuses itself gets its terminal at once and leaves no state.
Add(n) ==
    LET r == nextId + 1
        \* send fails: the envelope comes back and is dropped
        refused == driver \in {"discarding", "gone"}
    IN
    /\ bridge = "up" /\ nextId < MaxRequests /\ Reusable(n)
    /\ nextId' = r
    /\ submissions' = IF refused THEN submissions ELSE Append(submissions, r)
    /\ steps' = IF refused THEN After(<<Solo(r, Failed(0))>>) ELSE steps
    /\ names' = [names EXCEPT ![n] = r]
    /\ owner' = [owner EXCEPT ![n] = r]
    /\ streams' = [streams EXCEPT ![r] = NewStream(n)]
    /\ UNCHANGED <<abort, engine, deferred, exited, bridge, out>>

\* Mutant: the flag is flipped but the stream stays.
AbortKeepingStream(n) ==
    LET r == names[n] IN
    /\ bridge = "up" /\ r # NoId
    /\ names' = [names EXCEPT ![n] = NoId]
    /\ abort' = [abort EXCEPT ![r] = TRUE]
    /\ UNCHANGED <<nextId, submissions, engine, deferred, steps, exited, bridge, owner, out,
                   streams>>

\* handle_message Abort for one wire id.
Abort(n) ==
    LET r == names[n] IN
    /\ bridge = "up" /\ r # NoId
    /\ names' = [names EXCEPT ![n] = NoId]
    /\ streams' = [streams EXCEPT ![r] = NoStream]
    /\ abort' = [abort EXCEPT ![r] = TRUE]
    /\ UNCHANGED <<nextId, submissions, engine, deferred, steps, exited, bridge, owner, out>>

\* reduce_update: what an update does to a stream's state before any output.
Noting(s, u) == [s EXCEPT !.sched = IF u.sched THEN "held" ELSE @, !.meta = @ \/ u.meta]
HasOutput(u) == u.toks # <<>> \/ u.echo # "none" \/ u.term # "none"
\* Mutant: an update that fails in the bridge does not end the stream.
TerminatedByEngine(u) == u.term # "none"
Terminated(u) == u.echo = "bad" \/ u.term # "none"
\* An output takes the held-back events and facts along.
Shipped(s, u) == [Noting(s, u) EXCEPT !.sched = IF @ = "held" THEN "shipped" ELSE @,
                                      !.meta = FALSE]
\* A bare stop appends the sentinel to the tokens of the output.
Suffix(u) == IF u.term = "finished" /\ u.bare THEN <<Sentinel>> ELSE <<>>
\* The output, added to what the client has.  fail_prompt sends neither the
\* update's tokens nor the facts; no output carries the terminal's count.
Received(o, s, u) ==
    LET t == Noting(s, u) IN
    [toks |-> IF u.echo = "bad" THEN o.toks ELSE o.toks \o u.toks \o Suffix(u),
     sched |-> o.sched + (IF t.sched = "held" THEN 1 ELSE 0),
     meta |-> o.meta \/ (t.meta /\ u.echo # "bad"),
     end |-> IF u.echo = "bad" THEN "error" ELSE IF u.term = "none" THEN o.end ELSE u.term]

\* dispatch_step: updates without a stream are dropped.
DispatchStep ==
    LET msg == Head(steps)
        hit == {r \in Id : msg[r] # Empty /\ Waiting(r)}
        done == {r \in hit : Terminated(msg[r])}
        talk == {r \in hit : HasOutput(msg[r])}
    IN
    /\ bridge = "up" /\ steps # <<>>
    /\ steps' = Tail(steps)
    /\ streams' = [r \in Id |->
          IF r \in done THEN NoStream
          ELSE IF r \in talk THEN Shipped(streams[r], msg[r])
          ELSE IF r \in hit THEN Noting(streams[r], msg[r]) ELSE streams[r]]
    /\ names' = [n \in Name |-> IF \E r \in done : streams[r].name = n THEN NoId ELSE names[n]]
    /\ out' = [q \in Id |->
          IF \E r \in talk : owner[streams[r].name] = q
          THEN LET r == CHOOSE r \in talk : owner[streams[r].name] = q
               IN  Received(out[q], streams[r], msg[r])
          ELSE out[q]]
    /\ abort' = [r \in Id |-> abort[r] \/ (r \in done /\ msg[r].echo = "bad")]
    /\ UNCHANGED <<nextId, submissions, engine, deferred, exited, bridge, owner>>

\* The loop ends: every stream left is aborted.  After an error the clients
\* are told that the engine is dead.
EndLoop(how) ==
    /\ bridge = "up"
    /\ bridge' = "draining"
    /\ abort' = [r \in Id |-> abort[r] \/ Waiting(r)]
    /\ streams' = [r \in Id |-> NoStream]
    /\ out' = [r \in Id |-> IF Waiting(r) THEN [out[r] EXCEPT !.end = how] ELSE out[r]]
    /\ steps' = <<>>
    /\ UNCHANGED <<nextId, submissions, engine, deferred, exited, names, owner>>

\* Cancelled, or the link to the client broke.
Shutdown == EndLoop("shutdown")
LinkFails == EndLoop("dead")

SchedulerExited == exited /\ steps = <<>> /\ EndLoop("dead")

\* run returns: the handle and the step receiver are dropped.
DropHandle ==
    /\ bridge = "draining"
    /\ bridge' = "down"
    /\ UNCHANGED <<nextId, submissions, abort, engine, deferred, steps, exited, names, streams,
                   owner, out>>

-----------------------------------------------------------------------------
\* Both sides are gone and no deferred finish is left.
Stopped ==
    /\ driver = "gone" /\ bridge = "down" /\ deferred = NoUpdates
    /\ UNCHANGED vars

Next ==
    \/ Register \/ Drained \/ StepReturns \/ Commit \/ FailAll \/ Panic
    \/ DropExitGuard \/ DropLedger \/ DropReceiver \/ DropEnvelope \/ DriverReturns
    \/ \E r \in Id : \/ Admit(r) \/ Reject(r) \/ PushTokens(r) \/ SetFacts(r)
                     \/ \E e \in Extras \cap {"good", "bad"} : EchoPrompt(r, e)
                     \/ Finish(r) \/ Fail(r) \/ Retire(r) \/ DeferFinish(r) \/ LoseTrack(r)
                     \/ SendDeferred(r) \/ DropDeferred(r)
    \/ \E n \in Name : Add(n) \/ Abort(n)
    \/ DispatchStep \/ Shutdown \/ LinkFails \/ SchedulerExited \/ DropHandle \/ Stopped

Spec == Init /\ [][Next]_vars

\* The driver loop never pauses and a step returns; a teardown runs to its end;
\* the bridge polls its select loop; a thread that holds a deferred finish
\* sends or drops it.  Nothing is assumed of the scheduler's verdicts.
Fairness ==
    /\ WF_vars(Register) /\ WF_vars(Drained) /\ WF_vars(StepReturns) /\ WF_vars(Commit)
    /\ WF_vars(FailAll) /\ WF_vars(DropExitGuard) /\ WF_vars(DropLedger)
    /\ WF_vars(DropReceiver) /\ WF_vars(DropEnvelope) /\ WF_vars(DriverReturns)
    /\ WF_vars(DispatchStep) /\ WF_vars(SchedulerExited) /\ WF_vars(DropHandle)
    /\ \A r \in Id : WF_vars(SendDeferred(r) \/ DropDeferred(r))

FairSpec == Spec /\ Fairness
-----------------------------------------------------------------------------
Update == [sched : BOOLEAN, toks : Seq(Token), meta : BOOLEAN, echo : Extras \cup {"none"},
           term : Terminals \cup {"none"}, bare : BOOLEAN, count : 0..MaxTokens]

\* Every channel, account and stream has its type; in particular a terminal
\* never counts more tokens than a request may have.
TypeOK ==
    /\ nextId \in 0..MaxRequests /\ submissions \in Seq(Id)
    /\ abort \in [Id -> BOOLEAN]
    /\ driver \in DriverPhases /\ open \in BOOLEAN /\ held \subseteq Id
    /\ accounts \in [Id -> [state : {"none", "queued", "active", "closed"},
                            tally : 0..MaxTokens, noted : BOOLEAN, echoed : BOOLEAN]]
    /\ statement \in [Id -> Update] /\ deferred \in [Id -> Update]
    /\ steps \in Seq([Id -> Update])
    /\ exited \in BOOLEAN /\ lost \subseteq Id
    /\ bridge \in {"up", "draining", "down"}
    /\ names \in [Name -> Id \cup {NoId}] /\ owner \in [Name -> Id \cup {NoId}]
    /\ streams \in [Id -> [name : Name \cup {NoName}, sched : {"none", "held", "shipped"},
                           meta : BOOLEAN]]
    /\ out \in [Id -> [toks : Seq(Token), sched : Nat, meta : BOOLEAN,
                       end : Terminals \cup {"no", "error", "dead", "shutdown"}]]

\* The places that still carry the answer a request is owed: an envelope, an
\* account, the statement, a deferred finish, the step stream, the client.
Place(name, carries) == {p \in {<<name, 0>>} : carries}
Carriers(r) ==
    {<<"envelope", i>> : i \in {j \in DOMAIN submissions : submissions[j] = r}}
    \cup {<<"step", i>> : i \in {j \in DOMAIN steps : steps[j][r].term # "none"}}
    \cup Place("account", IsOpen(r))
    \cup Place("statement", statement[r].term # "none")
    \cup Place("deferred", deferred[r] # Empty)
    \cup Place("client", out[r].end \in Terminals)

\* "Terminal exactly once" and "nothing after the terminal" (ledger.rs), across
\* every hand-over between threads: the answer is in one place at a time, and a
\* terminal on the step stream is the last thing said about its request.
OneAnswer ==
    \A r \in Id :
        /\ Cardinality(Carriers(r)) <= 1
        /\ \A i \in DOMAIN steps : steps[i][r].term # "none" =>
              /\ statement[r] = Empty /\ deferred[r] = Empty
              /\ \A j \in DOMAIN steps : j > i => steps[j][r] = Empty

\* No client waits for an answer nobody owes it any more: envelopes, accounts,
\* deferred finishes and their drops hand the duty on without a gap.  The one
\* exception is an answer that a panicking step had recorded and not committed.
NeverForgotten ==
    \A r \in Id : Waiting(r) => Carriers(r) # {} \/ r \in lost

\* A client receives its own tokens, in order and without a gap, whatever
\* deferred finishes overtake and whoever used its wire id before; the sentinel
\* of a bare stop (reduce_update) comes after all of them, at the end of a
\* finished stream; the admission facts come with the first output and never
\* again.
TokensInOrder ==
    \A r \in Id :
        /\ \A i \in 1..Len(out[r].toks) :
              \/ out[r].toks[i] = <<r, i>>
              \/ out[r].toks[i] = Sentinel /\ i = Len(out[r].toks) /\ out[r].end = "finished"
        /\ out[r].sched <= 1 /\ (out[r].toks # <<>> => out[r].sched = 1)

Suffixed(toks) == toks # <<>> /\ toks[Len(toks)] = Sentinel

\* A client told "finished" has every token and every fact the ledger recorded
\* for it, and after them at most the sentinel of a bare stop.  The terminal that
\* the bridge takes from the step stream counts the tokens that were shipped
\* (Terminal, step.rs), the sentinel not among them.
FinishedMeansComplete ==
    \A r \in Id :
        /\ out[r].end = "finished" =>
              /\ Len(out[r].toks) = accounts[r].tally + (IF Suffixed(out[r].toks) THEN 1 ELSE 0)
              /\ out[r].meta = accounts[r].noted
        /\ Waiting(r) /\ steps # <<>> /\ steps[1][r].term = "finished" =>
              steps[1][r].count = Len(out[r].toks) + Len(steps[1][r].toks)

\* Nothing reaches a client after its stream has ended, also when the bridge
\* ended it on its own and the engine keeps producing.
NothingAfterTheEnd ==
    [][\A r \in Id : out[r].end # "no" => out'[r] = out[r]]_vars

\* Nobody waits in vain: a client whose request is not an open account is
\* answered or told that the engine is dead, or its request becomes one.  This
\* covers recorded answers, deferred finishes and every way the driver ends.
NobodyWaitsInVain ==
    \A r \in Id : (Waiting(r) /\ ~IsOpen(r)) ~> (~Waiting(r) \/ IsOpen(r))
=============================================================================
