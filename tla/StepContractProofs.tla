-------------------------- MODULE StepContractProofs --------------------------
(***************************************************************************)
(* For every number of requests, tokens, steps ahead and wire ids: the     *)
(* answer of a request is in one place at a time and is never forgotten,   *)
(* whichever thread hands it on; nothing reaches a client after its        *)
(* stream's end; and a client receives its own tokens, in order, all of    *)
(* them when it is told "finished", and then at most a stop sentinel.       *)
(***************************************************************************)
EXTENDS StepContract, FiniteSetTheorems, SequenceTheorems, TLAPS

-----------------------------------------------------------------------------
(* The inductive invariant.                                                *)

Enveloped(r) == \E i \in 1..Len(submissions) : submissions[i] = r
\* Nothing of r is on its way to the client.
Quiet(r) ==
    /\ statement[r] = Empty /\ deferred[r] = Empty
    /\ \A i \in 1..Len(steps) : steps[i][r] = Empty
NoTerminal(r) == \A i \in 1..Len(steps) : steps[i][r].term = "none"

\* Ids enter the channel in the order SchedulerHandle::submit draws them.
ChannelOrdered ==
    /\ \A i \in 1..Len(submissions) : submissions[i] <= nextId
    /\ \A i, j \in 1..Len(submissions) : i < j => submissions[i] < submissions[j]

\* An id not drawn yet, or still in its envelope, is unknown to the ledger.
Unknown(r) ==
    /\ accounts[r] = NoAccount /\ Quiet(r) /\ out[r].end \notin Terminals
    /\ streams[r].sched = "none" /\ ~streams[r].meta
    /\ out[r].toks = <<>> /\ out[r].sched = 0 /\ ~out[r].meta
Undrawn(r) ==
    r > nextId => Unknown(r) /\ out[r] = Silent /\ streams[r] = NoStream /\ ~abort[r]

\* Where the duty to answer r lies, and what the other places may still hold.
AccountDuty(r) ==
    /\ accounts[r].state = "none" =>
           accounts[r] = NoAccount /\ statement[r] = Empty /\ deferred[r] = Empty
    /\ accounts[r].state = "queued" => accounts[r] = Queued /\ Quiet(r)
    /\ accounts[r].state = "active" =>
           statement[r].term = "none" /\ deferred[r] = Empty /\ NoTerminal(r)
    /\ accounts[r].state \in {"queued", "active"} => out[r].end \notin Terminals
StatementDuty(r) ==
    statement[r].term # "none" =>
        /\ accounts[r].state = "closed" /\ deferred[r] = Empty
        /\ NoTerminal(r) /\ out[r].end \notin Terminals
DeferredDuty(r) ==
    deferred[r] # Empty =>
        /\ accounts[r].state = "closed" /\ deferred[r].term = "finished"
        /\ statement[r] = Empty /\ NoTerminal(r) /\ out[r].end \notin Terminals
StepDuty(r) ==
    \A i \in 1..Len(steps) : steps[i][r].term # "none" =>
        /\ accounts[r].state \in {"none", "closed"} /\ ~Enveloped(r)
        /\ statement[r] = Empty /\ deferred[r] = Empty /\ out[r].end \notin Terminals
        /\ \A j \in 1..Len(steps) : j > i => steps[j][r] = Empty
        /\ steps[i][r].term = "finished" => accounts[r].state = "closed"
ClientDuty(r) ==
    out[r].end \in Terminals =>
        accounts[r].state \in {"none", "closed"} /\ ~Enveloped(r) /\ Quiet(r)

\* The bridge's two maps agree about a stream it serves.
Streaming(r) ==
    Waiting(r) =>
        /\ bridge = "up" /\ out[r].end = "no" /\ ~abort[r]
        /\ streams[r].name \in Name
        /\ names[streams[r].name] = r /\ owner[streams[r].name] = r

Duties(r) ==
    /\ Undrawn(r) /\ (Enveloped(r) => Unknown(r))
    /\ AccountDuty(r) /\ StatementDuty(r) /\ DeferredDuty(r) /\ StepDuty(r) /\ ClientDuty(r)
    /\ Streaming(r)

\* The statement is empty outside a step, and nothing is lost before the
\* ledger is dropped.
Phases ==
    /\ driver \in {"drain", "fatal", "exiting", "closing", "discarding", "gone"}
          => statement = NoUpdates
    /\ driver \notin {"closing", "discarding", "gone"} => lost = {}
    /\ bridge # "up" => steps = <<>>

\* A wire id names a request that exists.
NamesDrawn == \A n \in Name : names[n] <= nextId

IInv == TypeOK /\ ChannelOrdered /\ Phases /\ (\A r \in Id : Duties(r))

-----------------------------------------------------------------------------
(* What is on its way to a client that waits: the second invariant.        *)

Run(t, r, b) == \A k \in 1..Len(t) : t[k] = <<r, b + k>>
\* The account's tally still speaks of tokens in the statement or a deferred finish.
Tallied(r) == IsOpen(r) \/ statement[r].term # "none" \/ deferred[r] # Empty

\* pos[i]: the tokens ahead of the i-th step.  Steps, then the statement or the
\* deferred finish, continue what the client has, up to the tally.
Chain(r) ==
    \E pos \in [1..(Len(steps) + 1) -> Nat] :
        /\ pos[1] = Len(out[r].toks)
        /\ \A i \in 1..Len(steps) :
              /\ Run(steps[i][r].toks, r, pos[i])
              /\ pos[i + 1] = pos[i] + Len(steps[i][r].toks)
              /\ steps[i][r].term = "finished" =>
                     pos[i + 1] = accounts[r].tally /\ steps[i][r].count = accounts[r].tally
        /\ Run(statement[r].toks, r, pos[Len(steps) + 1])
        /\ Run(deferred[r].toks, r, pos[Len(steps) + 1])
        /\ Tallied(r) => accounts[r].tally =
              pos[Len(steps) + 1] + Len(statement[r].toks) + Len(deferred[r].toks)

\* Counts travel on terminals, and they are the ledger's.
Counted(r) ==
    /\ statement[r].term = "none" => statement[r].count = 0
    /\ statement[r].term = "finished" => statement[r].count = accounts[r].tally
    /\ deferred[r].count = (IF deferred[r] = Empty THEN 0 ELSE accounts[r].tally)
    /\ \A i \in 1..Len(steps) : steps[i][r].term = "none" => steps[i][r].count = 0

\* An update with which the client gets tokens, or the sentinel of a bare stop.
Speaks(u) == u.toks # <<>> \/ u.term = "finished"

\* The admission is announced once, before or with the first tokens.
ScheduledOnce(r) ==
    /\ out[r].sched = (IF streams[r].sched = "shipped" THEN 1 ELSE 0)
    /\ streams[r].sched # "none" =>
           ~statement[r].sched /\ ~deferred[r].sched /\ \A i \in 1..Len(steps) : ~steps[i][r].sched
    /\ \A i \in 1..Len(steps) : steps[i][r].sched =>
           /\ ~statement[r].sched /\ ~deferred[r].sched
           /\ \A j \in 1..Len(steps) : j # i => ~steps[j][r].sched
    /\ accounts[r].state = "queued" => streams[r].sched = "none"
Announced(r) ==
    /\ \A i \in 1..Len(steps) : Speaks(steps[i][r]) =>
           streams[r].sched # "none" \/ \E j \in 1..i : steps[j][r].sched
    /\ (Active(r) \/ Speaks(statement[r]) \/ Speaks(deferred[r])) =>
           \/ streams[r].sched # "none" \/ \E j \in 1..Len(steps) : steps[j][r].sched
           \/ statement[r].sched \/ deferred[r].sched

\* The facts noted for r are with the client or on their way.
FactsUnderWay(r) ==
    \/ out[r].meta \/ streams[r].meta \/ statement[r].meta \/ deferred[r].meta
    \/ \E i \in 1..Len(steps) : steps[i][r].meta
FactsKept(r) ==
    /\ FactsUnderWay(r) => accounts[r].noted
    /\ accounts[r].noted /\ (Tallied(r) \/ \E i \in 1..Len(steps) : steps[i][r].term = "finished")
          => FactsUnderWay(r)

\* What the client has.
Sequenced(t, r, end) ==
    \A k \in 1..Len(t) : t[k] = <<r, k>> \/ (t[k] = Sentinel /\ k = Len(t) /\ end = "finished")
Delivered(r) ==
    /\ Sequenced(out[r].toks, r, out[r].end)
    /\ out[r].sched \in {0, 1} /\ (out[r].toks # <<>> => out[r].sched = 1)
    /\ out[r].end = "finished" =>
          /\ accounts[r].state = "closed"
          /\ Len(out[r].toks) = accounts[r].tally + (IF Suffixed(out[r].toks) THEN 1 ELSE 0)
          /\ out[r].meta = accounts[r].noted

Underway(r) == Counted(r) /\ Chain(r) /\ ScheduledOnce(r) /\ Announced(r) /\ FactsKept(r)

Stream(r) == Delivered(r) /\ (Waiting(r) => Underway(r))

-----------------------------------------------------------------------------
(* Facts about the model's operators.                                      *)

\* Sending one message: the stream grows by it at its end.
LEMMA AppendOne ==
    ASSUME NEW S, NEW s \in Seq(S), NEW m \in S
    PROVE  /\ s \o <<m>> \in Seq(S)
           /\ Len(s \o <<m>>) = Len(s) + 1
           /\ \A i \in 1..Len(s) : (s \o <<m>>)[i] = s[i]
           /\ (s \o <<m>>)[Len(s) + 1] = m
<1>1. <<m>> \in Seq(S) /\ Len(<<m>>) = 1 /\ <<m>>[1] = m
  OBVIOUS
<1>2. Len(s) \in Nat
  BY LenProperties
<1> QED
  BY <1>1, <1>2, ConcatProperties

Account == [state : {"none", "queued", "active", "closed"}, tally : 0..MaxTokens,
            noted : BOOLEAN, echoed : BOOLEAN]
StreamState == [name : Name \cup {NoName}, sched : {"none", "held", "shipped"}, meta : BOOLEAN]
Outcome == [toks : Seq(Token), sched : Nat, meta : BOOLEAN,
            end : Terminals \cup {"no", "error", "dead", "shutdown"}]

\* The values the model names have their types.
LEMMA ValueTypes ==
    /\ Empty \in Update /\ NoUpdates \in [Id -> Update]
    /\ \A n \in 0..MaxTokens : Failed(n) \in Update
    /\ \A r \in Id, u \in Update : Solo(r, u) \in [Id -> Update]
    /\ NoAccount \in Account /\ Queued \in Account
    /\ NoStream \in StreamState /\ Silent \in Outcome
    /\ \A n \in Name : NewStream(n) \in StreamState
<1>1. <<>> \in Seq(Token) /\ 0 \in 0..MaxTokens
  BY ContractAssumption
<1>2. Empty \in Update
  BY <1>1 DEF Empty, Update
<1>3. \A n \in 0..MaxTokens : Failed(n) \in Update
  BY <1>1 DEF Failed, Empty, Update, Terminals
<1>4. NoUpdates \in [Id -> Update] /\ \A r \in Id, u \in Update : Solo(r, u) \in [Id -> Update]
  BY <1>2 DEF NoUpdates, Solo
<1>5. NoAccount \in Account /\ Queued \in Account
  BY <1>1 DEF NoAccount, Queued, Account
<1>6. NoStream \in StreamState /\ \A n \in Name : NewStream(n) \in StreamState
  BY DEF NoStream, NewStream, StreamState
<1>7. Silent \in Outcome
  BY <1>1 DEF Silent, Outcome
<1> QED
  BY <1>2, <1>3, <1>4, <1>5, <1>6, <1>7

\* What a send does to the step stream.
LEMMA SendFacts ==
    ASSUME steps \in Seq([Id -> Update]), NEW m \in [Id -> Update], steps' = After(<<m>>)
    PROVE  /\ steps' \in Seq([Id -> Update])
           /\ bridge # "up" => steps' = <<>>
           /\ bridge = "up" =>
                 /\ Len(steps') = Len(steps) + 1
                 /\ \A i \in 1..Len(steps) : steps'[i] = steps[i]
                 /\ steps'[Len(steps) + 1] = m
<1>1. CASE bridge = "up"
  BY <1>1, AppendOne DEF After
<1>2. CASE bridge # "up"
  BY <1>2 DEF After
<1> QED
  BY <1>1, <1>2

\* Records of updates, field by field.
LEMMA UpdateFields ==
    ASSUME NEW u \in Update
    PROVE  /\ u.sched \in BOOLEAN /\ u.toks \in Seq(Token) /\ u.meta \in BOOLEAN
           /\ u.echo \in Extras \cup {"none"} /\ u.term \in Terminals \cup {"none"}
           /\ u.bare \in BOOLEAN /\ u.count \in 0..MaxTokens
BY DEF Update

\* What the bridge makes of an update has its type.
LEMMA BridgeTypes ==
    ASSUME NEW s \in StreamState, NEW u \in Update, NEW o \in Outcome
    PROVE  /\ Noting(s, u) \in StreamState /\ Shipped(s, u) \in StreamState
           /\ Received(o, s, u) \in Outcome
<1>1. Noting(s, u) \in StreamState
  BY DEF Noting, StreamState, Update
<1>2. Shipped(s, u) \in StreamState
  BY <1>1 DEF Shipped, StreamState
<1>3. o.toks \o u.toks \in Seq(Token)
  BY ConcatProperties DEF Outcome, Update
<1>4. o.toks \o u.toks \o Suffix(u) \in Seq(Token)
  <2>1. Sentinel \in Token /\ Suffix(u) \in Seq(Token)
    BY DEF Token, Suffix
  <2> QED
    BY <1>3, <2>1, ConcatProperties
<1>5. o.sched + (IF Noting(s, u).sched = "held" THEN 1 ELSE 0) \in Nat
  BY DEF Outcome
<1>6. (o.meta \/ (Noting(s, u).meta /\ u.echo # "bad")) \in BOOLEAN
  OBVIOUS
<1>7. (IF u.echo = "bad" THEN "error" ELSE IF u.term = "none" THEN o.end ELSE u.term)
        \in Terminals \cup {"no", "error", "dead", "shutdown"}
  BY DEF Outcome, Update
<1> QED
  BY <1>1, <1>2, <1>3, <1>4, <1>5, <1>6, <1>7 DEF Received, Outcome

-----------------------------------------------------------------------------
(* Type correctness.                                                       *)

\* What the ledger's closing calls leave in the account book and the stream.
LEMMA WrittenOffTypes ==
    ASSUME TypeOK
    PROVE  /\ WrittenOff \in [Id -> Update] /\ Emptied \in [Id -> Account]
           /\ \A r \in Id : Closed(r) \in Account
           /\ \A r \in Id, t \in Terminals, b \in BOOLEAN : Answer(r, t, b) \in Update
<1>1. \A r \in Id : accounts[r] \in Account /\ accounts[r].tally \in 0..MaxTokens
  BY DEF TypeOK, Account
<1>2. \A r \in Id : Closed(r) \in Account
  BY <1>1 DEF Closed, Account
<1>3. WrittenOff \in [Id -> Update]
  BY <1>1, ValueTypes DEF WrittenOff
<1>4. Emptied \in [Id -> Account]
  BY <1>1, <1>2 DEF Emptied
<1>5. ASSUME NEW r \in Id, NEW t \in Terminals, NEW b \in BOOLEAN
      PROVE  Answer(r, t, b) \in Update
  <2>1. statement[r] \in Update
    BY DEF TypeOK
  <2> QED
    BY <1>1, <2>1 DEF Answer, Update
<1> QED
  BY <1>2, <1>3, <1>4, <1>5

\* Every ledger call keeps the types when what it writes has them.
LEMMA TouchTypes ==
    ASSUME TypeOK, NEW r \in Id, NEW a \in Account, NEW u \in Update, NEW d \in Update,
           Touch(r, a, u), deferred' = [deferred EXCEPT ![r] = d]
    PROVE  TypeOK'
<1>1. accounts' \in [Id -> Account] /\ statement' \in [Id -> Update]
      /\ deferred' \in [Id -> Update] /\ held' \subseteq Id
  BY DEF Touch, TypeOK, Account
<1> QED
  BY <1>1 DEF Touch, TypeOK, front, Account

\* One scheduler step of the contract keeps the types.
LEMMA LedgerTypes ==
    ASSUME TypeOK, NEW r \in Id,
           \/ Admit(r) \/ Reject(r) \/ PushTokens(r) \/ SetFacts(r)
           \/ \E e \in Extras \cap {"good", "bad"} : EchoPrompt(r, e)
           \/ Finish(r) \/ Fail(r) \/ Retire(r) \/ DeferFinish(r)
    PROVE  TypeOK'
<1>0. /\ accounts[r] \in Account /\ statement[r] \in Update /\ deferred[r] \in Update
      /\ deferred = [deferred EXCEPT ![r] = deferred[r]]
  BY DEF TypeOK, Account
<1>1. CASE Admit(r)
  <2>1. [accounts[r] EXCEPT !.state = "active"] \in Account
        /\ [statement[r] EXCEPT !.sched = TRUE] \in Update
    BY <1>0 DEF Account, Update
  <2> QED
    BY <1>0, <1>1, <2>1, TouchTypes DEF Admit
<1>2. CASE Reject(r)
  <2>1. [statement[r] EXCEPT !.term = "rejected"] \in Update
    BY <1>0 DEF Update, Terminals
  <2> QED
    BY <1>0, <1>2, <2>1, TouchTypes, WrittenOffTypes DEF Reject
<1>3. CASE PushTokens(r)
  <2> DEFINE t == accounts[r].tally + 1
  <2>1. t \in 1..MaxTokens /\ t \in 0..MaxTokens
    BY <1>0, <1>3, ContractAssumption DEF PushTokens, Account
  <2>2. [accounts[r] EXCEPT !.tally = t] \in Account
    BY <1>0, <2>1 DEF Account
  <2>3. Append(statement[r].toks, <<r, t>>) \in Seq(Token)
    <3>1. <<r, t>> \in Token /\ statement[r].toks \in Seq(Token)
      BY <1>0, <2>1 DEF Token, Update
    <3> QED
      BY <3>1, AppendProperties
  <2>4. [statement[r] EXCEPT !.toks = Append(@, <<r, t>>)] \in Update
    BY <1>0, <2>3 DEF Update
  <2> QED
    BY <1>0, <1>3, <2>2, <2>4, TouchTypes DEF PushTokens
<1>4. CASE SetFacts(r)
  <2>1. [accounts[r] EXCEPT !.noted = TRUE] \in Account
        /\ [statement[r] EXCEPT !.meta = TRUE] \in Update
    BY <1>0 DEF Account, Update
  <2> QED
    BY <1>0, <1>4, <2>1, TouchTypes DEF SetFacts
<1>5. ASSUME NEW e \in Extras \cap {"good", "bad"}, EchoPrompt(r, e)
      PROVE  TypeOK'
  <2>1. [accounts[r] EXCEPT !.echoed = TRUE] \in Account
        /\ [statement[r] EXCEPT !.echo = e] \in Update
    BY <1>0, <1>5 DEF Account, Update
  <2> QED
    BY <1>0, <1>5, <2>1, TouchTypes DEF EchoPrompt
<1>6. CASE Finish(r)
  <2>1. PICK bare \in BOOLEAN : Touch(r, Closed(r), Answer(r, "finished", bare))
    BY <1>6 DEF Finish, Bare
  <2> QED
    BY <1>0, <1>6, <2>1, TouchTypes, WrittenOffTypes DEF Finish, Terminals
<1>7. CASE Fail(r)
  BY <1>0, <1>7, TouchTypes, WrittenOffTypes DEF Fail, Terminals
<1>8. CASE Retire(r)
  BY <1>0, <1>8, TouchTypes, WrittenOffTypes, ValueTypes DEF Retire
<1>9. CASE DeferFinish(r)
  <2>1. PICK bare \in BOOLEAN : deferred' = [deferred EXCEPT ![r] = Answer(r, "finished", bare)]
    BY <1>9 DEF DeferFinish, Bare
  <2> QED
    BY <1>0, <1>9, <2>1, TouchTypes, WrittenOffTypes, ValueTypes DEF DeferFinish, Terminals
<1> QED
  BY <1>1, <1>2, <1>3, <1>4, <1>5, <1>6, <1>7, <1>8, <1>9

\* The driver's own steps keep the types.
LEMMA DriverTypes ==
    ASSUME TypeOK,
           \/ Register \/ Drained \/ StepReturns \/ Commit \/ FailAll \/ Panic
           \/ DropExitGuard \/ DropLedger \/ DropReceiver \/ DropEnvelope \/ DriverReturns
           \/ \E r \in Id : LoseTrack(r)
    PROVE  TypeOK'
<1> USE DEF engine, front
<1>1. CASE Register
  <2>1. Head(submissions) \in Id /\ Tail(submissions) \in Seq(Id)
    BY <1>1, HeadTailProperties DEF Register, TypeOK
  <2>2. accounts' \in [Id -> Account] /\ held' \subseteq Id
    BY <1>1, <2>1, ValueTypes DEF Register, TypeOK, Account
  <2> QED
    BY <1>1, <2>1, <2>2 DEF Register, TypeOK, Account
<1>2. CASE Drained
  BY <1>2 DEF Drained, TypeOK, DriverPhases
<1>3. CASE StepReturns
  BY <1>3 DEF StepReturns, TypeOK, DriverPhases
<1>4. CASE Commit
  <2>1. statement' \in [Id -> Update]
    BY <1>4, ValueTypes DEF Commit, CommitStep
  <2>2. steps' \in Seq([Id -> Update])
    BY <1>4, SendFacts, ValueTypes DEF Commit, CommitStep, Send, TypeOK
  <2>3. driver' \in DriverPhases
    BY <1>4 DEF Commit, DriverPhases
  <2> QED
    BY <1>4, <2>1, <2>2, <2>3 DEF Commit, TypeOK
<1>5. CASE FailAll
  <2>1. steps' \in Seq([Id -> Update])
    BY <1>5, SendFacts, WrittenOffTypes DEF FailAll, TypeOK
  <2> QED
    BY <1>5, <2>1, WrittenOffTypes DEF FailAll, TypeOK, DriverPhases, Account
<1>6. CASE Panic
  BY <1>6 DEF Panic, TypeOK, DriverPhases
<1>7. CASE DropExitGuard
  BY <1>7 DEF DropExitGuard, TypeOK, DriverPhases
<1>8. CASE DropLedger
  <2>1. steps' \in Seq([Id -> Update])
    BY <1>8, SendFacts, WrittenOffTypes DEF DropLedger, TypeOK
  <2>2. statement' \in [Id -> Update] /\ lost' \subseteq Id
    BY <1>8, ValueTypes DEF DropLedger
  <2> QED
    BY <1>8, <2>1, <2>2, WrittenOffTypes DEF DropLedger, TypeOK, DriverPhases, Account
<1>9. CASE DropReceiver
  BY <1>9 DEF DropReceiver, TypeOK, DriverPhases
<1>10. CASE DropEnvelope
  <2>1. Head(submissions) \in Id /\ Tail(submissions) \in Seq(Id)
    BY <1>10, HeadTailProperties DEF DropEnvelope, TypeOK
  <2>2. Solo(Head(submissions), Failed(0)) \in [Id -> Update]
    <3>1. 0 \in 0..MaxTokens
      BY ContractAssumption
    <3> QED
      BY <2>1, <3>1, ValueTypes
  <2>3. steps' \in Seq([Id -> Update])
    BY <1>10, <2>2, SendFacts DEF DropEnvelope, Send, TypeOK
  <2> QED
    BY <1>10, <2>1, <2>3 DEF DropEnvelope, TypeOK
<1>11. CASE DriverReturns
  BY <1>11 DEF DriverReturns, TypeOK, DriverPhases
<1>12. ASSUME NEW r \in Id, LoseTrack(r)
       PROVE  TypeOK'
  BY <1>12 DEF LoseTrack, TypeOK
<1> QED
  BY <1>1, <1>2, <1>3, <1>4, <1>5, <1>6, <1>7, <1>8, <1>9, <1>10, <1>11, <1>12

\* A deferred finish keeps the types, sent or dropped.
LEMMA DeferredTypes ==
    ASSUME TypeOK, NEW r \in Id, SendDeferred(r) \/ DropDeferred(r)
    PROVE  TypeOK'
<1> USE DEF engine, front
<1>1. PICK u \in Update : /\ deferred' = [deferred EXCEPT ![r] = Empty] /\ Send(Solo(r, u))
                          /\ UNCHANGED <<submissions, abort, engine, exited, front>>
  <2>0. deferred[r] \in Update
    BY DEF TypeOK
  <2>1. [deferred[r] EXCEPT !.term = "failed"] \in Update
    BY <2>0 DEF Update, Terminals
  <2> QED
    BY <2>0, <2>1 DEF SendDeferred, DropDeferred
<1>2. steps' \in Seq([Id -> Update])
  BY <1>1, ValueTypes, SendFacts DEF Send, TypeOK
<1>3. deferred' \in [Id -> Update]
  BY <1>1, ValueTypes DEF TypeOK
<1> QED
  BY <1>1, <1>2, <1>3 DEF TypeOK

\* The bridge's steps keep the types.
LEMMA BridgeStepTypes ==
    ASSUME TypeOK,
           \/ \E n \in Name : Add(n) \/ Abort(n)
           \/ DispatchStep \/ Shutdown \/ LinkFails \/ SchedulerExited \/ DropHandle
    PROVE  TypeOK'
<1> USE DEF engine, front
<1>1. ASSUME NEW n \in Name, Add(n)
      PROVE  TypeOK'
  <2>1. nextId + 1 \in Id /\ nextId + 1 \in 0..MaxRequests
    BY <1>1, ContractAssumption DEF Add, Id, TypeOK
  <2>2. submissions' \in Seq(Id)
    BY <1>1, <2>1, AppendProperties DEF Add, TypeOK
  <2>3. steps' \in Seq([Id -> Update])
    <3>1. Solo(nextId + 1, Failed(0)) \in [Id -> Update]
      <4>1. 0 \in 0..MaxTokens
        BY ContractAssumption
      <4> QED
        BY <2>1, <4>1, ValueTypes
    <3> QED
      BY <1>1, <3>1, SendFacts DEF Add, TypeOK
  <2>4. streams' \in [Id -> StreamState]
    BY <1>1, <2>1, ValueTypes DEF Add, TypeOK, StreamState
  <2>5. names' \in [Name -> Id \cup {NoId}] /\ owner' \in [Name -> Id \cup {NoId}]
    BY <1>1, <2>1 DEF Add, TypeOK
  <2> QED
    BY <1>1, <2>1, <2>2, <2>3, <2>4, <2>5 DEF Add, TypeOK, StreamState
<1>2. ASSUME NEW n \in Name, Abort(n)
      PROVE  TypeOK'
  <2>1. names[n] \in Id
    BY <1>2 DEF Abort, TypeOK
  <2>2. streams' \in [Id -> StreamState]
    BY <1>2, <2>1, ValueTypes DEF Abort, TypeOK, StreamState
  <2>3. names' \in [Name -> Id \cup {NoId}] /\ abort' \in [Id -> BOOLEAN]
    BY <1>2, <2>1 DEF Abort, TypeOK
  <2> QED
    BY <1>2, <2>2, <2>3 DEF Abort, TypeOK, StreamState
<1>3. CASE DispatchStep
  <2>1. Head(steps) \in [Id -> Update] /\ Tail(steps) \in Seq([Id -> Update])
    BY <1>3, HeadTailProperties DEF DispatchStep, TypeOK
  <2>2. \A r \in Id : streams[r] \in StreamState /\ out[r] \in Outcome /\ Head(steps)[r] \in Update
    BY <2>1 DEF TypeOK, StreamState, Outcome
  <2>3. streams' \in [Id -> StreamState]
    BY <1>3, <2>2, BridgeTypes, ValueTypes DEF DispatchStep
  <2>4. names' \in [Name -> Id \cup {NoId}]
    BY <1>3 DEF DispatchStep, TypeOK
  <2>5. out' \in [Id -> Outcome]
    BY <1>3, <2>2, BridgeTypes DEF DispatchStep
  <2>6. abort' \in [Id -> BOOLEAN]
    BY <1>3 DEF DispatchStep, TypeOK
  <2> QED
    BY <1>3, <2>1, <2>3, <2>4, <2>5, <2>6 DEF DispatchStep, TypeOK, StreamState, Outcome
<1>4. ASSUME NEW how \in {"dead", "shutdown"}, EndLoop(how)
      PROVE  TypeOK'
  <2>1. streams' \in [Id -> StreamState]
    BY <1>4, ValueTypes DEF EndLoop
  <2>2. out' \in [Id -> Outcome]
    <3>1. \A r \in Id : out[r] \in Outcome
      BY DEF TypeOK, Outcome
    <3>2. \A o \in Outcome : [o EXCEPT !.end = how] \in Outcome
      BY <1>4 DEF Outcome
    <3> QED
      BY <1>4, <3>1, <3>2 DEF EndLoop
  <2>3. abort' \in [Id -> BOOLEAN] /\ steps' \in Seq([Id -> Update])
    BY <1>4 DEF EndLoop, TypeOK
  <2> QED
    BY <1>4, <2>1, <2>2, <2>3 DEF EndLoop, TypeOK, StreamState, Outcome
<1>5. CASE DropHandle
  BY <1>5 DEF DropHandle, TypeOK
<1> QED
  BY <1>1, <1>2, <1>3, <1>4, <1>5 DEF Shutdown, LinkFails, SchedulerExited

\* The initial values have their types.
LEMMA InitTypes == Init => TypeOK
<1> SUFFICES ASSUME Init PROVE TypeOK
  OBVIOUS
<1>1. nextId \in 0..MaxRequests /\ submissions \in Seq(Id) /\ steps \in Seq([Id -> Update])
  BY ContractAssumption DEF Init
<1>2. accounts \in [Id -> Account] /\ streams \in [Id -> StreamState] /\ out \in [Id -> Outcome]
  BY ValueTypes DEF Init
<1>3. statement \in [Id -> Update] /\ deferred \in [Id -> Update]
  BY ValueTypes DEF Init
<1> QED
  BY <1>1, <1>2, <1>3 DEF Init, TypeOK, DriverPhases, Account, StreamState, Outcome

\* Every step keeps the types.
LEMMA StepTypes == TypeOK /\ [Next]_vars => TypeOK'
<1> SUFFICES ASSUME TypeOK, [Next]_vars PROVE TypeOK'
  OBVIOUS
<1>1. CASE UNCHANGED vars
  BY <1>1 DEF vars, TypeOK
<1>2. CASE Next
  BY <1>2, <1>1, LedgerTypes, DriverTypes, DeferredTypes, BridgeStepTypes DEF Next, Stopped
<1> QED
  BY <1>1, <1>2

\* Type correctness: every channel, account and stream keeps its type, and no
\* terminal counts more tokens than a request may have.
THEOREM TypeCorrect == Spec => []TypeOK
BY InitTypes, StepTypes, PTL DEF Spec

-----------------------------------------------------------------------------
(* The duty to answer, request by request.                                 *)

\* The step stream says no more about q than it did.
NothingNew(q) ==
    \A i \in 1..Len(steps') :
        steps'[i][q] = IF i \in 1..Len(steps) THEN steps[i][q] ELSE Empty

\* A step that leaves everything kept about q alone keeps q's part of the
\* invariant, also when it says something about other requests.
LEMMA Frame ==
    ASSUME TypeOK, TypeOK', NEW q \in Id, Duties(q),
           accounts'[q] = accounts[q], statement'[q] = statement[q],
           deferred'[q] = deferred[q], streams'[q] = streams[q],
           out'[q] = out[q], abort'[q] = abort[q],
           nextId' >= nextId, Enveloped(q)' => Enveloped(q), NothingNew(q),
           Waiting(q) => /\ bridge' = "up" /\ names'[streams[q].name] = q
                         /\ owner'[streams[q].name] = q
    PROVE  Duties(q)'
<1>0. Empty.term = "none"
  BY DEF Empty
<1>1. Quiet(q) => Quiet(q)'
  BY DEF Quiet, NothingNew
<1>2. NoTerminal(q) => NoTerminal(q)'
  BY <1>0 DEF NoTerminal, NothingNew
<1>3. Unknown(q) => Unknown(q)'
  BY <1>1 DEF Unknown
<1>4. Undrawn(q)' /\ (Enveloped(q) => Unknown(q))'
  BY <1>3 DEF Duties, Undrawn, TypeOK, Id
<1>5. AccountDuty(q)' /\ StatementDuty(q)' /\ DeferredDuty(q)' /\ ClientDuty(q)'
  BY <1>1, <1>2 DEF Duties, AccountDuty, StatementDuty, DeferredDuty, ClientDuty
<1>6. StepDuty(q)'
  BY <1>0 DEF Duties, StepDuty, NothingNew
<1>7. Streaming(q)'
  BY DEF Duties, Streaming, Waiting
<1> QED
  BY <1>4, <1>5, <1>6, <1>7 DEF Duties

\* A step that leaves the step stream alone says nothing new.
LEMMA Unsaid ==
    ASSUME NEW q \in Id, steps' = steps
    PROVE  NothingNew(q)
BY DEF NothingNew

\* Nor does one that speaks of other requests only.
LEMMA SaidOfOthers ==
    ASSUME steps \in Seq([Id -> Update]), NEW m \in [Id -> Update], steps' = After(<<m>>),
           NEW q \in Id, m[q] = Empty
    PROVE  NothingNew(q)
<1>1. Len(steps) \in Nat
  BY LenProperties
<1>2. CASE bridge = "up"
  BY <1>1, <1>2, SendFacts DEF NothingNew
<1>3. CASE bridge # "up"
  <2>1. steps' = <<>>
    BY <1>3, SendFacts
  <2>2. Len(steps') = 0
    BY <2>1
  <2> QED
    BY <2>2 DEF NothingNew
<1> QED
  BY <1>2, <1>3

\* Closing the head of the channel: the envelope is gone, the others keep their
\* order.
LEMMA HeadLeaves ==
    ASSUME TypeOK, ChannelOrdered, submissions # <<>>, submissions' = Tail(submissions),
           nextId' = nextId
    PROVE  /\ Head(submissions) \in Id /\ Enveloped(Head(submissions))
           /\ ChannelOrdered'
           /\ \A q \in Id : Enveloped(q)' => Enveloped(q) /\ q # Head(submissions)
<1> DEFINE h == Head(submissions)
<1>1. /\ h \in Id /\ h = submissions[1] /\ Len(submissions) \in Nat \ {0}
      /\ Len(submissions') = Len(submissions) - 1
      /\ \A i \in 1..Len(submissions') : submissions'[i] = submissions[i + 1]
  BY HeadTailProperties, EmptySeq DEF TypeOK
<1>2. \A i \in 1..Len(submissions) : submissions[i] \in Id
  BY ElementOfSeq DEF TypeOK
<1>3. Enveloped(h)
  BY <1>1 DEF Enveloped
<1>4. ASSUME NEW i \in 1..Len(submissions')
      PROVE  /\ i + 1 \in 1..Len(submissions) /\ submissions'[i] = submissions[i + 1]
             /\ submissions'[i] > h
  BY <1>1, <1>2 DEF ChannelOrdered, Id
<1>5. ChannelOrdered'
  <2>1. \A i \in 1..Len(submissions') : submissions'[i] <= nextId'
    BY <1>4 DEF ChannelOrdered
  <2>2. \A i, j \in 1..Len(submissions') : i < j => submissions'[i] < submissions'[j]
    BY <1>1, <1>4 DEF ChannelOrdered
  <2> QED
    BY <2>1, <2>2 DEF ChannelOrdered
<1>6. ASSUME NEW q \in Id, Enveloped(q)'
      PROVE  Enveloped(q) /\ q # h
  <2>1. PICK i \in 1..Len(submissions') : submissions'[i] = q
    BY <1>6 DEF Enveloped
  <2>2. h \in Int /\ q \in Int
    BY <1>1 DEF Id
  <2> QED
    BY <1>4, <2>1, <2>2 DEF Enveloped
<1> QED
  BY <1>1, <1>3, <1>5, <1>6

\* What the invariant says, in the parts the proofs use.
LEMMA IInvParts ==
    ASSUME IInv
    PROVE  /\ TypeOK /\ ChannelOrdered /\ Phases /\ \A q \in Id : Duties(q)
           /\ Len(steps) \in Nat /\ steps \in Seq([Id -> Update]) /\ nextId \in Nat
           /\ \A i \in 1..Len(steps) : steps[i] \in [Id -> Update]
<1>1. TypeOK /\ ChannelOrdered /\ Phases /\ \A q \in Id : Duties(q)
  BY DEF IInv
<1>2. steps \in Seq([Id -> Update]) /\ nextId \in Nat
  BY <1>1, ContractAssumption DEF TypeOK
<1>3. Len(steps) \in Nat /\ \A i \in 1..Len(steps) : steps[i] \in [Id -> Update]
  BY <1>2, LenProperties, ElementOfSeq
<1> QED
  BY <1>1, <1>2, <1>3

\* A step that changes neither the channel nor any request keeps the duties.
LEMMA FrameAll ==
    ASSUME IInv, TypeOK',
           UNCHANGED <<nextId, submissions, abort, accounts, statement, deferred, steps, names,
                       streams, owner, out>>,
           bridge = "up" => bridge' = "up"
    PROVE  ChannelOrdered' /\ \A q \in Id : Duties(q)'
<1>1. ChannelOrdered'
  BY IInvParts DEF ChannelOrdered
<1>2. ASSUME NEW q \in Id
      PROVE  Duties(q)'
  <2>1. nextId' >= nextId
    BY IInvParts
  <2>2. Enveloped(q)' => Enveloped(q)
    BY DEF Enveloped
  <2>3. Waiting(q) => /\ bridge' = "up" /\ names'[streams[q].name] = q
                      /\ owner'[streams[q].name] = q
    BY IInvParts DEF Duties, Streaming
  <2> QED
    BY <2>1, <2>2, <2>3, Frame, Unsaid, IInvParts
<1> QED
  BY <1>1, <1>2

\* RequestLedger::register: the envelope's duty passes to the account.
LEMMA RegisterDuty ==
    ASSUME IInv, TypeOK', Register
    PROVE  IInv'
<1> USE DEF front
<1>0. PICK h : h = Head(submissions)
  OBVIOUS
<1>1. /\ submissions # <<>> /\ submissions' = Tail(submissions)
      /\ accounts' = [accounts EXCEPT ![h] = Queued]
      /\ UNCHANGED <<nextId, abort, driver, statement, deferred, steps, lost, bridge, names,
                     streams, owner, out>>
  BY <1>0 DEF Register
<1>2. /\ h \in Id /\ Enveloped(h) /\ ChannelOrdered'
      /\ \A q \in Id : Enveloped(q)' => Enveloped(q) /\ q # h
  BY <1>0, <1>1, HeadLeaves, IInvParts
<1>3. Phases'
  BY <1>1, IInvParts DEF Phases
<1>4. ASSUME NEW q \in Id, q # h
      PROVE  Duties(q)'
  <2>1. accounts'[q] = accounts[q]
    BY <1>1, <1>4, IInvParts DEF TypeOK
  <2>2. nextId' >= nextId /\ NothingNew(q)
    BY <1>1, IInvParts, Unsaid
  <2>3. Waiting(q) => /\ bridge' = "up" /\ names'[streams[q].name] = q
                      /\ owner'[streams[q].name] = q
    BY <1>1, IInvParts DEF Duties, Streaming
  <2> QED
    BY <1>1, <1>2, <2>1, <2>2, <2>3, Frame, IInvParts
<1>5. Duties(h)'
  <2>1. Unknown(h) /\ h <= nextId
    <3>1. Unknown(h) /\ Undrawn(h)
      BY <1>2, IInvParts DEF Duties
    <3>2. PICK i \in 1..Len(submissions) : submissions[i] = h
      BY <1>2 DEF Enveloped
    <3> QED
      BY <3>1, <3>2, IInvParts DEF ChannelOrdered
  <2>2. accounts'[h] = Queued /\ Queued.state = "queued"
    BY <1>1, <1>2, IInvParts DEF TypeOK, Queued
  <2>3. Undrawn(h)' /\ ~Enveloped(h)'
    BY <1>1, <1>2, <2>1, IInvParts DEF Undrawn, Id
  <2>4. Quiet(h)' /\ NoTerminal(h)' /\ out'[h].end \notin Terminals
    BY <1>1, <2>1 DEF Unknown, Quiet, NoTerminal, Empty
  <2>5. AccountDuty(h)'
    BY <2>2, <2>4 DEF AccountDuty
  <2>6. StatementDuty(h)' /\ DeferredDuty(h)' /\ StepDuty(h)' /\ ClientDuty(h)'
    BY <2>4 DEF StatementDuty, DeferredDuty, StepDuty, ClientDuty, Quiet, Empty
  <2>7. Streaming(h)'
    BY <1>1, <1>2, IInvParts DEF Duties, Streaming, Waiting
  <2> QED
    BY <2>3, <2>5, <2>6, <2>7 DEF Duties
<1> QED
  BY <1>2, <1>3, <1>4, <1>5 DEF IInv

\* A ledger call on an open account: either the account stays active and
\* nothing terminal is said, or it is closed and its answer is in one place.
LEMMA TouchDuty ==
    ASSUME IInv, TypeOK', NEW r \in Id, NEW a \in Account, NEW u \in Update, NEW d \in Update,
           IsOpen(r), Touch(r, a, u), deferred' = [deferred EXCEPT ![r] = d],
           \/ a.state = "active" /\ u.term = "none" /\ d = Empty
           \/ /\ a.state = "closed" /\ (u.term = "none" => u = Empty)
              /\ (d # Empty => u = Empty /\ d.term = "finished")
    PROVE  IInv'
<1> USE DEF front
<1>1. /\ driver = "step"
      /\ accounts' = [accounts EXCEPT ![r] = a] /\ statement' = [statement EXCEPT ![r] = u]
      /\ UNCHANGED <<nextId, submissions, abort, driver, steps, lost, bridge, names,
                     streams, owner, out>>
  BY DEF Touch
<1>2. Phases' /\ ChannelOrdered'
  BY <1>1, IInvParts DEF Phases, ChannelOrdered
<1>3. ASSUME NEW q \in Id, q # r
      PROVE  Duties(q)'
  <2>1. accounts'[q] = accounts[q] /\ statement'[q] = statement[q] /\ deferred'[q] = deferred[q]
    BY <1>1, <1>3, IInvParts DEF TypeOK
  <2>2. nextId' >= nextId /\ NothingNew(q)
    BY <1>1, IInvParts, Unsaid
  <2>3. Waiting(q) => /\ bridge' = "up" /\ names'[streams[q].name] = q
                      /\ owner'[streams[q].name] = q
    BY <1>1, IInvParts DEF Duties, Streaming
  <2>4. Enveloped(q)' => Enveloped(q)
    BY <1>1 DEF Enveloped
  <2> QED
    BY <1>1, <2>1, <2>2, <2>3, <2>4, Frame, IInvParts
<1>4. Duties(r)'
  <2>1. accounts'[r] = a /\ statement'[r] = u /\ deferred'[r] = d
    BY <1>1, IInvParts DEF TypeOK
  <2>2. NoTerminal(r) /\ out[r].end \notin Terminals /\ accounts[r] # NoAccount
    BY IInvParts DEF Duties, AccountDuty, IsOpen, Quiet, NoTerminal, Empty, NoAccount
  <2>3. r <= nextId /\ ~Enveloped(r)
    BY <2>2, IInvParts DEF Duties, Undrawn, Unknown, Id
  <2>4. NoTerminal(r)' /\ out'[r].end \notin Terminals /\ ~Enveloped(r)' /\ r <= nextId'
    BY <1>1, <2>2, <2>3 DEF NoTerminal, Enveloped
  <2>5. Undrawn(r)'
    BY <2>4, IInvParts DEF Undrawn, TypeOK, Id
  <2>6. AccountDuty(r)'
    BY <2>1, <2>4 DEF AccountDuty
  <2>7. Empty.term = "none"
    BY DEF Empty
  <2>10. StatementDuty(r)' /\ DeferredDuty(r)'
    BY <2>1, <2>4, <2>7 DEF StatementDuty, DeferredDuty
  <2>8. StepDuty(r)' /\ ClientDuty(r)'
    BY <2>4 DEF StepDuty, ClientDuty, NoTerminal
  <2>9. Streaming(r)'
    BY <1>1, IInvParts DEF Duties, Streaming, Waiting
  <2> QED
    BY <2>4, <2>5, <2>6, <2>8, <2>9, <2>10 DEF Duties
<1> QED
  BY <1>2, <1>3, <1>4 DEF IInv

\* Every ledger call of a scheduler is such a call.
LEMMA LedgerDuty ==
    ASSUME IInv, TypeOK', NEW r \in Id,
           \/ Admit(r) \/ Reject(r) \/ PushTokens(r) \/ SetFacts(r)
           \/ \E e \in Extras \cap {"good", "bad"} : EchoPrompt(r, e)
           \/ Finish(r) \/ Fail(r) \/ Retire(r) \/ DeferFinish(r)
    PROVE  IInv'
<1>0. /\ accounts[r] \in Account /\ statement[r] \in Update /\ deferred[r] \in Update
      /\ deferred = [deferred EXCEPT ![r] = deferred[r]]
      /\ accounts'[r] \in Account /\ statement'[r] \in Update
  BY IInvParts DEF TypeOK, Account
<1>1. IsOpen(r)
  BY DEF Admit, Reject, PushTokens, SetFacts, EchoPrompt, Finish, Fail, Retire, DeferFinish,
         Active, IsOpen
<1>2. statement[r].term = "none" /\ deferred[r] = Empty
  BY <1>1, IInvParts DEF Duties, AccountDuty, IsOpen, Quiet, Empty
<1>3. ASSUME NEW a, NEW u, NEW d \in Update, Touch(r, a, u), deferred' = [deferred EXCEPT ![r] = d],
             \/ a.state = "active" /\ u.term = "none" /\ d = Empty
             \/ /\ a.state = "closed" /\ (u.term = "none" => u = Empty)
                /\ (d # Empty => u = Empty /\ d.term = "finished")
      PROVE  IInv'
  <2>1. a \in Account /\ u \in Update
    BY <1>0, <1>3, IInvParts DEF Touch, TypeOK
  <2> QED
    BY <1>1, <1>3, <2>1, TouchDuty
<1>4. CASE Admit(r)
  <2>1. [accounts[r] EXCEPT !.state = "active"].state = "active"
        /\ [statement[r] EXCEPT !.sched = TRUE].term = "none"
    BY <1>0, <1>2 DEF Account, Update
  <2> QED
    BY <1>0, <1>2, <1>3, <1>4, <2>1 DEF Admit
<1>5. Closed(r).state = "closed"
  BY <1>0 DEF Closed, Account
<1>6. CASE Reject(r)
  <2>1. [statement[r] EXCEPT !.term = "rejected"].term = "rejected"
    BY <1>0 DEF Update
  <2> QED
    BY <1>0, <1>2, <1>3, <1>5, <1>6, <2>1 DEF Reject
<1>7. CASE PushTokens(r)
  <2>1. [accounts[r] EXCEPT !.tally = accounts[r].tally + 1].state = "active"
    BY <1>0, <1>7 DEF Account, PushTokens, Active
  <2>2. [statement[r] EXCEPT !.toks = Append(@, <<r, accounts[r].tally + 1>>)].term = "none"
    BY <1>0, <1>2 DEF Update
  <2> QED
    BY <1>0, <1>2, <1>3, <1>7, <2>1, <2>2 DEF PushTokens
<1>8. CASE SetFacts(r)
  <2>1. [accounts[r] EXCEPT !.noted = TRUE].state = "active"
        /\ [statement[r] EXCEPT !.meta = TRUE].term = "none"
    BY <1>0, <1>2, <1>8 DEF Account, Update, SetFacts, Active
  <2> QED
    BY <1>0, <1>2, <1>3, <1>8, <2>1 DEF SetFacts
<1>9. ASSUME NEW e \in Extras \cap {"good", "bad"}, EchoPrompt(r, e)
      PROVE  IInv'
  <2>1. [accounts[r] EXCEPT !.echoed = TRUE].state = "active"
        /\ [statement[r] EXCEPT !.echo = e].term = "none"
    BY <1>0, <1>2, <1>9 DEF Account, Update, EchoPrompt, Active
  <2> QED
    BY <1>0, <1>2, <1>3, <1>9, <2>1 DEF EchoPrompt
<1>10. \A t \in Terminals, b \in BOOLEAN : Answer(r, t, b).term = t /\ Answer(r, t, b) \in Update
  <2>1. \A t \in Terminals, b \in BOOLEAN : Answer(r, t, b).term = t
    BY <1>0 DEF Answer, Update
  <2> QED
    BY <2>1, WrittenOffTypes, IInvParts
<1>11. CASE Finish(r)
  <2>1. PICK bare \in BOOLEAN : Touch(r, Closed(r), Answer(r, "finished", bare))
    BY <1>11 DEF Finish, Bare
  <2> QED
    BY <1>0, <1>2, <1>3, <1>5, <1>10, <1>11, <2>1 DEF Finish, Terminals
<1>12. CASE Fail(r)
  BY <1>0, <1>2, <1>3, <1>5, <1>10, <1>12 DEF Fail, Terminals
<1>13. CASE Retire(r)
  BY <1>0, <1>2, <1>3, <1>5, <1>13 DEF Retire
<1>14. CASE DeferFinish(r)
  <2>1. PICK bare \in BOOLEAN : deferred' = [deferred EXCEPT ![r] = Answer(r, "finished", bare)]
    BY <1>14 DEF DeferFinish, Bare
  <2> QED
    BY <1>0, <1>3, <1>5, <1>10, <1>14, <2>1 DEF DeferFinish, Terminals
<1> QED
  BY <1>4, <1>6, <1>7, <1>8, <1>9, <1>11, <1>12, <1>13, <1>14

\* A terminal enters the step stream: from here on it is the last thing said
\* about its request, and the stream alone carries the answer.
LEMMA Answered ==
    ASSUME IInv, TypeOK', NEW q \in Id, NEW m \in [Id -> Update], steps' = After(<<m>>),
           m[q].term # "none", NoTerminal(q), out[q].end \notin Terminals,
           out'[q] = out[q], statement'[q] = Empty, deferred'[q] = Empty,
           accounts'[q].state = "closed" \/ (accounts'[q] = NoAccount /\ m[q].term # "finished"),
           ~Enveloped(q)', q <= nextId', Streaming(q)'
    PROVE  Duties(q)'
<1>0. Empty.term = "none" /\ NoAccount.state = "none"
  BY DEF Empty, NoAccount
<1>1. Undrawn(q)'
  BY DEF Undrawn, TypeOK, Id
<1>2. AccountDuty(q)' /\ StatementDuty(q)' /\ DeferredDuty(q)' /\ ClientDuty(q)'
  BY <1>0 DEF AccountDuty, StatementDuty, DeferredDuty, ClientDuty
<1>3. StepDuty(q)'
  <2>1. CASE bridge = "up"
    <3>1. /\ Len(steps') = Len(steps) + 1 /\ Len(steps) \in Nat
          /\ \A i \in 1..Len(steps) : steps'[i] = steps[i]
      BY <2>1, SendFacts, IInvParts
    <3>2. ASSUME NEW i \in 1..Len(steps'), steps'[i][q].term # "none"
          PROVE  i = Len(steps) + 1
      BY <3>1, <3>2 DEF NoTerminal
    <3>3. steps'[Len(steps) + 1] = m
      BY <2>1, SendFacts, IInvParts
    <3> QED
      BY <1>0, <3>1, <3>2, <3>3 DEF StepDuty
  <2>2. CASE bridge # "up"
    <3>1. steps' = <<>>
      BY <2>2, SendFacts, IInvParts
    <3>2. Len(steps') = 0
      BY <3>1
    <3> QED
      BY <3>2 DEF StepDuty
  <2> QED
    BY <2>1, <2>2
<1> QED
  BY <1>1, <1>2, <1>3 DEF Duties

\* The statement of a step is committed for q and speaks without a terminal.
LEMMA Spoken ==
    ASSUME IInv, TypeOK', NEW q \in Id, steps' = After(<<statement>>),
           statement[q] # Empty, statement[q].term = "none", statement'[q] = Empty,
           UNCHANGED <<nextId, submissions, abort, accounts, deferred, bridge, names, streams,
                       owner, out>>
    PROVE  Duties(q)'
<1>0. Empty.term = "none"
  BY DEF Empty
<1>1. Duties(q)
  BY IInvParts
<1>2. statement[q] \in Update /\ accounts[q] \in Account
  BY IInvParts DEF TypeOK, Account
<1>3. /\ accounts[q].state \in {"active", "closed"} /\ deferred[q] = Empty /\ NoTerminal(q)
      /\ ~Enveloped(q) /\ out[q].end \notin Terminals /\ q <= nextId
  <2>1. ~Unknown(q) /\ ~Quiet(q)
    BY DEF Unknown, Quiet
  <2>2. ~Enveloped(q) /\ q <= nextId
    BY <1>1, <2>1, IInvParts DEF Duties, Undrawn, Id
  <2>3. accounts[q].state \in {"active", "closed"} /\ deferred[q] = Empty
    BY <1>1, <1>2, <2>1 DEF Duties, AccountDuty, DeferredDuty, Account
  <2>4. NoTerminal(q) /\ out[q].end \notin Terminals
    BY <1>1, <2>1 DEF Duties, StepDuty, ClientDuty, NoTerminal
  <2> QED
    BY <2>2, <2>3, <2>4
<1>4. NoTerminal(q)'
  <2>1. CASE bridge = "up"
    <3>1. /\ Len(steps') = Len(steps) + 1 /\ Len(steps) \in Nat
          /\ \A i \in 1..Len(steps) : steps'[i] = steps[i]
          /\ steps'[Len(steps) + 1] = statement
      BY <2>1, SendFacts, IInvParts DEF TypeOK
    <3>2. ASSUME NEW i \in 1..Len(steps')
          PROVE  steps'[i][q].term = "none"
      <4>1. i \in 1..Len(steps) \/ i = Len(steps) + 1
        BY <3>1
      <4> QED
        BY <1>3, <3>1, <4>1 DEF NoTerminal
    <3> QED
      BY <3>2 DEF NoTerminal
  <2>2. CASE bridge # "up"
    <3>1. steps' = <<>>
      BY <2>2, SendFacts, IInvParts DEF TypeOK
    <3>2. Len(steps') = 0
      BY <3>1
    <3> QED
      BY <3>2 DEF NoTerminal
  <2> QED
    BY <2>1, <2>2
<1>5. Undrawn(q)' /\ ~Enveloped(q)'
  BY <1>3, IInvParts DEF Undrawn, Enveloped, TypeOK, Id
<1>6. AccountDuty(q)' /\ StatementDuty(q)' /\ DeferredDuty(q)' /\ ClientDuty(q)'
  BY <1>0, <1>3, <1>4 DEF AccountDuty, StatementDuty, DeferredDuty, ClientDuty
<1>7. StepDuty(q)'
  BY <1>4 DEF StepDuty, NoTerminal
<1>8. Streaming(q)'
  BY <1>1 DEF Duties, Streaming, Waiting
<1> QED
  BY <1>5, <1>6, <1>7, <1>8 DEF Duties

\* A step that leaves the bridge's maps alone keeps the streams.
LEMMA StreamingKept ==
    ASSUME IInv, NEW q \in Id, UNCHANGED <<abort, bridge, names, streams, owner, out>>
    PROVE  /\ Streaming(q)'
           /\ Waiting(q) => /\ bridge' = "up" /\ names'[streams[q].name] = q
                            /\ owner'[streams[q].name] = q
BY IInvParts DEF Duties, Streaming, Waiting

\* commit_step: the statement moves to the step stream.
LEMMA CommitDuty ==
    ASSUME IInv, TypeOK', Commit
    PROVE  IInv'
<1> USE DEF front
<1>1. UNCHANGED <<nextId, submissions, abort, accounts, deferred, lost, bridge, names, streams,
                  owner, out>>
      /\ statement' = NoUpdates /\ driver \in {"commit", "commitErr"}
      /\ driver' \in {"fatal", "exiting", "drain"}
  BY DEF Commit, CommitStep
<1>2. \/ steps' = After(<<statement>>)
      \/ statement = NoUpdates /\ steps' = steps
  BY DEF Commit, CommitStep, Send
<1>3. ChannelOrdered'
  BY <1>1, IInvParts DEF ChannelOrdered
<1>4. Phases'
  <2>1. bridge # "up" => steps' = <<>>
    BY <1>2, SendFacts, IInvParts DEF Phases, TypeOK
  <2> QED
    BY <1>1, <2>1, IInvParts DEF Phases
<1>5. ASSUME NEW q \in Id
      PROVE  Duties(q)'
  <2>1. statement'[q] = Empty
    BY <1>1 DEF NoUpdates
  <2>2. nextId' >= nextId /\ (Enveloped(q)' <=> Enveloped(q))
    BY <1>1, IInvParts DEF Enveloped
  <2>3. CASE statement[q] = Empty
    <3>1. statement \in [Id -> Update]
      BY IInvParts DEF TypeOK
    <3>2. NothingNew(q)
      BY <1>2, <2>3, <3>1, Unsaid, SaidOfOthers, IInvParts
    <3> QED
      BY <1>1, <2>1, <2>2, <2>3, <3>2, Frame, StreamingKept, IInvParts
  <2>4. CASE statement[q] # Empty
    <3>1. statement \in [Id -> Update] /\ steps' = After(<<statement>>)
      BY <1>2, <2>4, IInvParts DEF NoUpdates, TypeOK
    <3>2. CASE statement[q].term = "none"
      BY <1>1, <2>1, <2>4, <3>1, <3>2, Spoken
    <3>3. CASE statement[q].term # "none"
      <4>1. /\ accounts[q].state = "closed" /\ deferred[q] = Empty
            /\ NoTerminal(q) /\ out[q].end \notin Terminals
        BY <3>3, IInvParts DEF Duties, StatementDuty
      <4>2. ~Enveloped(q) /\ q <= nextId
        BY <2>4, IInvParts DEF Duties, Undrawn, Unknown, Quiet, Id
      <4> QED
        BY <1>1, <2>1, <2>2, <3>1, <3>3, <4>1, <4>2, Answered, StreamingKept
    <3> QED
      BY <3>2, <3>3
  <2> QED
    BY <2>3, <2>4
<1> QED
  BY <1>3, <1>4, <1>5 DEF IInv

\* What a panicking step had buffered for q is dropped with the statement.
LEMMA DropStatement ==
    ASSUME IInv, TypeOK', NEW q \in Id, ~IsOpen(q), statement[q] # Empty, statement'[q] = Empty,
           accounts'[q] = accounts[q], deferred'[q] = deferred[q], out'[q] = out[q],
           nextId' = nextId, Enveloped(q)' <=> Enveloped(q), NothingNew(q), Streaming(q)'
    PROVE  Duties(q)'
<1>0. Empty.term = "none"
  BY DEF Empty
<1>1. Duties(q) /\ accounts[q] \in Account
  BY IInvParts DEF TypeOK, Account
<1>2. ~Unknown(q) /\ ~Quiet(q)
  BY DEF Unknown, Quiet
<1>3. /\ accounts[q].state = "closed" /\ deferred[q] = Empty /\ NoTerminal(q)
      /\ ~Enveloped(q) /\ out[q].end \notin Terminals /\ q <= nextId
  <2>1. ~Enveloped(q) /\ q <= nextId
    BY <1>1, <1>2, IInvParts DEF Duties, Undrawn, Id
  <2>2. accounts[q].state = "closed" /\ deferred[q] = Empty
    BY <1>1 DEF Duties, AccountDuty, DeferredDuty, Account, IsOpen
  <2>3. NoTerminal(q) /\ out[q].end \notin Terminals
    BY <1>1, <1>2 DEF Duties, StepDuty, ClientDuty, NoTerminal
  <2> QED
    BY <2>1, <2>2, <2>3
<1>4. NoTerminal(q)'
  BY <1>0, <1>3 DEF NoTerminal, NothingNew
<1>5. Undrawn(q)' /\ ~Enveloped(q)'
  BY <1>3, IInvParts DEF Undrawn, TypeOK, Id
<1>6. AccountDuty(q)' /\ StatementDuty(q)' /\ DeferredDuty(q)' /\ ClientDuty(q)'
  BY <1>0, <1>3, <1>4 DEF AccountDuty, StatementDuty, DeferredDuty, ClientDuty
<1>7. StepDuty(q)'
  BY <1>4 DEF StepDuty, NoTerminal
<1> QED
  BY <1>5, <1>6, <1>7 DEF Duties

\* fail_all and the ledger's Drop: every open account is written off, and the
\* statement holds no terminal of such an account.
LEMMA WriteOffDuty ==
    ASSUME IInv, TypeOK', FailAll \/ DropLedger
    PROVE  IInv'
<1> USE DEF front
<1>1. /\ UNCHANGED <<nextId, submissions, abort, deferred, bridge, names, streams, owner, out>>
      /\ accounts' = Emptied /\ statement' = NoUpdates
      /\ (driver' = "exiting" /\ lost' = lost /\ lost = {}) \/ driver' = "closing"
  BY IInvParts DEF FailAll, DropLedger, Phases
<1>2. WrittenOff \in [Id -> Update] /\ Emptied \in [Id -> Account]
  BY WrittenOffTypes, IInvParts
<1>3. \/ steps' = After(<<WrittenOff>>)
      \/ steps' = steps /\ WrittenOff = NoUpdates
  BY DEF FailAll, DropLedger
<1>4. ChannelOrdered'
  BY <1>1, IInvParts DEF ChannelOrdered
<1>5. Phases'
  <2>1. bridge # "up" => steps' = <<>>
    BY <1>2, <1>3, SendFacts, IInvParts DEF Phases
  <2> QED
    BY <1>1, <2>1, IInvParts DEF Phases
<1>6. ASSUME NEW q \in Id
      PROVE  Duties(q)'
  <2>1. statement'[q] = Empty
    BY <1>1 DEF NoUpdates
  <2>2. nextId' >= nextId /\ (Enveloped(q)' <=> Enveloped(q))
    BY <1>1, IInvParts DEF Enveloped
  <2>3. CASE ~IsOpen(q)
    <3>1. accounts'[q] = accounts[q] /\ WrittenOff[q] = Empty
      BY <1>1, <2>3 DEF Emptied, WrittenOff
    <3>2. NothingNew(q)
      BY <1>2, <1>3, <3>1, Unsaid, SaidOfOthers, IInvParts
    <3>3. CASE statement[q] = Empty
      BY <1>1, <2>1, <2>2, <3>1, <3>2, <3>3, Frame, StreamingKept, IInvParts
    <3>4. CASE statement[q] # Empty
      BY <1>1, <2>1, <2>2, <2>3, <3>1, <3>2, <3>4, DropStatement, StreamingKept, IInvParts
    <3> QED
      BY <3>3, <3>4
  <2>4. CASE IsOpen(q)
    <3>0. accounts[q] # NoAccount
      BY <2>4 DEF IsOpen, NoAccount
    <3>1. accounts[q] \in Account
      BY IInvParts DEF TypeOK, Account
    <3>2. /\ accounts'[q].state = "closed" /\ WrittenOff[q].term = "failed"
      BY <1>1, <2>4, <3>1 DEF Emptied, Closed, WrittenOff, Failed, Empty, Account
    <3>3. steps' = After(<<WrittenOff>>)
      BY <1>3, <3>2 DEF NoUpdates, Empty
    <3>4. /\ deferred[q] = Empty /\ NoTerminal(q) /\ out[q].end \notin Terminals
      BY <2>4, IInvParts DEF Duties, AccountDuty, IsOpen, Quiet, NoTerminal, Empty
    <3>5. ~Enveloped(q) /\ q <= nextId
      BY <3>0, IInvParts DEF Duties, Undrawn, Unknown, Id
    <3> QED
      BY <1>1, <1>2, <2>1, <2>2, <3>2, <3>3, <3>4, <3>5, Answered, StreamingKept
  <2> QED
    BY <2>3, <2>4
<1> QED
  BY <1>4, <1>5, <1>6 DEF IInv

\* Solo says one thing about one request.
LEMMA SoloFacts ==
    ASSUME NEW r \in Id, NEW u \in Update
    PROVE  /\ Solo(r, u) \in [Id -> Update] /\ Solo(r, u)[r] = u
           /\ \A q \in Id \ {r} : Solo(r, u)[q] = Empty
BY ValueTypes DEF Solo, NoUpdates

\* An envelope nobody serves answers for itself.
LEMMA FailedFacts ==
    /\ Failed(0) \in Update /\ Failed(0).term = "failed"
<1>1. 0 \in 0..MaxTokens
  BY ContractAssumption
<1>2. Failed(0) \in Update
  BY <1>1, ValueTypes
<1>3. Failed(0).term = "failed"
  BY DEF Failed, Empty
<1> QED
  BY <1>2, <1>3

\* Drop for RequestEnvelope: the envelope's duty passes to the step stream.
LEMMA DropEnvelopeDuty ==
    ASSUME IInv, TypeOK', DropEnvelope
    PROVE  IInv'
<1> USE DEF front, engine
<1>0. PICK h : h = Head(submissions)
  OBVIOUS
<1>1. /\ submissions # <<>> /\ submissions' = Tail(submissions) /\ driver = "discarding"
      /\ steps' = After(<<Solo(h, Failed(0))>>)
      /\ UNCHANGED <<nextId, abort, accounts, driver, statement, deferred, lost, bridge, names,
                     streams, owner, out>>
  BY <1>0 DEF DropEnvelope, Send
<1>2. /\ h \in Id /\ Enveloped(h) /\ ChannelOrdered'
      /\ \A q \in Id : Enveloped(q)' => Enveloped(q) /\ q # h
  BY <1>0, <1>1, HeadLeaves, IInvParts
<1>3. /\ Solo(h, Failed(0)) \in [Id -> Update] /\ Solo(h, Failed(0))[h].term = "failed"
      /\ \A q \in Id \ {h} : Solo(h, Failed(0))[q] = Empty
  BY <1>2, SoloFacts, FailedFacts
<1>4. Phases'
  <2>1. bridge # "up" => steps' = <<>>
    BY <1>1, <1>3, SendFacts, IInvParts
  <2> QED
    BY <1>1, <2>1, IInvParts DEF Phases
<1>5. ASSUME NEW q \in Id, q # h
      PROVE  Duties(q)'
  <2>1. NothingNew(q)
    BY <1>1, <1>3, <1>5, SaidOfOthers, IInvParts
  <2>2. nextId' >= nextId
    BY <1>1, IInvParts
  <2> QED
    BY <1>1, <1>2, <2>1, <2>2, Frame, StreamingKept, IInvParts
<1>6. Duties(h)'
  <2>1. Unknown(h) /\ h <= nextId
    <3>1. Unknown(h)
      BY <1>2, IInvParts DEF Duties
    <3>2. PICK i \in 1..Len(submissions) : submissions[i] = h
      BY <1>2 DEF Enveloped
    <3> QED
      BY <3>1, <3>2, IInvParts DEF ChannelOrdered
  <2>2. /\ accounts[h] = NoAccount /\ statement[h] = Empty /\ deferred[h] = Empty
        /\ NoTerminal(h) /\ out[h].end \notin Terminals
    BY <2>1 DEF Unknown, Quiet, NoTerminal, Empty
  <2> QED
    BY <1>1, <1>2, <1>3, <2>1, <2>2, Answered, StreamingKept
<1> QED
  BY <1>2, <1>4, <1>5, <1>6 DEF IInv

\* A deferred finish, sent or dropped, hands its answer to the step stream.
LEMMA SendDeferredDuty ==
    ASSUME IInv, TypeOK', NEW r \in Id, SendDeferred(r) \/ DropDeferred(r)
    PROVE  IInv'
<1> USE DEF front, engine
<1>1. deferred[r] \in Update /\ deferred[r] # Empty
  BY IInvParts DEF TypeOK, SendDeferred, DropDeferred
<1>2. /\ accounts[r].state = "closed" /\ deferred[r].term = "finished"
      /\ statement[r] = Empty /\ NoTerminal(r) /\ out[r].end \notin Terminals
  BY <1>1, IInvParts DEF Duties, DeferredDuty
<1>3. PICK u \in Update : /\ deferred' = [deferred EXCEPT ![r] = Empty]
                          /\ steps' = After(<<Solo(r, u)>>) /\ u.term # "none"
                          /\ UNCHANGED <<submissions, abort, engine, exited, front>>
  <2>1. [deferred[r] EXCEPT !.term = "failed"] \in Update
        /\ [deferred[r] EXCEPT !.term = "failed"].term = "failed"
    BY <1>1 DEF Update, Terminals
  <2> QED
    BY <1>1, <1>2, <2>1 DEF SendDeferred, DropDeferred, Send
<1>4. Solo(r, u) \in [Id -> Update] /\ Solo(r, u)[r] = u /\ \A q \in Id \ {r} : Solo(r, u)[q] = Empty
  BY SoloFacts
<1>5. Phases' /\ ChannelOrdered'
  <2>1. bridge # "up" => steps' = <<>>
    BY <1>3, <1>4, SendFacts, IInvParts
  <2> QED
    BY <1>3, <2>1, IInvParts DEF Phases, ChannelOrdered
<1>6. ASSUME NEW q \in Id
      PROVE  nextId' >= nextId /\ (Enveloped(q)' <=> Enveloped(q))
  BY <1>3, IInvParts DEF Enveloped
<1>7. ASSUME NEW q \in Id, q # r
      PROVE  Duties(q)'
  <2>1. NothingNew(q)
    BY <1>3, <1>4, <1>7, SaidOfOthers, IInvParts
  <2>2. deferred'[q] = deferred[q]
    BY <1>3, <1>7, IInvParts DEF TypeOK
  <2> QED
    BY <1>3, <1>6, <2>1, <2>2, Frame, StreamingKept, IInvParts
<1>8. Duties(r)'
  <2>1. deferred'[r] = Empty
    BY <1>3, IInvParts DEF TypeOK
  <2>2. ~Unknown(r)
    BY <1>1 DEF Unknown, Quiet
  <2>3. ~Enveloped(r) /\ r <= nextId
    BY <2>2, IInvParts DEF Duties, Undrawn, Id
  <2> QED
    BY <1>2, <1>3, <1>4, <1>6, <2>1, <2>3, Answered, StreamingKept
<1> QED
  BY <1>5, <1>7, <1>8 DEF IInv

\* A new request: its id is fresh, and so is its wire id's stream.
LEMMA AddDuty ==
    ASSUME IInv, TypeOK', NEW n \in Name, Add(n)
    PROVE  IInv'
<1> USE DEF front, engine
<1>0. PICK r : r = nextId + 1
  OBVIOUS
<1>1. /\ bridge = "up" /\ nextId < MaxRequests /\ names[n] = NoId /\ nextId' = r
      /\ names' = [names EXCEPT ![n] = r] /\ owner' = [owner EXCEPT ![n] = r]
      /\ streams' = [streams EXCEPT ![r] = NewStream(n)]
      /\ UNCHANGED <<abort, accounts, driver, statement, deferred, lost, bridge, out>>
      /\ \/ submissions' = submissions /\ steps' = After(<<Solo(r, Failed(0))>>)
         \/ submissions' = Append(submissions, r) /\ steps' = steps
  BY <1>0 DEF Add, Reusable
<1>2. r \in Id /\ r > nextId /\ nextId \in Nat /\ r \in Nat
  BY <1>0, <1>1, IInvParts, ContractAssumption DEF Id
<1>3. /\ Unknown(r) /\ out[r] = Silent /\ streams[r] = NoStream /\ ~abort[r]
  BY <1>2, IInvParts DEF Duties, Undrawn
<1>4. /\ Solo(r, Failed(0)) \in [Id -> Update] /\ Solo(r, Failed(0))[r].term = "failed"
      /\ \A q \in Id \ {r} : Solo(r, Failed(0))[q] = Empty
  BY <1>2, SoloFacts, FailedFacts
<1>5. Phases'
  BY <1>1, IInvParts DEF Phases
<1>6. /\ Len(submissions) \in Nat
      /\ \A i \in 1..Len(submissions) : submissions[i] \in Id /\ submissions[i] <= nextId
      /\ \A i, j \in 1..Len(submissions) : i < j => submissions[i] < submissions[j]
  BY LenProperties, ElementOfSeq, IInvParts DEF TypeOK, ChannelOrdered
<1>7. \/ submissions' = submissions
      \/ /\ Len(submissions') = Len(submissions) + 1 /\ submissions'[Len(submissions) + 1] = r
         /\ \A i \in 1..Len(submissions) : submissions'[i] = submissions[i]
  <2>1. submissions \in Seq(Id)
    BY IInvParts DEF TypeOK
  <2>2. CASE submissions' = Append(submissions, r)
    BY <1>2, <2>1, <2>2, AppendProperties
  <2> QED
    BY <1>1, <2>2
<1>8. ChannelOrdered'
  <2>1. \A i \in 1..Len(submissions') : i \in 1..Len(submissions) \/ submissions'[i] = r
    BY <1>6, <1>7
  <2>2. \A i \in 1..Len(submissions') : submissions'[i] <= nextId'
    BY <1>1, <1>2, <1>6, <1>7, <2>1 DEF Id
  <2>3. \A i, j \in 1..Len(submissions') : i < j => submissions'[i] < submissions'[j]
    BY <1>2, <1>6, <1>7 DEF Id
  <2> QED
    BY <2>2, <2>3 DEF ChannelOrdered
<1>9. ASSUME NEW q \in Id, Enveloped(q)'
      PROVE  q = r \/ Enveloped(q)
  <2>1. PICK i \in 1..Len(submissions') : submissions'[i] = q
    BY <1>9 DEF Enveloped
  <2> QED
    BY <1>6, <1>7, <2>1 DEF Enveloped
<1>10. ASSUME NEW q \in Id, q # r
       PROVE  Duties(q)'
  <2>1. NothingNew(q)
    BY <1>1, <1>4, <1>10, SaidOfOthers, Unsaid, IInvParts
  <2>2. streams'[q] = streams[q]
    BY <1>1, <1>10, IInvParts DEF TypeOK
  <2>3. Waiting(q) => /\ bridge' = "up" /\ names'[streams[q].name] = q
                      /\ owner'[streams[q].name] = q
    <3>1. Waiting(q) => /\ bridge = "up" /\ streams[q].name \in Name
                        /\ names[streams[q].name] = q /\ owner[streams[q].name] = q
      BY IInvParts DEF Duties, Streaming
    <3>2. q # NoId
      BY DEF Id, NoId
    <3> QED
      BY <1>1, <3>1, <3>2, IInvParts DEF TypeOK
  <2>4. nextId' >= nextId
    BY <1>1, <1>2
  <2> QED
    BY <1>1, <1>2, <1>9, <1>10, <2>1, <2>2, <2>3, <2>4, Frame, IInvParts
<1>11. Streaming(r)'
  <2>1. streams'[r] = NewStream(n) /\ names'[n] = r /\ owner'[n] = r
    BY <1>1, <1>2, IInvParts DEF TypeOK
  <2> QED
    BY <1>1, <1>3, <2>1 DEF Streaming, NewStream, Silent
<1>12. /\ accounts[r] = NoAccount /\ statement[r] = Empty /\ deferred[r] = Empty
       /\ NoTerminal(r) /\ out[r].end \notin Terminals
  BY <1>3 DEF Unknown, Quiet, NoTerminal, Empty
<1>13. Duties(r)'
  <2>1. CASE submissions' = submissions /\ steps' = After(<<Solo(r, Failed(0))>>)
    <3>1. ~Enveloped(r)'
      BY <1>2, <1>6, <2>1 DEF Enveloped
    <3>2. r <= nextId'
      BY <1>1, <1>2
    <3> QED
      BY <1>1, <1>2, <1>4, <1>11, <1>12, <2>1, <3>1, <3>2, Answered
  <2>2. CASE submissions' = Append(submissions, r) /\ steps' = steps
    <3>1. streams'[r] = NewStream(n)
      BY <1>1, <1>2, IInvParts DEF TypeOK
    <3>2. Unknown(r)'
      BY <1>1, <1>3, <2>2, <3>1 DEF Unknown, Quiet, NewStream
    <3>3. Undrawn(r)'
      BY <1>1, <1>2 DEF Undrawn
    <3>4. Quiet(r)' /\ accounts'[r] = NoAccount /\ out'[r].end \notin Terminals
      BY <3>2 DEF Unknown
    <3>5. AccountDuty(r)' /\ StatementDuty(r)' /\ DeferredDuty(r)' /\ StepDuty(r)' /\ ClientDuty(r)'
      BY <3>4 DEF AccountDuty, StatementDuty, DeferredDuty, StepDuty, ClientDuty, Quiet, Empty,
                  NoAccount
    <3> QED
      BY <1>11, <3>2, <3>3, <3>5 DEF Duties
  <2> QED
    BY <1>1, <2>1, <2>2
<1> QED
  BY <1>5, <1>8, <1>10, <1>13 DEF IInv

\* A step that closes q's stream and touches nothing else about q keeps the
\* duties: who answers does not depend on who listens.
LEMMA StreamClosed ==
    ASSUME IInv, TypeOK', NEW q \in Id,
           UNCHANGED <<nextId, submissions, accounts, statement, deferred>>,
           steps' = steps \/ steps' = <<>>,
           streams'[q] = NoStream, q <= nextId \/ (out'[q] = out[q] /\ abort'[q] = abort[q]),
           out'[q] = out[q] \/ \E how \in {"dead", "shutdown"} : out'[q] = [out[q] EXCEPT !.end = how],
           out[q].end = "no" \/ out'[q] = out[q]
    PROVE  Duties(q)'
<1>1. Duties(q)
  BY IInvParts
<1>2. /\ out'[q].toks = out[q].toks /\ out'[q].sched = out[q].sched
      /\ out'[q].meta = out[q].meta
      /\ out'[q].end \in Terminals => out[q].end \in Terminals
  BY IInvParts DEF TypeOK, Terminals
<1>3. \A i \in 1..Len(steps') : i \in 1..Len(steps) /\ steps'[i] = steps[i]
  BY IInvParts
<1>4. Quiet(q) => Quiet(q)'
  BY <1>3 DEF Quiet
<1>5. NoTerminal(q) => NoTerminal(q)'
  BY <1>3 DEF NoTerminal
<1>6. Enveloped(q)' <=> Enveloped(q)
  BY DEF Enveloped
<1>7. Unknown(q) => Unknown(q)'
  BY <1>2, <1>4 DEF Unknown, NoStream
<1>8. Undrawn(q)' /\ (Enveloped(q) => Unknown(q))'
  BY <1>1, <1>6, <1>7, IInvParts DEF Duties, Undrawn, Id
<1>9. AccountDuty(q)' /\ StatementDuty(q)' /\ DeferredDuty(q)'
  BY <1>1, <1>2, <1>4, <1>5 DEF Duties, AccountDuty, StatementDuty, DeferredDuty
<1>10. ClientDuty(q)'
  <2>1. CASE out'[q].end \in Terminals
    BY <1>1, <1>2, <1>4, <1>6, <2>1 DEF Duties, ClientDuty
  <2> QED
    BY <2>1 DEF ClientDuty
<1>11. StepDuty(q)'
  BY <1>1, <1>2, <1>3, <1>6 DEF Duties, StepDuty
<1>12. Streaming(q)'
  BY DEF Streaming, Waiting
<1> QED
  BY <1>8, <1>9, <1>10, <1>11, <1>12 DEF Duties

\* handle_message Abort.
LEMMA AbortDuty ==
    ASSUME IInv, NamesDrawn, TypeOK', NEW n \in Name, Abort(n)
    PROVE  IInv'
<1> USE DEF front, engine
<1>0. PICK r : r = names[n]
  OBVIOUS
<1>1. /\ bridge = "up" /\ r # NoId /\ names' = [names EXCEPT ![n] = NoId]
      /\ streams' = [streams EXCEPT ![r] = NoStream] /\ abort' = [abort EXCEPT ![r] = TRUE]
      /\ UNCHANGED <<nextId, submissions, accounts, driver, statement, deferred, steps, lost,
                     bridge, owner, out>>
  BY <1>0 DEF Abort
<1>2. r \in Id
  BY <1>0, <1>1, IInvParts DEF TypeOK
<1>3. Phases' /\ ChannelOrdered'
  BY <1>1, IInvParts DEF Phases, ChannelOrdered
<1>4. ASSUME NEW q \in Id, q # r
      PROVE  Duties(q)'
  <2>1. streams'[q] = streams[q] /\ abort'[q] = abort[q]
    BY <1>1, <1>4, IInvParts DEF TypeOK
  <2>2. Waiting(q) => /\ bridge' = "up" /\ names'[streams[q].name] = q
                      /\ owner'[streams[q].name] = q
    BY <1>0, <1>1, <1>4, IInvParts DEF Duties, Streaming, TypeOK
  <2>3. nextId' >= nextId /\ (Enveloped(q)' <=> Enveloped(q))
    BY <1>1, IInvParts DEF Enveloped
  <2> QED
    BY <1>1, <2>1, <2>2, <2>3, Frame, Unsaid, IInvParts
<1>5. Duties(r)'
  <2>1. streams'[r] = NoStream
    BY <1>1, <1>2, IInvParts DEF TypeOK
  <2>2. r <= nextId
    BY <1>0 DEF NamesDrawn
  <2> QED
    BY <1>1, <1>2, <2>1, <2>2, StreamClosed
<1> QED
  BY <1>3, <1>4, <1>5 DEF IInv

\* The wire ids name requests that exist, whatever the step.
LEMMA NamesStep ==
    ASSUME TypeOK, NamesDrawn, [Next]_vars
    PROVE  NamesDrawn'
<1>0. /\ nextId \in Nat /\ names \in [Name -> Id \cup {NoId}]
      /\ \A n \in Name : names[n] \in Nat
  BY ContractAssumption DEF TypeOK, Id, NoId
<1>1. ASSUME UNCHANGED <<names, nextId>>
      PROVE  NamesDrawn'
  BY <1>1 DEF NamesDrawn
<1>2. ASSUME NEW n \in Name, Add(n)
      PROVE  NamesDrawn'
  BY <1>0, <1>2 DEF Add, NamesDrawn
<1>3. ASSUME NEW n \in Name, Abort(n)
      PROVE  NamesDrawn'
  BY <1>0, <1>3 DEF Abort, NamesDrawn, NoId
<1>4. CASE DispatchStep
  <2>1. nextId' = nextId /\ \A n \in Name : names'[n] = NoId \/ names'[n] = names[n]
    BY <1>4 DEF DispatchStep
  <2> QED
    BY <1>0, <2>1 DEF NamesDrawn, NoId
<1>5. ASSUME NEW how, EndLoop(how)
      PROVE  NamesDrawn'
  BY <1>1, <1>5 DEF EndLoop
<1>6. ASSUME NEW r \in Id,
             \/ Admit(r) \/ Reject(r) \/ PushTokens(r) \/ SetFacts(r)
             \/ \E e \in Extras \cap {"good", "bad"} : EchoPrompt(r, e)
             \/ Finish(r) \/ Fail(r) \/ Retire(r) \/ DeferFinish(r) \/ LoseTrack(r)
             \/ SendDeferred(r) \/ DropDeferred(r)
      PROVE  NamesDrawn'
  BY <1>1, <1>6 DEF Admit, Reject, PushTokens, SetFacts, EchoPrompt, Finish, Fail, Retire,
                    DeferFinish, Touch, LoseTrack, SendDeferred, DropDeferred, front
<1>7. CASE \/ Register \/ Drained \/ StepReturns \/ Commit \/ FailAll \/ Panic
           \/ DropExitGuard \/ DropLedger \/ DropReceiver \/ DropEnvelope \/ DriverReturns
           \/ DropHandle \/ UNCHANGED vars
  BY <1>1, <1>7 DEF Register, Drained, StepReturns, Commit, FailAll, Panic, DropExitGuard,
                    DropLedger, DropReceiver, DropEnvelope, DriverReturns, DropHandle, front, vars
<1> QED
  BY <1>2, <1>3, <1>4, <1>5, <1>6, <1>7 DEF Next, Shutdown, LinkFails, SchedulerExited, Stopped

\* Updates that say nothing have no output and end nothing.
LEMMA EmptyFacts ==
    /\ Empty.term = "none" /\ Empty.toks = <<>> /\ Empty.echo = "none" /\ Empty.count = 0
    /\ ~Empty.sched /\ ~Empty.meta
    /\ ~HasOutput(Empty) /\ ~Terminated(Empty) /\ ~Speaks(Empty)
BY DEF Empty, HasOutput, Terminated, Speaks

\* dispatch_step, request by request: an update reaches the stream of its own
\* request only, and through it its own client.
LEMMA DispatchView ==
    ASSUME IInv, DispatchStep, NEW q \in Id, NEW m, m = Head(steps)
    PROVE  /\ m = steps[1] /\ m \in [Id -> Update] /\ Len(steps) \in Nat \ {0}
           /\ steps' = Tail(steps) /\ Len(steps') = Len(steps) - 1
           /\ \A i \in 1..Len(steps') : steps'[i] = steps[i + 1]
           /\ ~Waiting(q) => streams'[q] = streams[q] /\ out'[q] = out[q] /\ abort'[q] = abort[q]
           /\ Waiting(q) /\ Terminated(m[q]) => streams'[q] = NoStream
           /\ Waiting(q) /\ ~Terminated(m[q]) =>
                 /\ streams'[q] = IF HasOutput(m[q]) THEN Shipped(streams[q], m[q])
                                  ELSE IF m[q] # Empty THEN Noting(streams[q], m[q]) ELSE streams[q]
                 /\ names'[streams[q].name] = q /\ abort'[q] = abort[q]
           /\ Waiting(q) => out'[q] = IF HasOutput(m[q]) THEN Received(out[q], streams[q], m[q])
                                      ELSE out[q]
<1> DEFINE hit == {r \in Id : m[r] # Empty /\ Waiting(r)}
           done == {r \in hit : Terminated(m[r])}
           talk == {r \in hit : HasOutput(m[r])}
<1>1. /\ steps # <<>> /\ steps' = Tail(steps)
      /\ streams' = [r \in Id |->
            IF r \in done THEN NoStream
            ELSE IF r \in talk THEN Shipped(streams[r], m[r])
            ELSE IF r \in hit THEN Noting(streams[r], m[r]) ELSE streams[r]]
      /\ names' = [n \in Name |-> IF \E r \in done : streams[r].name = n THEN NoId ELSE names[n]]
      /\ out' = [s \in Id |->
            IF \E r \in talk : owner[streams[r].name] = s
            THEN LET r == CHOOSE r \in talk : owner[streams[r].name] = s
                 IN  Received(out[s], streams[r], m[r])
            ELSE out[s]]
      /\ abort' = [r \in Id |-> abort[r] \/ (r \in done /\ m[r].echo = "bad")]
  BY DEF DispatchStep
<1>2. /\ m = steps[1] /\ m \in [Id -> Update] /\ Len(steps) \in Nat \ {0}
      /\ Len(steps') = Len(steps) - 1
      /\ \A i \in 1..Len(steps') : steps'[i] = steps[i + 1]
  BY <1>1, IInvParts, HeadTailProperties, EmptySeq
<1>3. \A r \in Id : Waiting(r) => /\ streams[r].name \in Name /\ names[streams[r].name] = r
                                  /\ owner[streams[r].name] = r
  BY IInvParts DEF Duties, Streaming
<1>4. /\ q \in hit <=> m[q] # Empty /\ Waiting(q)
      /\ q \in done <=> Waiting(q) /\ Terminated(m[q])
      /\ q \in talk <=> Waiting(q) /\ HasOutput(m[q])
  BY EmptyFacts
<1>5. \A r \in talk : r \in Id /\ Waiting(r) /\ owner[streams[r].name] = r
  BY <1>3
<1>6. \A r \in done : r \in Id /\ Waiting(r) /\ names[streams[r].name] = r
  BY <1>3
<1> HIDE DEF hit, done, talk
<1>7. out'[q] = IF q \in talk THEN Received(out[q], streams[q], m[q]) ELSE out[q]
  <2>1. CASE q \in talk
    <3>1. (CHOOSE r \in talk : owner[streams[r].name] = q) = q
      BY <1>5, <2>1
    <3>2. \E r \in talk : owner[streams[r].name] = q
      BY <1>5, <2>1
    <3> QED
      BY <1>1, <2>1, <3>1, <3>2
  <2>2. CASE q \notin talk
    <3>1. ~\E r \in talk : owner[streams[r].name] = q
      BY <1>5, <2>2
    <3> QED
      BY <1>1, <2>2, <3>1
  <2> QED
    BY <2>1, <2>2
<1>8. Waiting(q) /\ q \notin done => names'[streams[q].name] = q
  <2>1. ASSUME Waiting(q), q \notin done
        PROVE  ~\E r \in done : streams[r].name = streams[q].name
    BY <1>3, <1>6, <2>1
  <2> QED
    BY <1>1, <1>3, <2>1
<1>9. /\ q \in done => streams'[q] = NoStream
      /\ q \notin done /\ q \in talk => streams'[q] = Shipped(streams[q], m[q])
      /\ q \notin done /\ q \notin talk /\ q \in hit => streams'[q] = Noting(streams[q], m[q])
      /\ q \notin done /\ q \notin talk /\ q \notin hit => streams'[q] = streams[q]
  BY <1>1
<1>10. q \notin done => abort'[q] = abort[q]
  <2>1. abort[q] \in BOOLEAN
    BY IInvParts DEF TypeOK
  <2>2. abort'[q] = (abort[q] \/ (q \in done /\ m[q].echo = "bad"))
    BY <1>1
  <2> QED
    BY <2>1, <2>2, Zenon
<1> QED
  BY <1>1, <1>2, <1>4, <1>7, <1>8, <1>9, <1>10, EmptyFacts

\* dispatch_step: the head of the stream is delivered, or dropped when its
\* request has no stream any more.
LEMMA DispatchDuty ==
    ASSUME IInv, TypeOK', DispatchStep
    PROVE  IInv'
<1> USE DEF front, engine
<1>0. PICK m : m = Head(steps)
  OBVIOUS
<1>1. /\ bridge = "up"
      /\ UNCHANGED <<nextId, submissions, accounts, driver, statement, deferred, lost, bridge, owner>>
  BY DEF DispatchStep
<1>2. Phases' /\ ChannelOrdered'
  BY <1>1, IInvParts DEF Phases, ChannelOrdered
<1>3. ASSUME NEW q \in Id
      PROVE  Duties(q)'
  <2>1. Duties(q) /\ m[q] \in Update
    BY <1>0, DispatchView, IInvParts
  <2>2. \A i \in 1..Len(steps') : i + 1 \in 1..Len(steps) /\ steps'[i][q] = steps[i + 1][q]
    BY <1>0, DispatchView
  <2>3. m[q] = steps[1][q] /\ 1 \in 1..Len(steps)
    BY <1>0, DispatchView
  <2>4. Quiet(q) => Quiet(q)' /\ m[q] = Empty
    BY <1>1, <2>2, <2>3 DEF Quiet
  <2>5. NoTerminal(q) => NoTerminal(q)' /\ m[q].term = "none"
    BY <2>2, <2>3 DEF NoTerminal
  <2>6. Enveloped(q)' <=> Enveloped(q)
    BY <1>1 DEF Enveloped
  <2>7. m[q] = Empty => streams'[q] = streams[q] /\ out'[q] = out[q] /\ abort'[q] = abort[q]
    BY <1>0, DispatchView, EmptyFacts
  <2>8. Unknown(q) => Unknown(q)' /\ m[q] = Empty
    BY <1>1, <2>4, <2>7 DEF Unknown
  <2>9. Undrawn(q)' /\ (Enveloped(q) => Unknown(q))'
    BY <1>1, <2>1, <2>6, <2>7, <2>8 DEF Duties, Undrawn
  <2>10. out'[q].end \in Terminals =>
            \/ out'[q] = out[q] /\ out[q].end \in Terminals
            \/ Waiting(q) /\ m[q].term # "none"
    <3>1. out'[q] = out[q] \/ (Waiting(q) /\ out'[q] = Received(out[q], streams[q], m[q]))
      BY <1>0, DispatchView
    <3>2. Waiting(q) => out[q].end = "no"
      BY <2>1 DEF Duties, Streaming
    <3>3. Received(out[q], streams[q], m[q]).end
              = IF m[q].echo = "bad" THEN "error" ELSE IF m[q].term = "none" THEN out[q].end ELSE m[q].term
      BY DEF Received
    <3> QED
      BY <3>1, <3>2, <3>3 DEF Terminals
  <2>11. NoTerminal(q) /\ out[q].end \notin Terminals => out'[q].end \notin Terminals
    BY <2>5, <2>10
  <2>12. AccountDuty(q)'
    <3>1. Quiet(q) => NoTerminal(q)
      BY EmptyFacts DEF Quiet, NoTerminal
    <3> QED
      BY <1>1, <2>1, <2>4, <2>5, <2>11, <3>1 DEF Duties, AccountDuty
  <2>13. StatementDuty(q)' /\ DeferredDuty(q)'
    BY <1>1, <2>1, <2>5, <2>11 DEF Duties, StatementDuty, DeferredDuty
  <2>14. StepDuty(q)'
    <3>1. ASSUME NEW i \in 1..Len(steps'), steps'[i][q].term # "none"
          PROVE  /\ accounts'[q].state \in {"none", "closed"} /\ ~Enveloped(q)'
                 /\ statement'[q] = Empty /\ deferred'[q] = Empty
                 /\ steps'[i][q].term = "finished" => accounts'[q].state = "closed"
                 /\ \A j \in 1..Len(steps') : j > i => steps'[j][q] = Empty
                 /\ out[q].end \notin Terminals
      <4>1. /\ i + 1 \in 1..Len(steps) /\ steps'[i][q] = steps[i + 1][q]
            /\ steps[i + 1][q].term # "none" /\ StepDuty(q)
        BY <2>1, <2>2, <3>1 DEF Duties
      <4>2. /\ accounts[q].state \in {"none", "closed"} /\ ~Enveloped(q)
            /\ statement[q] = Empty /\ deferred[q] = Empty /\ out[q].end \notin Terminals
            /\ \A j \in 1..Len(steps) : j > i + 1 => steps[j][q] = Empty
            /\ steps[i + 1][q].term = "finished" => accounts[q].state = "closed"
        BY <4>1 DEF StepDuty
      <4>3. \A j \in 1..Len(steps') : j > i => steps'[j][q] = Empty
        BY <2>2, <4>2
      <4> QED
        BY <1>1, <2>6, <4>1, <4>2, <4>3
    <3>2. ASSUME NEW i \in 1..Len(steps'), steps'[i][q].term # "none"
          PROVE  m[q].term = "none"
      <4>1. i + 1 \in 1..Len(steps) /\ i + 1 > 1 /\ steps[i + 1][q] # Empty
        BY <2>2, <3>2, EmptyFacts
      <4> QED
        BY <2>1, <2>3, <4>1 DEF Duties, StepDuty
    <3>3. ASSUME NEW i \in 1..Len(steps'), steps'[i][q].term # "none"
          PROVE  out'[q].end \notin Terminals
      BY <2>10, <3>1, <3>2, <3>3
    <3> QED
      BY <3>1, <3>3 DEF StepDuty
  <2>15. ClientDuty(q)'
    <3>1. CASE out'[q] = out[q] /\ out[q].end \in Terminals
      BY <1>1, <2>1, <2>4, <2>6, <3>1 DEF Duties, ClientDuty
    <3>2. CASE Waiting(q) /\ m[q].term # "none"
      <4>1. /\ accounts[q].state \in {"none", "closed"} /\ ~Enveloped(q)
            /\ statement[q] = Empty /\ deferred[q] = Empty
            /\ \A j \in 1..Len(steps) : j > 1 => steps[j][q] = Empty
        BY <2>1, <2>3, <3>2 DEF Duties, StepDuty
      <4>2. Quiet(q)'
        BY <1>1, <2>2, <4>1 DEF Quiet
      <4> QED
        BY <1>1, <2>6, <4>1, <4>2 DEF ClientDuty
    <3> QED
      BY <2>10, <3>1, <3>2 DEF ClientDuty
  <2>16. Streaming(q)'
    <3>1. CASE Waiting(q) /\ ~Terminated(m[q])
      <4>1. streams[q] \in StreamState
        BY IInvParts DEF TypeOK, StreamState
      <4>2. streams'[q].name = streams[q].name
        <5>1. Noting(streams[q], m[q]).name = streams[q].name
              /\ Shipped(streams[q], m[q]).name = streams[q].name
          BY <2>1, <4>1, BridgeTypes DEF Noting, Shipped, StreamState
        <5> QED
          BY <1>0, <3>1, <5>1, DispatchView
      <4>3. /\ names'[streams[q].name] = q /\ abort'[q] = abort[q]
            /\ out'[q] = out[q] \/ out'[q] = Received(out[q], streams[q], m[q])
        BY <1>0, <3>1, DispatchView
      <4>4. Received(out[q], streams[q], m[q]).end = out[q].end
        BY <3>1 DEF Received, Terminated
      <4> QED
        BY <1>1, <2>1, <3>1, <4>2, <4>3, <4>4 DEF Duties, Streaming
    <3>2. CASE Waiting(q) /\ Terminated(m[q])
      BY <1>0, <3>2, DispatchView DEF Streaming, Waiting
    <3>3. CASE ~Waiting(q)
      BY <1>0, <3>3, DispatchView DEF Streaming, Waiting
    <3> QED
      BY <3>1, <3>2, <3>3
  <2> QED
    BY <2>9, <2>12, <2>13, <2>14, <2>15, <2>16 DEF Duties
<1> QED
  BY <1>2, <1>3 DEF IInv

\* The bridge's loop ends, whatever ended it.
LEMMA EndLoopDuty ==
    ASSUME IInv, TypeOK', NEW how \in {"dead", "shutdown"}, EndLoop(how)
    PROVE  IInv'
<1> USE DEF front, engine
<1>1. /\ bridge' = "draining" /\ steps' = <<>>
      /\ UNCHANGED <<nextId, submissions, accounts, driver, statement, deferred, lost>>
  BY DEF EndLoop
<1>2. Phases' /\ ChannelOrdered'
  BY <1>1, IInvParts DEF Phases, ChannelOrdered
<1>3. ASSUME NEW q \in Id
      PROVE  Duties(q)'
  <2>1. Waiting(q) => out[q].end = "no" /\ q <= nextId
    BY IInvParts DEF Duties, Streaming, Undrawn, Waiting, Id
  <2>2. /\ streams'[q] = NoStream
        /\ out'[q] = IF Waiting(q) THEN [out[q] EXCEPT !.end = how] ELSE out[q]
        /\ ~Waiting(q) => abort'[q] = abort[q]
    <3>1. abort[q] \in BOOLEAN /\ abort'[q] = (abort[q] \/ Waiting(q))
      BY IInvParts DEF EndLoop, TypeOK
    <3>2. ~Waiting(q) => abort'[q] = abort[q]
      BY <3>1, Zenon
    <3> QED
      BY <3>2 DEF EndLoop
  <2> QED
    BY <1>1, <2>1, <2>2, StreamClosed
<1> QED
  BY <1>2, <1>3 DEF IInv

\* The driver's steps that move no request, and the end of the bridge task.
LEMMA PlainDuty ==
    ASSUME IInv, TypeOK',
           \/ Drained \/ StepReturns \/ Panic \/ DropExitGuard \/ DropReceiver \/ DriverReturns
           \/ DropHandle \/ UNCHANGED vars \/ \E r \in Id : LoseTrack(r)
    PROVE  IInv'
<1> USE DEF front, engine
<1>1. /\ UNCHANGED <<nextId, submissions, abort, accounts, statement, deferred, steps, lost, names,
                     streams, owner, out>>
      /\ bridge' = bridge \/ (bridge = "draining" /\ bridge' = "down")
  BY DEF Drained, StepReturns, Panic, DropExitGuard, DropReceiver, DriverReturns, DropHandle,
         LoseTrack, vars
<1>2. driver' = driver \/ driver' \in {"step", "commit", "commitErr", "unwinding", "sweeping"}
      \/ (driver \in {"closing", "discarding"} /\ driver' \in {"discarding", "gone"})
  BY DEF Drained, StepReturns, Panic, DropExitGuard, DropReceiver, DriverReturns, DropHandle,
         LoseTrack, vars
<1>3. driver' # driver => driver \notin {"closing", "discarding", "gone"}
                          \/ driver' \in {"discarding", "gone"}
  BY DEF Drained, StepReturns, Panic, DropExitGuard, DropReceiver, DriverReturns, DropHandle,
         LoseTrack, vars
<1>4. Phases'
  BY <1>1, <1>2, <1>3, IInvParts DEF Phases
<1>5. ChannelOrdered' /\ \A q \in Id : Duties(q)'
  BY <1>1, FrameAll
<1> QED
  BY <1>4, <1>5 DEF IInv

\* Every step keeps the invariant.
LEMMA StepInv == IInv /\ NamesDrawn /\ [Next]_vars => IInv'
<1> SUFFICES ASSUME IInv, NamesDrawn, [Next]_vars PROVE IInv'
  OBVIOUS
<1>1. TypeOK'
  BY StepTypes, IInvParts
<1>2. ASSUME NEW r \in Id,
             \/ Admit(r) \/ Reject(r) \/ PushTokens(r) \/ SetFacts(r)
             \/ \E e \in Extras \cap {"good", "bad"} : EchoPrompt(r, e)
             \/ Finish(r) \/ Fail(r) \/ Retire(r) \/ DeferFinish(r)
      PROVE  IInv'
  BY <1>1, <1>2, LedgerDuty
<1>3. ASSUME NEW r \in Id, SendDeferred(r) \/ DropDeferred(r)
      PROVE  IInv'
  BY <1>1, <1>3, SendDeferredDuty
<1>4. ASSUME NEW n \in Name, Add(n) \/ Abort(n)
      PROVE  IInv'
  BY <1>1, <1>4, AddDuty, AbortDuty
<1>5. CASE Register \/ Commit \/ FailAll \/ DropLedger \/ DropEnvelope \/ DispatchStep
  BY <1>1, <1>5, RegisterDuty, CommitDuty, WriteOffDuty, DropEnvelopeDuty, DispatchDuty
<1>6. CASE Shutdown \/ LinkFails \/ SchedulerExited
  BY <1>1, <1>6, EndLoopDuty DEF Shutdown, LinkFails, SchedulerExited
<1>7. CASE \/ Drained \/ StepReturns \/ Panic \/ DropExitGuard \/ DropReceiver \/ DriverReturns
           \/ DropHandle \/ UNCHANGED vars \/ \E r \in Id : LoseTrack(r)
  BY <1>1, <1>7, PlainDuty
<1> QED
  BY <1>2, <1>3, <1>4, <1>5, <1>6, <1>7 DEF Next, Stopped

\* The invariant holds at the start.
LEMMA InitInv == Init => IInv /\ NamesDrawn
<1> SUFFICES ASSUME Init PROVE IInv /\ NamesDrawn
  OBVIOUS
<1>1. TypeOK
  BY InitTypes
<1>2. Len(submissions) = 0 /\ Len(steps) = 0
  BY DEF Init
<1>3. ChannelOrdered /\ Phases /\ NamesDrawn
  BY <1>2 DEF Init, ChannelOrdered, Phases, NamesDrawn, NoId
<1>4. ASSUME NEW r \in Id
      PROVE  Duties(r)
  <2>1. /\ accounts[r] = NoAccount /\ statement[r] = Empty /\ deferred[r] = Empty
        /\ out[r] = Silent /\ streams[r] = NoStream /\ ~abort[r]
    BY DEF Init, NoUpdates
  <2>2. Unknown(r)
    BY <1>2, <2>1 DEF Unknown, Quiet, Silent, NoStream, Terminals
  <2>3. Undrawn(r) /\ Streaming(r)
    BY <2>1, <2>2 DEF Undrawn, Streaming, Waiting
  <2>4. AccountDuty(r) /\ StatementDuty(r) /\ DeferredDuty(r) /\ StepDuty(r) /\ ClientDuty(r)
    BY <1>2, <2>1 DEF AccountDuty, StatementDuty, DeferredDuty, StepDuty, ClientDuty, Empty,
                      NoAccount, Silent, Terminals
  <2> QED
    BY <2>2, <2>3, <2>4 DEF Duties
<1> QED
  BY <1>1, <1>3, <1>4 DEF IInv

\* Every behaviour keeps the duties in their places.
THEOREM Dutiful == Spec => [](IInv /\ NamesDrawn)
<1>1. IInv /\ NamesDrawn /\ [Next]_vars => IInv' /\ NamesDrawn'
  BY StepInv, NamesStep, IInvParts
<1> QED
  BY <1>1, InitInv, PTL DEF Spec

-----------------------------------------------------------------------------
(* One answer, and nothing after it.                                       *)

\* A set within a singleton has at most one element.
LEMMA AtMostOne ==
    ASSUME NEW S, NEW x, S \subseteq {x}
    PROVE  Cardinality(S) <= 1
<1>1. S = {} \/ S = {x}
  OBVIOUS
<1>2. Cardinality({}) = 0 /\ Cardinality({x}) = 1
  BY FS_EmptySet, FS_Singleton
<1> QED
  BY <1>1, <1>2

\* The places are exclusive: with the duty in one, no other carries it.
LEMMA OneCarrier ==
    ASSUME IInv, NEW r \in Id
    PROVE  \E x : Carriers(r) \subseteq {x}
<1>0. Duties(r) /\ submissions \in Seq(Id)
  BY IInvParts DEF TypeOK
<1>1. /\ DOMAIN submissions = 1..Len(submissions) /\ DOMAIN steps = 1..Len(steps)
      /\ \A i \in 1..Len(submissions) : submissions[i] \in Id
      /\ Len(submissions) \in Nat /\ Len(steps) \in Nat
  BY <1>0, LenProperties, ElementOfSeq, IInvParts
<1> DEFINE E == {<<"envelope", i>> : i \in {j \in DOMAIN submissions : submissions[j] = r}}
           S == {<<"step", i>> : i \in {j \in DOMAIN steps : steps[j][r].term # "none"}}
<1>2. Carriers(r) = E \cup S \cup Place("account", IsOpen(r))
                      \cup Place("statement", statement[r].term # "none")
                      \cup Place("deferred", deferred[r] # Empty)
                      \cup Place("client", out[r].end \in Terminals)
  BY DEF Carriers
<1>3. Enveloped(r) <=> E # {}
  BY <1>1 DEF Enveloped
<1>4. NoTerminal(r) <=> S = {}
  BY <1>1 DEF NoTerminal
<1>5. Enveloped(r) => \E x : E \subseteq {x}
  <2>1. ASSUME NEW i \in 1..Len(submissions), NEW j \in 1..Len(submissions),
               submissions[i] = r, submissions[j] = r
        PROVE  i = j
    <3>1. ~(i < j) /\ ~(j < i)
      BY <1>1, <2>1, IInvParts DEF ChannelOrdered, Id
    <3> QED
      BY <3>1
  <2> QED
    BY <1>1, <2>1 DEF Enveloped
<1>6. ~NoTerminal(r) => \E x : S \subseteq {x}
  <2>1. ASSUME NEW i \in 1..Len(steps), NEW j \in 1..Len(steps),
               steps[i][r].term # "none", steps[j][r].term # "none"
        PROVE  i = j
    <3>1. ~(i < j) /\ ~(j < i)
      BY <1>0, <2>1, EmptyFacts DEF Duties, StepDuty
    <3> QED
      BY <3>1
  <2> QED
    BY <1>1, <2>1 DEF NoTerminal
<1>7. \A c \in BOOLEAN : \A n : (c => Place(n, c) \subseteq {<<n, 0>>}) /\ (~c => Place(n, c) = {})
  BY DEF Place
<1> HIDE DEF E, S
<1>8. CASE Enveloped(r)
  <2>1. ~IsOpen(r) /\ statement[r].term = "none" /\ deferred[r] = Empty /\ NoTerminal(r)
        /\ out[r].end \notin Terminals
    BY <1>0, <1>8, EmptyFacts DEF Duties, Unknown, Quiet, NoTerminal, IsOpen, NoAccount
  <2>2. Carriers(r) = E
    BY <1>2, <1>4, <2>1 DEF Place
  <2> QED
    BY <1>5, <1>8, <2>2
<1>9. CASE ~Enveloped(r) /\ ~NoTerminal(r)
  <2>1. ~IsOpen(r) /\ statement[r].term = "none" /\ deferred[r] = Empty
        /\ out[r].end \notin Terminals
    BY <1>0, <1>9, EmptyFacts DEF Duties, StepDuty, NoTerminal, IsOpen
  <2>2. Carriers(r) = S
    BY <1>2, <1>3, <1>9, <2>1 DEF Place
  <2> QED
    BY <1>6, <1>9, <2>2
<1>10. CASE ~Enveloped(r) /\ NoTerminal(r)
  <2>1. Carriers(r) = Place("account", IsOpen(r))
                      \cup Place("statement", statement[r].term # "none")
                      \cup Place("deferred", deferred[r] # Empty)
                      \cup Place("client", out[r].end \in Terminals)
    BY <1>2, <1>3, <1>4, <1>10
  <2>2. IsOpen(r) => /\ statement[r].term = "none" /\ deferred[r] = Empty
                     /\ out[r].end \notin Terminals
    BY <1>0, EmptyFacts DEF Duties, AccountDuty, IsOpen, Quiet
  <2>3. statement[r].term # "none" => deferred[r] = Empty /\ out[r].end \notin Terminals
    BY <1>0 DEF Duties, StatementDuty
  <2>4. deferred[r] # Empty => out[r].end \notin Terminals
    BY <1>0 DEF Duties, DeferredDuty
  <2>5. CASE IsOpen(r)
    <3>1. Carriers(r) \subseteq {<<"account", 0>>}
      BY <2>1, <2>2, <2>5 DEF Place
    <3> QED
      BY <3>1
  <2>6. CASE ~IsOpen(r) /\ statement[r].term # "none"
    <3>1. Carriers(r) \subseteq {<<"statement", 0>>}
      BY <2>1, <2>3, <2>6 DEF Place
    <3> QED
      BY <3>1
  <2>7. CASE ~IsOpen(r) /\ statement[r].term = "none" /\ deferred[r] # Empty
    <3>1. Carriers(r) \subseteq {<<"deferred", 0>>}
      BY <2>1, <2>4, <2>7 DEF Place
    <3> QED
      BY <3>1
  <2>8. CASE ~IsOpen(r) /\ statement[r].term = "none" /\ deferred[r] = Empty
    <3>1. Carriers(r) \subseteq {<<"client", 0>>}
      BY <2>1, <2>8 DEF Place
    <3> QED
      BY <3>1
  <2> QED
    BY <2>5, <2>6, <2>7, <2>8
<1> QED
  BY <1>8, <1>9, <1>10

\* The invariant implies the property.
LEMMA InvOneAnswer == IInv => OneAnswer
<1> SUFFICES ASSUME IInv, NEW r \in Id
             PROVE  /\ Cardinality(Carriers(r)) <= 1
                    /\ \A i \in DOMAIN steps : steps[i][r].term # "none" =>
                          /\ statement[r] = Empty /\ deferred[r] = Empty
                          /\ \A j \in DOMAIN steps : j > i => steps[j][r] = Empty
  BY DEF OneAnswer
<1>1. Cardinality(Carriers(r)) <= 1
  <2>1. PICK x : Carriers(r) \subseteq {x}
    BY OneCarrier
  <2> QED
    BY <2>1, AtMostOne
<1>2. DOMAIN steps = 1..Len(steps) /\ StepDuty(r)
  BY IInvParts, LenProperties DEF Duties
<1> QED
  BY <1>1, <1>2 DEF StepDuty

\* For every number of requests and steps: the answer a request is owed is in
\* one place at a time, across every hand-over between the driver thread, the
\* threads of deferred finishes and the bridge task, and a terminal on the step
\* stream is the last thing said about its request.
THEOREM OneAnswerHolds == Spec => []OneAnswer
BY Dutiful, InvOneAnswer, PTL

\* No step changes what a client has been sent once its stream has ended: a
\* stream that still takes updates belongs to a client that has no end yet.
LEMMA EndStep == IInv /\ [Next]_vars => \A r \in Id : out[r].end # "no" => out'[r] = out[r]
<1> SUFFICES ASSUME IInv, [Next]_vars, NEW r \in Id, out[r].end # "no"
             PROVE  out'[r] = out[r]
  OBVIOUS
<1> USE DEF front, engine
<1>1. ~Waiting(r) /\ out \in [Id -> Outcome]
  BY IInvParts DEF Duties, Streaming, TypeOK, Outcome
<1>2. CASE UNCHANGED out
  BY <1>2
<1>3. CASE DispatchStep
  BY <1>1, <1>3, DispatchView
<1>4. ASSUME NEW how, EndLoop(how)
      PROVE  out'[r] = out[r]
  BY <1>1, <1>4 DEF EndLoop
<1>5. ASSUME NEW q \in Id,
             \/ Admit(q) \/ Reject(q) \/ PushTokens(q) \/ SetFacts(q)
             \/ \E e \in Extras \cap {"good", "bad"} : EchoPrompt(q, e)
             \/ Finish(q) \/ Fail(q) \/ Retire(q) \/ DeferFinish(q) \/ LoseTrack(q)
             \/ SendDeferred(q) \/ DropDeferred(q)
      PROVE  UNCHANGED out
  BY <1>5 DEF Admit, Reject, PushTokens, SetFacts, EchoPrompt, Finish, Fail, Retire,
              DeferFinish, Touch, LoseTrack, SendDeferred, DropDeferred
<1>6. ASSUME NEW n \in Name, Add(n) \/ Abort(n)
      PROVE  UNCHANGED out
  BY <1>6 DEF Add, Abort
<1>7. CASE \/ Register \/ Drained \/ StepReturns \/ Commit \/ FailAll \/ Panic
           \/ DropExitGuard \/ DropLedger \/ DropReceiver \/ DropEnvelope \/ DriverReturns
           \/ DropHandle \/ UNCHANGED vars
  BY <1>2, <1>7 DEF Register, Drained, StepReturns, Commit, FailAll, Panic, DropExitGuard,
                    DropLedger, DropReceiver, DropEnvelope, DriverReturns, DropHandle, vars
<1> QED
  BY <1>2, <1>3, <1>4, <1>5, <1>6, <1>7 DEF Next, Shutdown, LinkFails, SchedulerExited, Stopped

\* For every instance: nothing reaches a client after its stream has ended, be
\* it by a terminal, an error of the bridge or the end of the engine.
THEOREM NothingAfterTheEndHolds == Spec => NothingAfterTheEnd
<1>1. IInv /\ [Next]_vars => [\A r \in Id : out[r].end # "no" => out'[r] = out[r]]_vars
  BY EndStep
<1> QED
  BY <1>1, Dutiful, PTL DEF Spec, NothingAfterTheEnd

-----------------------------------------------------------------------------
(* A waiting client is owed an answer.                                     *)

Sent(r) == \E i \in 1..Len(steps) : steps[i][r].term # "none"
\* Somebody still has to answer, or the answer was lost in a panic.
Owed(r) ==
    \/ Enveloped(r) \/ IsOpen(r) \/ statement[r].term # "none" \/ deferred[r] # Empty
    \/ Sent(r) \/ r \in lost
Remembered(r) == Waiting(r) => Owed(r)

\* What is on the step stream stays there when more is sent.
LEMMA SentStays ==
    ASSUME IInv, bridge = "up", NEW m \in [Id -> Update], steps' = After(<<m>>), NEW q \in Id
    PROVE  (Sent(q) \/ m[q].term # "none") => Sent(q)'
<1>1. /\ Len(steps) \in Nat /\ Len(steps') = Len(steps) + 1
      /\ \A i \in 1..Len(steps) : i \in 1..Len(steps') /\ steps'[i] = steps[i]
      /\ Len(steps) + 1 \in 1..Len(steps') /\ steps'[Len(steps) + 1] = m
  BY SendFacts, IInvParts
<1> QED
  BY <1>1 DEF Sent

\* The driver's hand-overs: register, commit, write-off, drop of an envelope.
LEMMA DriverRemembers ==
    ASSUME IInv, NEW q \in Id, Remembered(q),
           Register \/ Commit \/ FailAll \/ DropLedger \/ DropEnvelope
    PROVE  Remembered(q)'
<1> USE DEF front, engine
<1> SUFFICES ASSUME Waiting(q)' PROVE Owed(q)'
  BY DEF Remembered
<1>1. UNCHANGED <<streams, bridge, deferred>>
  BY DEF Register, Commit, FailAll, DropLedger, DropEnvelope
<1>2. Waiting(q) /\ bridge = "up" /\ Owed(q)
  BY <1>1, IInvParts DEF Waiting, Remembered, Duties, Streaming
<1>3. TypeOK /\ accounts[q] \in Account /\ statement \in [Id -> Update]
  BY IInvParts DEF TypeOK, Account
<1>4. submissions # <<>> /\ submissions' = Tail(submissions) /\ q # Head(submissions)
        /\ Enveloped(q) => Enveloped(q)'
  <2> SUFFICES ASSUME submissions # <<>>, submissions' = Tail(submissions),
                      q # Head(submissions), Enveloped(q)
               PROVE  Enveloped(q)'
    OBVIOUS
  <2>1. /\ Head(submissions) = submissions[1] /\ Len(submissions) \in Nat
        /\ Len(submissions') = Len(submissions) - 1
        /\ \A i \in 1..Len(submissions') : submissions'[i] = submissions[i + 1]
    BY <1>3, HeadTailProperties, LenProperties DEF TypeOK
  <2>2. PICK i \in 1..Len(submissions) : submissions[i] = q
    BY DEF Enveloped
  <2>3. i # 1 /\ i - 1 \in 1..Len(submissions') /\ submissions'[i - 1] = q
    BY <2>1, <2>2
  <2> QED
    BY <2>3 DEF Enveloped
<1>5. CASE Register
  <2>1. /\ submissions # <<>> /\ submissions' = Tail(submissions)
        /\ accounts' = [accounts EXCEPT ![Head(submissions)] = Queued]
        /\ UNCHANGED <<statement, steps, lost>> /\ Head(submissions) \in Id
    BY <1>3, <1>5, HeadTailProperties DEF Register, TypeOK
  <2>2. CASE q = Head(submissions)
    <3>1. accounts'[q].state = "queued"
      BY <1>3, <2>1, <2>2 DEF TypeOK, Queued
    <3> QED
      BY <3>1 DEF Owed, IsOpen
  <2>3. CASE q # Head(submissions)
    <3>1. accounts'[q] = accounts[q]
      BY <1>3, <2>1, <2>3 DEF TypeOK
    <3> QED
      BY <1>1, <1>2, <1>4, <2>1, <2>3, <3>1 DEF Owed, IsOpen, Sent
  <2> QED
    BY <2>2, <2>3
<1>6. CASE Commit
  <2>1. UNCHANGED <<submissions, accounts, lost>>
        /\ (steps' = After(<<statement>>) \/ (statement = NoUpdates /\ steps' = steps))
    BY <1>6 DEF Commit, CommitStep, Send
  <2>2. (Sent(q) \/ statement[q].term # "none") => Sent(q)'
    <3>1. CASE steps' = After(<<statement>>)
      BY <1>2, <1>3, <3>1, SentStays
    <3>2. CASE statement = NoUpdates /\ steps' = steps
      <4>1. statement[q].term = "none"
        BY <3>2, EmptyFacts DEF NoUpdates
      <4> QED
        BY <3>2, <4>1 DEF Sent
    <3> QED
      BY <2>1, <3>1, <3>2
  <2> QED
    BY <1>1, <1>2, <2>1, <2>2 DEF Owed, Enveloped, IsOpen
<1>7. CASE FailAll \/ DropLedger
  <2>1. /\ UNCHANGED submissions
        /\ WrittenOff \in [Id -> Update]
        /\ steps' = After(<<WrittenOff>>) \/ (steps' = steps /\ WrittenOff = NoUpdates)
        /\ statement[q].term # "none" => q \in lost'
        /\ q \in lost => q \in lost'
    <3>1. CASE FailAll
      <4>1. statement[q] = Empty
        BY <3>1, IInvParts DEF FailAll, Phases, NoUpdates
      <4> QED
        BY <1>3, <3>1, <4>1, WrittenOffTypes, EmptyFacts DEF FailAll
    <3>2. CASE DropLedger
      <4>1. lost = {}
        BY <3>2, IInvParts DEF DropLedger, Phases
      <4> QED
        BY <1>3, <3>2, <4>1, WrittenOffTypes DEF DropLedger
    <3> QED
      BY <1>7, <3>1, <3>2
  <2>2. (Sent(q) \/ IsOpen(q)) => Sent(q)'
    <3>1. IsOpen(q) => WrittenOff[q].term = "failed"
      BY DEF WrittenOff, Failed, Empty
    <3>2. WrittenOff = NoUpdates => WrittenOff[q].term = "none"
      BY EmptyFacts DEF NoUpdates
    <3>3. CASE steps' = After(<<WrittenOff>>)
      BY <1>2, <2>1, <3>1, <3>3, SentStays
    <3>4. CASE steps' = steps /\ WrittenOff = NoUpdates
      BY <3>1, <3>2, <3>4 DEF Sent
    <3> QED
      BY <2>1, <3>3, <3>4
  <2> QED
    BY <1>1, <1>2, <2>1, <2>2 DEF Owed, Enveloped
<1>8. CASE DropEnvelope
  <2>1. /\ submissions # <<>> /\ submissions' = Tail(submissions)
        /\ steps' = After(<<Solo(Head(submissions), Failed(0))>>)
        /\ UNCHANGED <<accounts, statement, lost>> /\ Head(submissions) \in Id
    BY <1>3, <1>8, HeadTailProperties DEF DropEnvelope, Send, TypeOK
  <2>2. /\ Solo(Head(submissions), Failed(0)) \in [Id -> Update]
        /\ Solo(Head(submissions), Failed(0))[Head(submissions)].term # "none"
    BY <2>1, SoloFacts, FailedFacts
  <2>3. (Sent(q) \/ q = Head(submissions)) => Sent(q)'
    BY <1>2, <2>1, <2>2, SentStays
  <2> QED
    BY <1>1, <1>2, <1>4, <2>1, <2>3 DEF Owed, IsOpen
<1> QED
  BY <1>5, <1>6, <1>7, <1>8

\* The ledger calls and the deferred finishes hand the duty on.
LEMMA LedgerRemembers ==
    ASSUME IInv, NEW q \in Id, Remembered(q), NEW r \in Id,
           \/ Admit(r) \/ Reject(r) \/ PushTokens(r) \/ SetFacts(r)
           \/ \E e \in Extras \cap {"good", "bad"} : EchoPrompt(r, e)
           \/ Finish(r) \/ Fail(r) \/ Retire(r) \/ DeferFinish(r)
           \/ SendDeferred(r) \/ DropDeferred(r)
    PROVE  Remembered(q)'
<1> USE DEF front, engine
<1> SUFFICES ASSUME Waiting(q)' PROVE Owed(q)'
  BY DEF Remembered
<1>1. UNCHANGED <<streams, bridge, submissions, abort, lost>>
  BY DEF Admit, Reject, PushTokens, SetFacts, EchoPrompt, Finish, Fail, Retire, DeferFinish,
         SendDeferred, DropDeferred, Touch
<1>2. Waiting(q) /\ bridge = "up" /\ Owed(q) /\ ~abort[q]
  BY <1>1, IInvParts DEF Waiting, Remembered, Duties, Streaming
<1>3. TypeOK /\ accounts[r] \in Account /\ statement[r] \in Update /\ deferred[r] \in Update
  BY IInvParts DEF TypeOK, Account
<1>4. Enveloped(q) => Enveloped(q)'
  BY <1>1 DEF Enveloped
<1>5. CASE \/ Admit(r) \/ Reject(r) \/ PushTokens(r) \/ SetFacts(r)
           \/ \E e \in Extras \cap {"good", "bad"} : EchoPrompt(r, e)
           \/ Finish(r) \/ Fail(r) \/ Retire(r) \/ DeferFinish(r)
  <2>1. PICK a, u, d : /\ accounts' = [accounts EXCEPT ![r] = a]
                       /\ statement' = [statement EXCEPT ![r] = u]
                       /\ deferred' = [deferred EXCEPT ![r] = d] /\ steps' = steps
                       /\ \/ a.state = "active" \/ u.term # "none"
                          \/ d # Empty \/ abort[r]
    <3>0. deferred = [deferred EXCEPT ![r] = deferred[r]]
      BY <1>3 DEF TypeOK
    <3>1. CASE Retire(r)
      BY <3>0, <3>1 DEF Retire, Touch
    <3>2. \A t \in Terminals, b \in BOOLEAN : Answer(r, t, b).term = t
      BY <1>3 DEF Answer, Update
    <3>3. CASE DeferFinish(r)
      <4>0. PICK bare \in BOOLEAN : deferred' = [deferred EXCEPT ![r] = Answer(r, "finished", bare)]
        BY <3>3 DEF DeferFinish, Bare
      <4>1. Answer(r, "finished", bare) # Empty
        BY <3>2, EmptyFacts DEF Terminals
      <4>2. /\ accounts' = [accounts EXCEPT ![r] = Closed(r)]
            /\ statement' = [statement EXCEPT ![r] = Empty]
            /\ deferred' = [deferred EXCEPT ![r] = Answer(r, "finished", bare)] /\ steps' = steps
        BY <3>3, <4>0 DEF DeferFinish, Touch
      <4> WITNESS Closed(r), Empty, Answer(r, "finished", bare)
      <4> QED
        BY <4>1, <4>2
    <3>4. CASE Finish(r) \/ Fail(r)
      <4>1. PICK t \in Terminals, bare \in BOOLEAN : Touch(r, Closed(r), Answer(r, t, bare))
        BY <3>4 DEF Finish, Fail, Bare, Terminals
      <4>2. PICK u : u = Answer(r, t, bare)
        OBVIOUS
      <4>3. u.term # "none" /\ deferred' = [deferred EXCEPT ![r] = deferred[r]]
        BY <3>0, <3>2, <3>4, <4>2 DEF Finish, Fail, Terminals
      <4>4. /\ accounts' = [accounts EXCEPT ![r] = Closed(r)]
            /\ statement' = [statement EXCEPT ![r] = u] /\ steps' = steps
        BY <4>1, <4>2 DEF Touch
      <4> QED
        BY <4>3, <4>4
    <3>5. CASE Reject(r)
      <4>1. [statement[r] EXCEPT !.term = "rejected"].term = "rejected"
        BY <1>3 DEF Update
      <4> QED
        BY <3>0, <3>5, <4>1 DEF Reject, Touch
    <3>6. CASE Admit(r)
      <4>1. [accounts[r] EXCEPT !.state = "active"].state = "active"
        BY <1>3 DEF Account
      <4> QED
        BY <3>0, <3>6, <4>1 DEF Admit, Touch
    <3>7. CASE PushTokens(r)
      <4>1. [accounts[r] EXCEPT !.tally = accounts[r].tally + 1].state = "active"
        BY <1>3, <3>7 DEF Account, PushTokens, Active
      <4> QED
        BY <3>0, <3>7, <4>1 DEF PushTokens, Touch
    <3>8. CASE SetFacts(r)
      <4>1. [accounts[r] EXCEPT !.noted = TRUE].state = "active"
        BY <1>3, <3>8 DEF Account, SetFacts, Active
      <4> QED
        BY <3>0, <3>8, <4>1 DEF SetFacts, Touch
    <3>9. ASSUME NEW e \in Extras \cap {"good", "bad"}, EchoPrompt(r, e)
          PROVE  \E a, u, d : /\ accounts' = [accounts EXCEPT ![r] = a]
                              /\ statement' = [statement EXCEPT ![r] = u]
                              /\ deferred' = [deferred EXCEPT ![r] = d] /\ steps' = steps
                              /\ \/ a.state = "active" \/ u.term # "none"
                                 \/ d # Empty \/ abort[r]
      <4>1. [accounts[r] EXCEPT !.echoed = TRUE].state = "active"
        BY <1>3, <3>9 DEF Account, EchoPrompt, Active
      <4> QED
        BY <3>0, <3>9, <4>1 DEF EchoPrompt, Touch
    <3> QED
      BY <1>5, <3>1, <3>3, <3>4, <3>5, <3>6, <3>7, <3>8, <3>9
  <2>2. CASE q = r
    <3>1. accounts'[q] = a /\ statement'[q] = u /\ deferred'[q] = d
      BY <1>3, <2>1, <2>2 DEF TypeOK
    <3> QED
      BY <1>2, <2>1, <2>2, <3>1 DEF Owed, IsOpen
  <2>3. CASE q # r
    <3>1. accounts'[q] = accounts[q] /\ statement'[q] = statement[q] /\ deferred'[q] = deferred[q]
      BY <1>3, <2>1, <2>3 DEF TypeOK
    <3> QED
      BY <1>1, <1>2, <1>4, <2>1, <3>1 DEF Owed, IsOpen, Sent
  <2> QED
    BY <2>2, <2>3
<1>6. CASE SendDeferred(r) \/ DropDeferred(r)
  <2>1. deferred[r].term = "finished"
    BY <1>6, IInvParts DEF SendDeferred, DropDeferred, Duties, DeferredDuty
  <2>2. PICK u \in Update : /\ deferred' = [deferred EXCEPT ![r] = Empty]
                            /\ steps' = After(<<Solo(r, u)>>) /\ u.term # "none"
    <3>1. [deferred[r] EXCEPT !.term = "failed"] \in Update
          /\ [deferred[r] EXCEPT !.term = "failed"].term = "failed"
      BY <1>3 DEF Update, Terminals
    <3> QED
      BY <1>3, <1>6, <2>1, <3>1 DEF SendDeferred, DropDeferred, Send
  <2>3. Solo(r, u) \in [Id -> Update] /\ Solo(r, u)[r] = u
    BY SoloFacts
  <2>4. (Sent(q) \/ q = r) => Sent(q)'
    BY <1>2, <2>2, <2>3, SentStays
  <2>5. q # r => deferred'[q] = deferred[q]
    BY <1>3, <2>2 DEF TypeOK
  <2>6. UNCHANGED <<accounts, statement>>
    BY <1>6 DEF SendDeferred, DropDeferred
  <2> QED
    BY <1>1, <1>2, <1>4, <2>4, <2>5, <2>6 DEF Owed, IsOpen
<1> QED
  BY <1>5, <1>6

\* The bridge forgets a request only with its stream.
LEMMA BridgeRemembers ==
    ASSUME IInv, NEW q \in Id, Remembered(q),
           \/ \E n \in Name : Add(n) \/ Abort(n)
           \/ DispatchStep \/ \E how \in {"dead", "shutdown"} : EndLoop(how)
    PROVE  Remembered(q)'
<1> USE DEF front, engine
<1> SUFFICES ASSUME Waiting(q)' PROVE Owed(q)'
  BY DEF Remembered
<1>0. TypeOK /\ UNCHANGED <<accounts, statement, deferred, lost>>
  BY IInvParts DEF Add, Abort, DispatchStep, EndLoop
<1>1. ASSUME NEW n \in Name, Add(n)
      PROVE  Owed(q)'
  <2>0. PICK r : r = nextId + 1
    OBVIOUS
  <2>1. /\ bridge = "up" /\ nextId < MaxRequests
        /\ streams' = [streams EXCEPT ![r] = NewStream(n)]
        /\ \/ submissions' = submissions /\ steps' = After(<<Solo(r, Failed(0))>>)
           \/ submissions' = Append(submissions, r) /\ steps' = steps
    BY <1>1, <2>0 DEF Add
  <2>2. r \in Id /\ Solo(r, Failed(0)) \in [Id -> Update] /\ Solo(r, Failed(0))[r].term # "none"
    <3>1. r \in Id
      BY <2>0, <2>1, IInvParts, ContractAssumption DEF Id
    <3> QED
      BY <3>1, SoloFacts, FailedFacts
  <2>3. submissions' = submissions
        \/ /\ Len(submissions) \in Nat /\ Len(submissions') = Len(submissions) + 1
           /\ submissions'[Len(submissions) + 1] = r
           /\ \A i \in 1..Len(submissions) : submissions'[i] = submissions[i]
    <3>1. submissions \in Seq(Id) /\ Len(submissions) \in Nat
      BY <1>0, LenProperties DEF TypeOK
    <3> QED
      BY <2>1, <2>2, <3>1, AppendProperties
  <2>4. Enveloped(q) => Enveloped(q)'
    BY <2>3 DEF Enveloped
  <2>5. Sent(q) => Sent(q)'
    <3>1. CASE steps' = steps
      BY <3>1 DEF Sent
    <3> QED
      BY <2>1, <2>2, <3>1, SentStays
  <2>6. CASE q = r
    <3>1. CASE steps' = After(<<Solo(r, Failed(0))>>)
      BY <2>1, <2>2, <2>6, <3>1, SentStays DEF Owed
    <3>2. CASE submissions' = Append(submissions, r)
      <4>1. Len(submissions') \in 1..Len(submissions') /\ submissions'[Len(submissions')] = r
        BY <1>0, <2>2, <3>2, AppendProperties, LenProperties DEF TypeOK
      <4> QED
        BY <2>6, <4>1 DEF Owed, Enveloped
    <3> QED
      BY <2>1, <3>1, <3>2
  <2>7. CASE q # r
    <3>1. streams'[q] = streams[q]
      BY <1>0, <2>1, <2>7 DEF TypeOK
    <3>2. Owed(q)
      BY <3>1 DEF Waiting, Remembered
    <3> QED
      BY <1>0, <2>4, <2>5, <3>2 DEF Owed, IsOpen
  <2> QED
    BY <2>6, <2>7
<1>2. ASSUME NEW n \in Name, Abort(n)
      PROVE  Owed(q)'
  <2>1. UNCHANGED <<submissions, steps>> /\ streams' = [streams EXCEPT ![names[n]] = NoStream]
    BY <1>2 DEF Abort
  <2>2. streams'[q] = streams[q] \/ streams'[q] = NoStream
    BY <1>0, <2>1 DEF TypeOK
  <2>3. Owed(q)
    BY <2>2 DEF Waiting, Remembered
  <2> QED
    BY <1>0, <2>1, <2>3 DEF Owed, IsOpen, Enveloped, Sent
<1>3. CASE DispatchStep
  <2>0. PICK m : m = Head(steps)
    OBVIOUS
  <2>1. Waiting(q)
    BY <1>3, <2>0, DispatchView DEF Waiting
  <2>2. ~Terminated(m[q])
    BY <1>3, <2>0, <2>1, DispatchView DEF Waiting
  <2>3. Sent(q) => Sent(q)'
    <3>1. m = steps[1] /\ Len(steps) \in Nat /\ Len(steps') = Len(steps) - 1
          /\ \A i \in 1..Len(steps') : steps'[i] = steps[i + 1]
      BY <1>3, <2>0, DispatchView
    <3>2. ASSUME NEW i \in 1..Len(steps), steps[i][q].term # "none"
          PROVE  i - 1 \in 1..Len(steps') /\ steps'[i - 1][q].term # "none"
      <4>1. i # 1
        BY <2>2, <3>1, <3>2 DEF Terminated
      <4> QED
        BY <3>1, <3>2, <4>1
    <3> QED
      BY <3>2 DEF Sent
  <2>4. submissions' = submissions
    BY <1>3 DEF DispatchStep
  <2> QED
    BY <1>0, <2>1, <2>3, <2>4 DEF Remembered, Owed, IsOpen, Enveloped
<1>4. ASSUME NEW how \in {"dead", "shutdown"}, EndLoop(how)
      PROVE  Owed(q)'
  BY <1>4 DEF EndLoop, Waiting
<1> QED
  BY <1>1, <1>2, <1>3, <1>4

\* Every step keeps the memory.
LEMMA RememberStep ==
    IInv /\ (\A q \in Id : Remembered(q)) /\ [Next]_vars => (\A q \in Id : Remembered(q))'
<1> SUFFICES ASSUME IInv, \A q \in Id : Remembered(q), [Next]_vars, NEW q \in Id
             PROVE  Remembered(q)'
  OBVIOUS
<1>1. CASE \/ Drained \/ StepReturns \/ Panic \/ DropExitGuard \/ DropReceiver \/ DriverReturns
           \/ DropHandle \/ UNCHANGED vars \/ \E r \in Id : LoseTrack(r)
  <2>1. UNCHANGED <<submissions, accounts, statement, deferred, steps, lost, streams>>
    BY <1>1 DEF Drained, StepReturns, Panic, DropExitGuard, DropReceiver, DriverReturns, DropHandle,
                LoseTrack, vars, front, engine
  <2> QED
    BY <2>1 DEF Remembered, Waiting, Owed, Enveloped, IsOpen, Sent
<1>2. ASSUME NEW r \in Id,
             \/ Admit(r) \/ Reject(r) \/ PushTokens(r) \/ SetFacts(r)
             \/ \E e \in Extras \cap {"good", "bad"} : EchoPrompt(r, e)
             \/ Finish(r) \/ Fail(r) \/ Retire(r) \/ DeferFinish(r)
             \/ SendDeferred(r) \/ DropDeferred(r)
      PROVE  Remembered(q)'
  BY <1>2, LedgerRemembers
<1>3. CASE Register \/ Commit \/ FailAll \/ DropLedger \/ DropEnvelope
  BY <1>3, DriverRemembers
<1>4. CASE \/ \E n \in Name : Add(n) \/ Abort(n)
           \/ DispatchStep \/ Shutdown \/ LinkFails \/ SchedulerExited
  BY <1>4, BridgeRemembers DEF Shutdown, LinkFails, SchedulerExited
<1> QED
  BY <1>1, <1>2, <1>3, <1>4 DEF Next, Stopped

\* Owed in the invariant's terms is a carrier in the property's.
LEMMA InvNeverForgotten == IInv /\ (\A q \in Id : Remembered(q)) => NeverForgotten
<1> SUFFICES ASSUME IInv, \A q \in Id : Remembered(q), NEW r \in Id, Waiting(r), r \notin lost
             PROVE  Carriers(r) # {}
  BY DEF NeverForgotten
<1>1. Owed(r) /\ submissions \in Seq(Id)
  BY IInvParts DEF Remembered, TypeOK
<1>2. DOMAIN submissions = 1..Len(submissions) /\ DOMAIN steps = 1..Len(steps)
  BY <1>1, LenProperties, IInvParts
<1>3. CASE Enveloped(r)
  <2>1. PICK i \in 1..Len(submissions) : submissions[i] = r
    BY <1>3 DEF Enveloped
  <2>2. <<"envelope", i>> \in Carriers(r)
    BY <1>2, <2>1 DEF Carriers
  <2> QED
    BY <2>2
<1>4. CASE Sent(r)
  <2>1. PICK i \in 1..Len(steps) : steps[i][r].term # "none"
    BY <1>4 DEF Sent
  <2>2. <<"step", i>> \in Carriers(r)
    BY <1>2, <2>1 DEF Carriers
  <2> QED
    BY <2>2
<1>5. CASE IsOpen(r)
  <2>1. <<"account", 0>> \in Carriers(r)
    BY <1>5 DEF Carriers, Place
  <2> QED
    BY <2>1
<1>6. CASE statement[r].term # "none"
  <2>1. <<"statement", 0>> \in Carriers(r)
    BY <1>6 DEF Carriers, Place
  <2> QED
    BY <2>1
<1>7. CASE deferred[r] # Empty
  <2>1. <<"deferred", 0>> \in Carriers(r)
    BY <1>7 DEF Carriers, Place
  <2> QED
    BY <2>1
<1> QED
  BY <1>1, <1>3, <1>4, <1>5, <1>6, <1>7 DEF Owed

\* For every instance: no client waits for an answer that nobody owes it any
\* more, except one that a panicking step had recorded and not committed.
THEOREM NeverForgottenHolds == Spec => []NeverForgotten
<1>1. Init => \A q \in Id : Remembered(q)
  BY DEF Init, Remembered, Waiting
<1> QED
  BY <1>1, Dutiful, RememberStep, InvNeverForgotten, PTL DEF Spec

-----------------------------------------------------------------------------
(* What is on its way to a waiting client.                                 *)

\* The fields the second invariant reads have their types.
LEMMA FieldTypes ==
    ASSUME TypeOK, NEW q \in Id
    PROVE  /\ accounts[q] \in Account /\ accounts[q].tally \in Nat /\ accounts[q].noted \in BOOLEAN
           /\ statement[q] \in Update /\ statement[q].toks \in Seq(Token)
           /\ deferred[q] \in Update /\ deferred[q].toks \in Seq(Token)
           /\ out[q] \in Outcome /\ out[q].toks \in Seq(Token) /\ Len(out[q].toks) \in Nat
           /\ streams[q] \in StreamState
           /\ Len(statement[q].toks) \in Nat /\ Len(deferred[q].toks) \in Nat
           /\ \A i \in 1..Len(steps) : /\ steps[i][q] \in Update /\ steps[i][q].toks \in Seq(Token)
                                       /\ Len(steps[i][q].toks) \in Nat
<1>1. accounts[q] \in Account /\ out[q] \in Outcome /\ streams[q] \in StreamState
      /\ statement[q] \in Update /\ deferred[q] \in Update
  BY DEF TypeOK, Account, Outcome, StreamState
<1>2. \A i \in 1..Len(steps) : steps[i][q] \in Update
  <2>1. steps \in Seq([Id -> Update])
    BY DEF TypeOK
  <2> QED
    BY <2>1, ElementOfSeq
<1>3. \A u \in Update : u.toks \in Seq(Token) /\ Len(u.toks) \in Nat
  BY LenProperties DEF Update
<1>4. out[q].toks \in Seq(Token) /\ Len(out[q].toks) \in Nat
  BY <1>1, LenProperties DEF Outcome
<1>5. accounts[q].tally \in Nat /\ accounts[q].noted \in BOOLEAN
  BY <1>1, ContractAssumption DEF Account
<1> QED
  BY <1>1, <1>2, <1>3, <1>4, <1>5

\* Everything about q stays as it is.
LEMMA UnderwayKept ==
    ASSUME NEW q \in Id, Underway(q), steps' = steps,
           accounts'[q] = accounts[q], statement'[q] = statement[q], deferred'[q] = deferred[q],
           streams'[q] = streams[q], out'[q] = out[q]
    PROVE  Underway(q)'
<1>1. Tallied(q)' <=> Tallied(q)
  BY DEF Tallied, IsOpen
<1>2. Chain(q)'
  BY <1>1 DEF Underway, Chain
<1>3. Counted(q)' /\ ScheduledOnce(q)'
  BY DEF Underway, Counted, ScheduledOnce
<1>4. Announced(q)'
  BY DEF Underway, Announced, Active
<1>5. FactsKept(q)'
  BY <1>1 DEF Underway, FactsKept, FactsUnderWay
<1> QED
  BY <1>2, <1>3, <1>4, <1>5 DEF Underway

\* A request about which nothing but its refusal has been said.
Fresh(q) ==
    /\ statement[q] = Empty /\ deferred[q] = Empty
    /\ accounts[q].tally = 0 /\ ~accounts[q].noted /\ accounts[q].state # "active"
    /\ out[q].toks = <<>> /\ out[q].sched = 0 /\ ~out[q].meta
    /\ streams[q].sched = "none" /\ ~streams[q].meta
    /\ \A i \in 1..Len(steps) : /\ steps[i][q].toks = <<>> /\ steps[i][q].term # "finished"
                                /\ ~steps[i][q].sched /\ ~steps[i][q].meta
                                /\ steps[i][q].count = 0

\* Then nothing is missing.
LEMMA FreshUnderway ==
    ASSUME TypeOK, NEW q \in Id, Fresh(q)
    PROVE  Underway(q)
<1>0. Len(steps) \in Nat /\ Len(<<>>) = 0 /\ \A b : Run(<<>>, q, b)
  BY LenProperties DEF TypeOK, Run
<1>1. Chain(q)
  <2> DEFINE z == [i \in 1..(Len(steps) + 1) |-> 0]
  <2>0. z \in [1..(Len(steps) + 1) -> Nat] /\ \A i \in 1..(Len(steps) + 1) : z[i] = 0
    OBVIOUS
  <2>1. \A i \in 1..Len(steps) : z[i] = 0 /\ z[i + 1] = 0
    BY <1>0, <2>0
  <2>2. z[1] = 0 /\ z[Len(steps) + 1] = 0
    BY <1>0, <2>0
  <2> HIDE DEF z
  <2>3. /\ z[1] = Len(out[q].toks)
        /\ \A i \in 1..Len(steps) :
              /\ Run(steps[i][q].toks, q, z[i])
              /\ z[i + 1] = z[i] + Len(steps[i][q].toks)
              /\ steps[i][q].term = "finished" =>
                     z[i + 1] = accounts[q].tally /\ steps[i][q].count = accounts[q].tally
    BY <1>0, <2>1, <2>2 DEF Fresh
  <2>4. /\ Run(statement[q].toks, q, z[Len(steps) + 1])
        /\ Run(deferred[q].toks, q, z[Len(steps) + 1])
        /\ accounts[q].tally = z[Len(steps) + 1] + Len(statement[q].toks) + Len(deferred[q].toks)
    BY <1>0, <2>2, EmptyFacts DEF Fresh
  <2> QED
    BY <2>0, <2>3, <2>4 DEF Chain
<1>2. Counted(q) /\ ScheduledOnce(q) /\ Announced(q)
  BY EmptyFacts DEF Fresh, Counted, ScheduledOnce, Announced, Active, Speaks
<1>3. FactsKept(q)
  BY EmptyFacts DEF Fresh, FactsKept, FactsUnderWay
<1> QED
  BY <1>1, <1>2, <1>3 DEF Underway

\* The step stream grows by m, and what m says of q left the statement, a
\* deferred finish or the account book.
Moves(q, m) ==
    /\ bridge = "up" /\ m \in [Id -> Update] /\ steps' = After(<<m>>)
    /\ streams'[q] = streams[q] /\ out'[q] = out[q]
    /\ accounts'[q].tally = accounts[q].tally /\ accounts'[q].noted = accounts[q].noted
    /\ \/ /\ m[q] = Empty /\ accounts'[q] = accounts[q] /\ deferred'[q] = deferred[q]
          /\ statement'[q] = statement[q]
       \/ /\ accounts'[q].state \notin {"queued", "active"}
          /\ m[q] = Empty \/ \E n \in 0..MaxTokens : m[q] = Failed(n)
          /\ statement'[q] = Empty /\ deferred'[q] = Empty
       \/ /\ m[q] = statement[q] /\ accounts'[q] = accounts[q]
          /\ statement'[q] = Empty /\ deferred'[q] = Empty /\ deferred[q] = Empty
       \/ /\ m[q].toks = deferred[q].toks /\ m[q].sched = deferred[q].sched
          /\ m[q].meta = deferred[q].meta /\ m[q].count = deferred[q].count
          /\ m[q].term # "none" /\ deferred[q] # Empty /\ accounts'[q] = accounts[q]
          /\ accounts[q].state = "closed" /\ statement[q] = Empty
          /\ statement'[q] = Empty /\ deferred'[q] = Empty

\* A failed update carries nothing but its terminal.
LEMMA FailedIs ==
    ASSUME NEW n \in 0..MaxTokens
    PROVE  /\ Failed(n).toks = <<>> /\ ~Failed(n).sched /\ ~Failed(n).meta
           /\ Failed(n).term = "failed" /\ ~Speaks(Failed(n))
BY DEF Failed, Empty, Speaks

\* The chain of tokens survives such a move.
LEMMA MoveChain ==
    ASSUME IInv, NEW q \in Id, NEW m, Moves(q, m), Chain(q), Counted(q)
    PROVE  Chain(q)'
<1>0. /\ Len(steps) \in Nat /\ Len(steps') = Len(steps) + 1
      /\ \A i \in 1..Len(steps) : steps'[i] = steps[i]
      /\ steps'[Len(steps) + 1] = m /\ m[q] \in Update
  BY SendFacts, IInvParts DEF Moves
<1>1. PICK pos \in [1..(Len(steps) + 1) -> Nat] :
        /\ pos[1] = Len(out[q].toks)
        /\ \A i \in 1..Len(steps) :
              /\ Run(steps[i][q].toks, q, pos[i])
              /\ pos[i + 1] = pos[i] + Len(steps[i][q].toks)
              /\ steps[i][q].term = "finished" =>
                     pos[i + 1] = accounts[q].tally /\ steps[i][q].count = accounts[q].tally
        /\ Run(statement[q].toks, q, pos[Len(steps) + 1])
        /\ Run(deferred[q].toks, q, pos[Len(steps) + 1])
        /\ Tallied(q) => accounts[q].tally =
              pos[Len(steps) + 1] + Len(statement[q].toks) + Len(deferred[q].toks)
  BY DEF Chain
<1>2. PICK last \in Nat : last = pos[Len(steps) + 1]
  BY <1>0
<1>3. PICK add \in Nat : add = Len(m[q].toks)
  BY <1>0, LenProperties DEF Update
<1>4. /\ accounts[q].tally \in Nat /\ Len(statement[q].toks) \in Nat /\ Len(deferred[q].toks) \in Nat
  BY FieldTypes, IInvParts
<1>5. Len(<<>>) = 0 /\ \A b : Run(<<>>, q, b)
  BY DEF Run
<1>6. /\ Run(m[q].toks, q, last)
      /\ m[q].term = "finished" => last + add = accounts'[q].tally /\ m[q].count = accounts'[q].tally
      /\ Run(statement'[q].toks, q, last + add) /\ Run(deferred'[q].toks, q, last + add)
      /\ Tallied(q)' => accounts'[q].tally =
            last + add + Len(statement'[q].toks) + Len(deferred'[q].toks)
  <2>1. CASE /\ m[q] = Empty /\ accounts'[q] = accounts[q] /\ deferred'[q] = deferred[q]
             /\ statement'[q] = statement[q]
    <3>1. m[q].toks = <<>> /\ m[q].term = "none" /\ add = 0
      BY <1>3, <1>5, <2>1, EmptyFacts
    <3>2. Tallied(q)' => Tallied(q)
      BY <2>1 DEF Tallied, IsOpen
    <3> QED
      BY <1>1, <1>2, <1>4, <1>5, <2>1, <3>1, <3>2
  <2>2. CASE /\ accounts'[q].state \notin {"queued", "active"}
             /\ m[q] = Empty \/ \E n \in 0..MaxTokens : m[q] = Failed(n)
             /\ statement'[q] = Empty /\ deferred'[q] = Empty
    <3>1. m[q].toks = <<>> /\ m[q].term # "finished" /\ add = 0
      BY <1>3, <1>5, <2>2, EmptyFacts, FailedIs
    <3>2. ~Tallied(q)'
      BY <2>2, EmptyFacts DEF Tallied, IsOpen
    <3> QED
      BY <1>5, <2>2, <3>1, <3>2, EmptyFacts
  <2>3. CASE /\ m[q] = statement[q] /\ accounts'[q] = accounts[q]
             /\ statement'[q] = Empty /\ deferred'[q] = Empty /\ deferred[q] = Empty
    <3>1. add = Len(statement[q].toks) /\ Len(deferred[q].toks) = 0
      BY <1>3, <1>5, <2>3, EmptyFacts
    <3>2. Tallied(q)' => Tallied(q)
      BY <2>3, EmptyFacts DEF Tallied, IsOpen
    <3>3. m[q].term = "finished" => Tallied(q) /\ m[q].count = accounts[q].tally
      BY <2>3 DEF Tallied, Counted
    <3>4. Tallied(q) => accounts[q].tally = last + add
      BY <1>1, <1>2, <1>4, <3>1
    <3> QED
      BY <1>1, <1>2, <1>4, <1>5, <2>3, <3>2, <3>3, <3>4, EmptyFacts
  <2>4. CASE /\ m[q].toks = deferred[q].toks /\ m[q].count = deferred[q].count
             /\ deferred[q] # Empty /\ accounts'[q] = accounts[q]
             /\ accounts[q].state = "closed" /\ statement[q] = Empty
             /\ statement'[q] = Empty /\ deferred'[q] = Empty
    <3>1. add = Len(deferred[q].toks) /\ Len(statement[q].toks) = 0 /\ Tallied(q)
      BY <1>3, <1>5, <2>4, EmptyFacts DEF Tallied
    <3>2. ~Tallied(q)'
      BY <2>4, EmptyFacts DEF Tallied, IsOpen
    <3>3. accounts[q].tally = last + add
      BY <1>1, <1>2, <1>4, <3>1
    <3>4. m[q].count = accounts[q].tally
      BY <2>4 DEF Counted
    <3> QED
      BY <1>1, <1>2, <1>5, <2>4, <3>2, <3>3, <3>4, EmptyFacts
  <2> QED
    BY <2>1, <2>2, <2>3, <2>4 DEF Moves
<1> DEFINE new == [i \in 1..(Len(steps) + 2) |-> IF i = Len(steps) + 2 THEN last + add ELSE pos[i]]
<1>7. /\ new \in [1..(Len(steps) + 2) -> Nat]
      /\ \A i \in 1..(Len(steps) + 1) : new[i] = pos[i]
      /\ new[Len(steps) + 2] = last + add
  BY <1>0
<1>8. PICK w : w = new
  OBVIOUS
<1> HIDE DEF new
<1>9. /\ w \in [1..(Len(steps') + 1) -> Nat]
      /\ w[1] = Len(out'[q].toks)
      /\ w[Len(steps') + 1] = last + add
  <2>1. Len(steps') + 1 = Len(steps) + 2 /\ 1 \in 1..(Len(steps) + 1) /\ out'[q] = out[q]
    BY <1>0 DEF Moves
  <2> QED
    BY <1>1, <1>7, <1>8, <2>1
<1>10. ASSUME NEW i \in 1..Len(steps')
       PROVE  /\ Run(steps'[i][q].toks, q, w[i])
              /\ w[i + 1] = w[i] + Len(steps'[i][q].toks)
              /\ steps'[i][q].term = "finished" =>
                     w[i + 1] = accounts'[q].tally /\ steps'[i][q].count = accounts'[q].tally
  <2>1. CASE i \in 1..Len(steps)
    <3>1. w[i] = pos[i] /\ w[i + 1] = pos[i + 1] /\ steps'[i] = steps[i]
      BY <1>0, <1>7, <1>8, <2>1
    <3> QED
      BY <1>1, <2>1, <3>1 DEF Moves
  <2>2. CASE i = Len(steps) + 1
    <3>1. w[i] = last /\ w[i + 1] = last + add /\ steps'[i] = m
      BY <1>0, <1>2, <1>7, <1>8, <2>2
    <3> QED
      BY <1>3, <1>6, <3>1
  <2> QED
    BY <1>0, <2>1, <2>2
<1> QED
  BY <1>6, <1>9, <1>10 DEF Chain

\* So does the rest of what is under way.
LEMMA MoveUnderway ==
    ASSUME IInv, NEW q \in Id, NEW m, Moves(q, m), Underway(q), Waiting(q)
    PROVE  Underway(q)'
<1>0. /\ Len(steps) \in Nat /\ Len(steps') = Len(steps) + 1
      /\ \A i \in 1..Len(steps) : steps'[i] = steps[i]
      /\ steps'[Len(steps) + 1] = m
  BY SendFacts, IInvParts DEF Moves
<1>1. \A i \in 1..Len(steps') : i \in 1..Len(steps) \/ i = Len(steps) + 1
  BY <1>0
<1>2. /\ streams'[q] = streams[q] /\ out'[q] = out[q]
      /\ accounts'[q].tally = accounts[q].tally /\ accounts'[q].noted = accounts[q].noted
  BY DEF Moves
<1>3. Chain(q)'
  BY MoveChain DEF Underway
<1>4. m[q].term = "none" => m[q].count = 0
  BY EmptyFacts, FailedIs DEF Moves, Underway, Counted
<1>5. Counted(q)'
  <2>1. \A i \in 1..Len(steps') : steps'[i][q].term = "none" => steps'[i][q].count = 0
    BY <1>0, <1>1, <1>4 DEF Underway, Counted
  <2> QED
    BY <1>2, <2>1, EmptyFacts DEF Moves, Underway, Counted
\* where the admission, the tokens and the facts of m come from
<1>6. /\ m[q].sched => statement[q].sched \/ deferred[q].sched
      /\ Speaks(m[q]) => Speaks(statement[q]) \/ Speaks(deferred[q])
      /\ m[q].meta => statement[q].meta \/ deferred[q].meta
  <2>1. deferred[q] # Empty => Speaks(deferred[q])
    BY IInvParts DEF Duties, DeferredDuty, Speaks
  <2> QED
    BY <2>1, EmptyFacts, FailedIs DEF Moves
<1>7. /\ statement'[q].sched => statement[q].sched /\ ~m[q].sched
      /\ deferred'[q].sched => deferred[q].sched /\ ~m[q].sched
      /\ Speaks(statement'[q]) => Speaks(statement[q])
      /\ Speaks(deferred'[q]) => Speaks(deferred[q])
      /\ statement'[q].meta => statement[q].meta
      /\ deferred'[q].meta => deferred[q].meta
  BY EmptyFacts DEF Moves
\* and what survives of what q still had to say
<1>8. (accounts'[q].state = "active" \/ Speaks(m[q])
         \/ Speaks(statement'[q]) \/ Speaks(deferred'[q])) =>
         /\ Active(q) \/ Speaks(statement[q]) \/ Speaks(deferred[q])
         /\ statement[q].sched \/ deferred[q].sched =>
               m[q].sched \/ statement'[q].sched \/ deferred'[q].sched
  BY <1>6, <1>7, EmptyFacts, FailedIs DEF Moves, Active
<1>9. ScheduledOnce(q)'
  <2>0. ScheduledOnce(q) /\ accounts'[q].state = "queued" => accounts[q].state = "queued"
    BY EmptyFacts DEF Underway, Moves
  <2>1. streams'[q].sched # "none" =>
           ~statement'[q].sched /\ ~deferred'[q].sched /\ \A i \in 1..Len(steps') : ~steps'[i][q].sched
    BY <1>0, <1>1, <1>2, <1>6, <1>7 DEF Underway, ScheduledOnce
  <2>2. ASSUME NEW i \in 1..Len(steps'), steps'[i][q].sched
        PROVE  /\ ~statement'[q].sched /\ ~deferred'[q].sched
               /\ \A j \in 1..Len(steps') : j # i => ~steps'[j][q].sched
    <3>1. CASE i \in 1..Len(steps)
      <4>1. /\ ~statement[q].sched /\ ~deferred[q].sched
            /\ \A j \in 1..Len(steps) : j # i => ~steps[j][q].sched
        BY <1>0, <2>2, <3>1 DEF Underway, ScheduledOnce
      <4> QED
        BY <1>0, <1>1, <1>6, <1>7, <4>1
    <3>2. CASE i = Len(steps) + 1
      <4>1. m[q].sched
        BY <1>0, <2>2, <3>2
      <4>2. \A j \in 1..Len(steps) : ~steps[j][q].sched
        BY <1>6, <4>1 DEF Underway, ScheduledOnce
      <4> QED
        BY <1>0, <1>1, <1>7, <3>2, <4>1, <4>2
    <3> QED
      BY <1>1, <3>1, <3>2
  <2> QED
    BY <1>2, <2>0, <2>1, <2>2 DEF Underway, ScheduledOnce
<1>10. Announced(q)'
  <2>1. (\E j \in 1..Len(steps) : steps[j][q].sched) => \E j \in 1..Len(steps') : steps'[j][q].sched
    BY <1>0
  <2>2. m[q].sched => \E j \in 1..Len(steps') : steps'[j][q].sched
    BY <1>0
  <2>3. ASSUME NEW i \in 1..Len(steps'), Speaks(steps'[i][q])
        PROVE  streams'[q].sched # "none" \/ \E j \in 1..i : steps'[j][q].sched
    <3>1. CASE i \in 1..Len(steps)
      <4>1. streams[q].sched # "none" \/ \E j \in 1..i : steps[j][q].sched
        BY <1>0, <2>3, <3>1 DEF Underway, Announced
      <4> QED
        BY <1>0, <1>2, <3>1, <4>1
    <3>2. CASE i = Len(steps) + 1
      <4>0. Speaks(m[q]) /\ i = Len(steps')
        BY <1>0, <2>3, <3>2
      <4>1. \/ streams[q].sched # "none" \/ \E j \in 1..Len(steps) : steps[j][q].sched
            \/ statement[q].sched \/ deferred[q].sched
        BY <1>8, <4>0 DEF Underway, Announced
      <4>2. statement[q].sched \/ deferred[q].sched => m[q].sched
        <5>1. Speaks(m[q]) => m[q] # Empty /\ \A n \in 0..MaxTokens : m[q] # Failed(n)
          BY EmptyFacts, FailedIs
        <5> QED
          BY <4>0, <5>1, EmptyFacts DEF Moves
      <4> QED
        BY <1>2, <2>1, <2>2, <4>0, <4>1, <4>2
    <3> QED
      BY <1>1, <3>1, <3>2
  <2>4. (Active(q)' \/ Speaks(statement'[q]) \/ Speaks(deferred'[q])) =>
           \/ streams'[q].sched # "none" \/ \E j \in 1..Len(steps') : steps'[j][q].sched
           \/ statement'[q].sched \/ deferred'[q].sched
    BY <1>2, <1>8, <2>1, <2>2 DEF Underway, Announced, Active
  <2> QED
    BY <2>3, <2>4 DEF Announced
<1>11. FactsKept(q)'
  <2>1. FactsUnderWay(q)' => FactsUnderWay(q)
    BY <1>0, <1>1, <1>2, <1>6, <1>7 DEF FactsUnderWay
  <2>2. Tallied(q)' \/ m[q].term = "finished" =>
           /\ Tallied(q)
           /\ statement[q].meta \/ deferred[q].meta =>
                 m[q].meta \/ statement'[q].meta \/ deferred'[q].meta
    BY EmptyFacts, FailedIs DEF Moves, Tallied, IsOpen
  <2>3. (\E i \in 1..Len(steps') : steps'[i][q].term = "finished") =>
           m[q].term = "finished" \/ \E i \in 1..Len(steps) : steps[i][q].term = "finished"
    BY <1>0, <1>1
  <2>4. (\E i \in 1..Len(steps) : steps[i][q].term = "finished") =>
           statement[q] = Empty /\ deferred[q] = Empty
    BY IInvParts DEF Duties, StepDuty
  <2>5. (\E j \in 1..Len(steps) : steps[j][q].meta) => \E j \in 1..Len(steps') : steps'[j][q].meta
    BY <1>0
  <2>6. m[q].meta => \E j \in 1..Len(steps') : steps'[j][q].meta
    BY <1>0
  <2>7. ASSUME accounts'[q].noted,
               Tallied(q)' \/ \E i \in 1..Len(steps') : steps'[i][q].term = "finished"
        PROVE  FactsUnderWay(q)'
    <3>1. FactsUnderWay(q)
      BY <1>2, <2>2, <2>3, <2>7 DEF Underway, FactsKept
    <3>2. statement[q].meta \/ deferred[q].meta =>
             m[q].meta \/ statement'[q].meta \/ deferred'[q].meta
      BY <2>2, <2>3, <2>4, <2>7, EmptyFacts
    <3> QED
      BY <1>2, <2>5, <2>6, <3>1, <3>2 DEF FactsUnderWay
  <2> QED
    BY <1>2, <2>1, <2>7 DEF Underway, FactsKept
<1> QED
  BY <1>3, <1>5, <1>9, <1>10, <1>11 DEF Underway

\* What a ledger call may do to an open account, its update and its deferred
\* finish: the tokens and facts only move or grow by one, and a terminal counts
\* the tally.
LedgerCall(r, a, u, d) ==
    /\ \/ u.toks = statement[r].toks /\ d.toks = <<>> /\ a.tally = accounts[r].tally
       \/ /\ u.toks = Append(statement[r].toks, <<r, accounts[r].tally + 1>>)
          /\ d.toks = <<>> /\ a.tally = accounts[r].tally + 1
       \/ u.toks = <<>> /\ d.toks = statement[r].toks /\ a.tally = accounts[r].tally
    /\ (u.term = "none" => u.count = 0) /\ (u.term = "finished" => u.count = a.tally)
    /\ d.count = (IF d = Empty THEN 0 ELSE a.tally)
    /\ (u.sched \/ d.sched) <=>
           (statement[r].sched \/ (accounts[r].state = "queued" /\ a.state = "active"))
    /\ (a.state = "active" \/ Speaks(u) \/ Speaks(d)) => (Active(r) \/ u.sched)
    /\ a.state # "queued"
    /\ \/ a.noted = accounts[r].noted /\ ((u.meta \/ d.meta) <=> statement[r].meta)
       \/ a.noted /\ u.meta

\* A ledger call keeps what is under way for its request.
LEMMA TouchUnderway ==
    ASSUME IInv, NEW r \in Id, NEW a \in Account, NEW u \in Update, NEW d \in Update,
           IsOpen(r), Waiting(r), Underway(r), LedgerCall(r, a, u, d),
           accounts'[r] = a, statement'[r] = u, deferred'[r] = d,
           steps' = steps, streams'[r] = streams[r], out'[r] = out[r]
    PROVE  Underway(r)'
<1>0. /\ deferred[r] = Empty /\ NoTerminal(r) /\ statement[r].term = "none"
      /\ accounts[r].state = "queued" => statement[r] = Empty /\ Quiet(r)
  BY EmptyFacts, IInvParts DEF IsOpen, Duties, AccountDuty, Quiet, NoTerminal
<1>1. Tallied(r) /\ Len(deferred[r].toks) = 0 /\ Len(<<>>) = 0 /\ \A b : Run(<<>>, r, b)
  BY <1>0, EmptyFacts DEF Tallied, Run
<1>2. Chain(r)'
  <2>1. PICK pos \in [1..(Len(steps) + 1) -> Nat] :
          /\ pos[1] = Len(out[r].toks)
          /\ \A i \in 1..Len(steps) :
                /\ Run(steps[i][r].toks, r, pos[i])
                /\ pos[i + 1] = pos[i] + Len(steps[i][r].toks)
                /\ steps[i][r].term = "finished" =>
                       pos[i + 1] = accounts[r].tally /\ steps[i][r].count = accounts[r].tally
          /\ Run(statement[r].toks, r, pos[Len(steps) + 1])
          /\ Run(deferred[r].toks, r, pos[Len(steps) + 1])
          /\ Tallied(r) => accounts[r].tally =
                pos[Len(steps) + 1] + Len(statement[r].toks) + Len(deferred[r].toks)
    BY DEF Underway, Chain
  <2>2. PICK last \in Nat : last = pos[Len(steps) + 1]
    <3>1. Len(steps) \in Nat
      BY IInvParts
    <3> QED
      BY <2>1, <3>1
  <2>3. PICK k \in Nat : k = Len(statement[r].toks)
    BY FieldTypes, IInvParts
  <2>4. accounts[r].tally = last + k /\ Run(statement[r].toks, r, last)
    BY <1>1, <2>1, <2>2, <2>3
  <2>5. Run(u.toks, r, last) /\ Run(d.toks, r, last) /\ a.tally = last + Len(u.toks) + Len(d.toks)
    <3>1. CASE u.toks = statement[r].toks /\ d.toks = <<>> /\ a.tally = accounts[r].tally
      BY <1>1, <2>3, <2>4, <3>1
    <3>2. CASE u.toks = <<>> /\ d.toks = statement[r].toks /\ a.tally = accounts[r].tally
      BY <1>1, <2>3, <2>4, <3>2
    <3>3. CASE /\ u.toks = Append(statement[r].toks, <<r, accounts[r].tally + 1>>)
               /\ d.toks = <<>> /\ a.tally = accounts[r].tally + 1
      <4>1. /\ statement[r].toks \in Seq(Token) /\ <<r, accounts[r].tally + 1>> \in Token
        <5>1. a.tally \in 0..MaxTokens /\ accounts[r].tally \in Nat
          BY FieldTypes, IInvParts DEF Account
        <5>2. accounts[r].tally + 1 \in 1..MaxTokens
          BY <3>3, <5>1, ContractAssumption
        <5> QED
          BY <5>2, FieldTypes, IInvParts DEF Token
      <4>2. /\ Len(u.toks) = k + 1 /\ \A j \in 1..k : u.toks[j] = statement[r].toks[j]
            /\ u.toks[k + 1] = <<r, accounts[r].tally + 1>>
        BY <2>3, <3>3, <4>1, AppendProperties
      <4>3. Run(u.toks, r, last)
        <5>1. \A j \in 1..k : u.toks[j] = <<r, last + j>>
          BY <2>3, <2>4, <4>2 DEF Run
        <5>2. u.toks[k + 1] = <<r, last + (k + 1)>>
          BY <2>4, <4>2
        <5>3. \A j \in 1..Len(u.toks) : j \in 1..k \/ j = k + 1
          BY <4>2
        <5> QED
          BY <5>1, <5>2, <5>3 DEF Run
      <4>4. Len(d.toks) = 0 /\ Run(d.toks, r, last)
        BY <1>1, <3>3
      <4>5. a.tally = last + Len(u.toks) + Len(d.toks)
        BY <2>4, <3>3, <4>2, <4>4
      <4> QED
        BY <4>3, <4>4, <4>5
    <3> QED
      BY <3>1, <3>2, <3>3 DEF LedgerCall
  <2>6. \A i \in 1..Len(steps) : steps[i][r].term # "finished"
    BY <1>0 DEF NoTerminal
  <2>7. PICK w : w = pos
    OBVIOUS
  <2>8. /\ w \in [1..(Len(steps') + 1) -> Nat] /\ w[1] = Len(out'[r].toks)
        /\ \A i \in 1..Len(steps') :
              /\ Run(steps'[i][r].toks, r, w[i])
              /\ w[i + 1] = w[i] + Len(steps'[i][r].toks)
              /\ steps'[i][r].term = "finished" =>
                     w[i + 1] = accounts'[r].tally /\ steps'[i][r].count = accounts'[r].tally
    BY <2>1, <2>6, <2>7
  <2>9. /\ Run(statement'[r].toks, r, w[Len(steps') + 1])
        /\ Run(deferred'[r].toks, r, w[Len(steps') + 1])
        /\ accounts'[r].tally = w[Len(steps') + 1] + Len(statement'[r].toks) + Len(deferred'[r].toks)
    BY <2>2, <2>5, <2>7
  <2> QED
    BY <2>8, <2>9 DEF Chain
<1>3. Counted(r)'
  BY DEF LedgerCall, Underway, Counted
<1>4. ScheduledOnce(r)'
  <2>1. accounts[r].state = "queued" =>
           streams[r].sched = "none" /\ \A i \in 1..Len(steps) : ~steps[i][r].sched
    BY <1>0, EmptyFacts DEF Underway, ScheduledOnce, Quiet
  <2> QED
    BY <2>1 DEF LedgerCall, Underway, ScheduledOnce
<1>5. Announced(r)'
  <2>1. (a.state = "active" \/ Speaks(u) \/ Speaks(d)) =>
           \/ streams[r].sched # "none" \/ \E j \in 1..Len(steps) : steps[j][r].sched
           \/ u.sched \/ d.sched
    BY <1>0, EmptyFacts DEF LedgerCall, Underway, Announced
  <2> QED
    BY <2>1 DEF Underway, Announced, Active
<1>6. FactsKept(r)'
  <2>1. CASE a.noted = accounts[r].noted /\ ((u.meta \/ d.meta) <=> statement[r].meta)
    <3>1. FactsUnderWay(r)' <=> FactsUnderWay(r)
      BY <1>0, <2>1, EmptyFacts DEF FactsUnderWay
    <3> QED
      BY <1>1, <2>1, <3>1 DEF Underway, FactsKept
  <2>2. CASE a.noted /\ u.meta
    BY <2>2 DEF FactsKept, FactsUnderWay
  <2> QED
    BY <2>1, <2>2 DEF LedgerCall
<1> QED
  BY <1>2, <1>3, <1>4, <1>5, <1>6 DEF Underway

\* What a client has stays true while its account does not reopen.
LEMMA DeliveredKept ==
    ASSUME NEW q \in Id, Delivered(q), out'[q] = out[q],
           accounts[q].state = "closed" => accounts'[q] = accounts[q]
    PROVE  Delivered(q)'
BY DEF Delivered

\* The ledger calls keep the second invariant.
LEMMA LedgerStream ==
    ASSUME IInv, IInv', NEW q \in Id, Stream(q), NEW r \in Id,
           \/ Admit(r) \/ Reject(r) \/ PushTokens(r) \/ SetFacts(r)
           \/ \E e \in Extras \cap {"good", "bad"} : EchoPrompt(r, e)
           \/ Finish(r) \/ Fail(r) \/ Retire(r) \/ DeferFinish(r)
    PROVE  Stream(q)'
<1> USE DEF front
<1>1. UNCHANGED <<steps, streams, out, bridge, abort>>
  BY DEF Admit, Reject, PushTokens, SetFacts, EchoPrompt, Finish, Fail, Retire, DeferFinish, Touch
<1>2. IsOpen(r)
  BY DEF Admit, Reject, PushTokens, SetFacts, EchoPrompt, Finish, Fail, Retire, DeferFinish,
         Active, IsOpen
<1>3. /\ TypeOK /\ accounts[r] \in Account /\ statement[r] \in Update /\ deferred[r] = Empty
      /\ statement[r].term = "none" /\ (accounts[r].state = "queued" => statement[r] = Empty)
      /\ deferred = [deferred EXCEPT ![r] = Empty]
  <2>1. /\ deferred[r] = Empty /\ statement[r].term = "none"
        /\ accounts[r].state = "queued" => statement[r] = Empty
    BY <1>2, EmptyFacts, IInvParts DEF IsOpen, Duties, AccountDuty, Quiet
  <2>2. TypeOK
    BY IInvParts
  <2>3. deferred = [deferred EXCEPT ![r] = Empty]
    BY <2>1, <2>2 DEF TypeOK
  <2> QED
    BY <2>1, <2>2, <2>3, FieldTypes
<1>4. ASSUME NEW a, NEW u, NEW d, Touch(r, a, u), deferred' = [deferred EXCEPT ![r] = d],
             Waiting(r) /\ q = r => LedgerCall(r, a, u, d)
      PROVE  Stream(q)'
  <2>1. accounts' = [accounts EXCEPT ![r] = a] /\ statement' = [statement EXCEPT ![r] = u]
    BY <1>4 DEF Touch
  <2>2. CASE q # r
    <3>1. accounts'[q] = accounts[q] /\ statement'[q] = statement[q] /\ deferred'[q] = deferred[q]
      BY <1>3, <1>4, <2>1, <2>2 DEF TypeOK
    <3> QED
      BY <1>1, <3>1, UnderwayKept, DeliveredKept DEF Stream, Waiting
  <2>3. CASE q = r
    <3>1. accounts'[r] = a /\ statement'[r] = u /\ deferred'[r] = d
      BY <1>3, <1>4, <2>1 DEF TypeOK
    <3>2. a \in Account /\ u \in Update /\ d \in Update
      <4>1. TypeOK'
        BY DEF IInv
      <4>2. accounts' \in [Id -> Account] /\ statement' \in [Id -> Update] /\ deferred' \in [Id -> Update]
        BY <4>1 DEF TypeOK, Account
      <4> QED
        BY <3>1, <4>2
    <3>3. Delivered(r)'
      BY <1>1, <1>2, <2>3, DeliveredKept DEF Stream, IsOpen
    <3>4. Waiting(r) => Underway(r)'
      BY <1>1, <1>2, <1>4, <2>3, <3>1, <3>2, TouchUnderway DEF Stream
    <3> QED
      BY <1>1, <2>3, <3>3, <3>4 DEF Stream, Waiting
  <2> QED
    BY <2>2, <2>3
<1>5. Waiting(r) /\ q = r => statement[r].count = 0 /\ ~abort[r]
  <2>1. Waiting(r) => ~abort[r]
    BY IInvParts DEF Duties, Streaming
  <2> QED
    BY <1>3, <2>1 DEF Stream, Underway, Counted
<1>6. CASE Admit(r)
  <2>1. PICK a, u : a = [accounts[r] EXCEPT !.state = "active"] /\ u = [statement[r] EXCEPT !.sched = TRUE]
    OBVIOUS
  <2>2. Waiting(r) /\ q = r => LedgerCall(r, a, u, Empty)
    <3>1. /\ a.state = "active" /\ a.tally = accounts[r].tally /\ a.noted = accounts[r].noted
          /\ u.toks = statement[r].toks /\ u.meta = statement[r].meta /\ u.sched
          /\ u.term = statement[r].term /\ u.count = statement[r].count
      BY <1>3, <2>1 DEF Account, Update
    <3> QED
      BY <1>3, <1>5, <1>6, <3>1, EmptyFacts DEF LedgerCall, Admit, Speaks
  <2> QED
    BY <1>3, <1>4, <1>6, <2>1, <2>2 DEF Admit
<1>7. CASE Reject(r)
  <2>1. PICK a, u : a = Closed(r) /\ u = [statement[r] EXCEPT !.term = "rejected"]
    OBVIOUS
  <2>2. Waiting(r) /\ q = r => LedgerCall(r, a, u, Empty)
    <3>1. /\ a.state = "closed" /\ a.tally = accounts[r].tally /\ a.noted = accounts[r].noted
          /\ u.toks = statement[r].toks /\ u.meta = statement[r].meta /\ u.sched = statement[r].sched
          /\ u.term = "rejected" /\ u.count = statement[r].count
      BY <1>3, <2>1 DEF Account, Update, Closed
    <3> QED
      BY <1>3, <1>5, <1>7, <3>1, EmptyFacts DEF LedgerCall, Reject, Speaks
  <2> QED
    BY <1>3, <1>4, <1>7, <2>1, <2>2 DEF Reject
<1>8. CASE PushTokens(r)
  <2>1. PICK a, u : /\ a = [accounts[r] EXCEPT !.tally = accounts[r].tally + 1]
                    /\ u = [statement[r] EXCEPT !.toks = Append(@, <<r, accounts[r].tally + 1>>)]
    OBVIOUS
  <2>2. Waiting(r) /\ q = r => LedgerCall(r, a, u, Empty)
    <3>1. /\ a.state = accounts[r].state /\ a.tally = accounts[r].tally + 1
          /\ a.noted = accounts[r].noted
          /\ u.toks = Append(statement[r].toks, <<r, accounts[r].tally + 1>>)
          /\ u.meta = statement[r].meta /\ u.sched = statement[r].sched
          /\ u.term = statement[r].term /\ u.count = statement[r].count
      BY <1>3, <2>1 DEF Account, Update
    <3> QED
      BY <1>3, <1>5, <1>8, <3>1, EmptyFacts DEF LedgerCall, PushTokens, Active, Speaks
  <2> QED
    BY <1>3, <1>4, <1>8, <2>1, <2>2 DEF PushTokens
<1>9. CASE SetFacts(r)
  <2>1. PICK a, u : a = [accounts[r] EXCEPT !.noted = TRUE] /\ u = [statement[r] EXCEPT !.meta = TRUE]
    OBVIOUS
  <2>2. Waiting(r) /\ q = r => LedgerCall(r, a, u, Empty)
    <3>1. /\ a.state = accounts[r].state /\ a.tally = accounts[r].tally /\ a.noted
          /\ u.toks = statement[r].toks /\ u.meta /\ u.sched = statement[r].sched
          /\ u.term = statement[r].term /\ u.count = statement[r].count
      BY <1>3, <2>1 DEF Account, Update
    <3> QED
      BY <1>3, <1>5, <1>9, <3>1, EmptyFacts DEF LedgerCall, SetFacts, Active, Speaks
  <2> QED
    BY <1>3, <1>4, <1>9, <2>1, <2>2 DEF SetFacts
<1>10. ASSUME NEW e \in Extras \cap {"good", "bad"}, EchoPrompt(r, e)
       PROVE  Stream(q)'
  <2>1. PICK a, u : a = [accounts[r] EXCEPT !.echoed = TRUE] /\ u = [statement[r] EXCEPT !.echo = e]
    OBVIOUS
  <2>2. Waiting(r) /\ q = r => LedgerCall(r, a, u, Empty)
    <3>1. /\ a.state = accounts[r].state /\ a.tally = accounts[r].tally
          /\ a.noted = accounts[r].noted
          /\ u.toks = statement[r].toks /\ u.meta = statement[r].meta /\ u.sched = statement[r].sched
          /\ u.term = statement[r].term /\ u.count = statement[r].count
      BY <1>3, <2>1 DEF Account, Update
    <3> QED
      BY <1>3, <1>5, <1>10, <3>1, EmptyFacts DEF LedgerCall, EchoPrompt, Active, Speaks
  <2> QED
    BY <1>3, <1>4, <1>10, <2>1, <2>2 DEF EchoPrompt
\* the answers carry the tally
<1>11. /\ Closed(r).state = "closed" /\ Closed(r).tally = accounts[r].tally
       /\ Closed(r).noted = accounts[r].noted
       /\ \A t, b : /\ Answer(r, t, b).toks = statement[r].toks
                    /\ Answer(r, t, b).meta = statement[r].meta
                    /\ Answer(r, t, b).sched = statement[r].sched /\ Answer(r, t, b).term = t
                    /\ Answer(r, t, b).count = accounts[r].tally
  BY <1>3 DEF Account, Update, Closed, Answer
<1>12. CASE Finish(r)
  <2>0. PICK bare : Touch(r, Closed(r), Answer(r, "finished", bare))
    BY <1>12 DEF Finish
  <2>1. LedgerCall(r, Closed(r), Answer(r, "finished", bare), Empty)
    BY <1>3, <1>11, <1>12, EmptyFacts DEF LedgerCall, Finish, Active
  <2> QED
    BY <1>3, <1>4, <1>12, <2>0, <2>1 DEF Finish
<1>13. CASE Fail(r)
  <2>0. PICK u : u = Answer(r, "failed", FALSE)
    OBVIOUS
  <2>1. /\ u.toks = statement[r].toks /\ u.meta = statement[r].meta
        /\ u.sched = statement[r].sched /\ u.term = "failed" /\ u.count = accounts[r].tally
    BY <1>11, <2>0
  <2>2. Speaks(u) => Active(r)
    BY <1>2, <1>3, <2>1, EmptyFacts DEF Active, IsOpen, Speaks
  <2>3. LedgerCall(r, Closed(r), u, Empty)
    BY <1>11, <2>1, <2>2, EmptyFacts DEF LedgerCall
  <2> QED
    BY <1>3, <1>4, <1>13, <2>0, <2>3 DEF Fail
<1>14. CASE Retire(r)
  BY <1>3, <1>4, <1>5, <1>14 DEF Retire
<1>15. CASE DeferFinish(r)
  <2>0. PICK bare : deferred' = [deferred EXCEPT ![r] = Answer(r, "finished", bare)]
    BY <1>15 DEF DeferFinish
  <2>1. LedgerCall(r, Closed(r), Empty, Answer(r, "finished", bare))
    BY <1>3, <1>11, <1>15, EmptyFacts DEF LedgerCall, DeferFinish, Active
  <2> QED
    BY <1>4, <1>15, <2>0, <2>1 DEF DeferFinish
<1> QED
  BY <1>6, <1>7, <1>8, <1>9, <1>10, <1>12, <1>13, <1>14, <1>15

\* A closed account whose buffered update is dropped with the statement.
LEMMA DroppedUnderway ==
    ASSUME IInv, NEW q \in Id, Underway(q), ~IsOpen(q), deferred[q] = Empty,
           steps' = steps, accounts'[q] = accounts[q], statement'[q] = Empty, deferred'[q] = Empty,
           streams'[q] = streams[q], out'[q] = out[q]
    PROVE  Underway(q)'
<1>1. ~Tallied(q)' /\ ~Active(q) /\ ~Active(q)'
  BY EmptyFacts DEF Tallied, IsOpen, Active
<1>2. \A b : Run(<<>>, q, b)
  BY DEF Run
<1>3. Chain(q)'
  BY <1>1, <1>2, EmptyFacts DEF Underway, Chain
<1>4. Counted(q)' /\ ScheduledOnce(q)' /\ Announced(q)'
  BY <1>1, EmptyFacts DEF Underway, Counted, ScheduledOnce, Announced
<1>5. (\E i \in 1..Len(steps) : steps[i][q].term = "finished") => statement[q] = Empty
  BY IInvParts DEF Duties, StepDuty
<1>6. FactsKept(q)'
  BY <1>1, <1>5, EmptyFacts DEF Underway, FactsKept, FactsUnderWay
<1> QED
  BY <1>3, <1>4, <1>6 DEF Underway

\* The driver's hand-overs keep the second invariant.
LEMMA DriverStream ==
    ASSUME IInv, IInv', NEW q \in Id, Stream(q),
           Register \/ Commit \/ FailAll \/ DropLedger \/ DropEnvelope
    PROVE  Stream(q)'
<1> USE DEF front, engine
<1>1. UNCHANGED <<streams, bridge, deferred, out>>
  BY DEF Register, Commit, FailAll, DropLedger, DropEnvelope
<1>2. Waiting(q) => bridge = "up" /\ Underway(q)
  BY IInvParts DEF Duties, Streaming, Stream
<1>3. /\ TypeOK /\ TypeOK' /\ accounts[q] \in Account /\ statement \in [Id -> Update]
      /\ statement[q] # Empty => deferred[q] = Empty
  <2>1. deferred[q] # Empty => statement[q] = Empty
    BY IInvParts DEF Duties, DeferredDuty
  <2>2. TypeOK'
    BY DEF IInv
  <2> QED
    BY <2>1, <2>2, IInvParts DEF TypeOK, Account
<1>4. CASE Register
  <2>0. PICK h : h = Head(submissions)
    OBVIOUS
  <2>1. /\ h \in Id /\ Enveloped(h)
        /\ accounts' = [accounts EXCEPT ![h] = Queued] /\ UNCHANGED <<statement, steps>>
    BY <1>3, <1>4, <2>0, HeadLeaves, IInvParts DEF Register
  <2>2. CASE q = h
    <3>1. Unknown(q) /\ accounts'[q] = Queued
      BY <1>3, <2>1, <2>2, IInvParts DEF Duties, TypeOK
    <3>2. Fresh(q)'
      BY <1>1, <2>1, <3>1, EmptyFacts DEF Fresh, Unknown, Quiet, Queued
    <3>3. Underway(q)'
      <4>1. (TypeOK /\ Fresh(q) => Underway(q))'
        BY FreshUnderway, PTL
      <4> QED
        BY <1>3, <3>2, <4>1
    <3>4. Delivered(q)'
      BY <1>1, <3>1, DeliveredKept DEF Stream, Unknown, NoAccount
    <3> QED
      BY <3>3, <3>4 DEF Stream
  <2>3. CASE q # h
    <3>1. accounts'[q] = accounts[q]
      BY <1>3, <2>1, <2>3 DEF TypeOK
    <3> QED
      BY <1>1, <2>1, <3>1, UnderwayKept, DeliveredKept DEF Stream, Waiting
  <2> QED
    BY <2>2, <2>3
<1>5. CASE Commit
  <2>1. UNCHANGED accounts /\ statement'[q] = Empty
        /\ (steps' = After(<<statement>>) \/ (statement = NoUpdates /\ steps' = steps))
    BY <1>5 DEF Commit, CommitStep, Send, NoUpdates
  <2>2. Delivered(q)'
    BY <1>1, <2>1, DeliveredKept DEF Stream
  <2>3. CASE steps' = After(<<statement>>)
    <3>1. Waiting(q) => Moves(q, statement)
      BY <1>1, <1>2, <1>3, <2>1, <2>3 DEF Moves
    <3> QED
      BY <1>1, <1>2, <2>2, <3>1, MoveUnderway DEF Stream, Waiting
  <2>4. CASE statement = NoUpdates /\ steps' = steps
    <3>1. statement'[q] = statement[q]
      BY <2>1, <2>4 DEF NoUpdates
    <3> QED
      BY <1>1, <1>2, <2>1, <2>2, <2>4, <3>1, UnderwayKept DEF Stream, Waiting
  <2> QED
    BY <2>1, <2>3, <2>4
<1>6. CASE FailAll \/ DropLedger
  <2>1. /\ WrittenOff \in [Id -> Update] /\ accounts' = Emptied
        /\ steps' = After(<<WrittenOff>>) \/ (steps' = steps /\ WrittenOff = NoUpdates)
        /\ statement'[q] = Empty
    <3>1. CASE FailAll
      <4>1. statement[q] = Empty
        BY <3>1, IInvParts DEF FailAll, Phases, NoUpdates
      <4> QED
        BY <1>3, <3>1, <4>1, WrittenOffTypes DEF FailAll
    <3>2. CASE DropLedger
      BY <1>3, <3>2, WrittenOffTypes DEF DropLedger, NoUpdates
    <3> QED
      BY <1>6, <3>1, <3>2
  <2>2. IsOpen(q) => /\ accounts'[q].state = "closed" /\ accounts'[q].tally = accounts[q].tally
                     /\ accounts'[q].noted = accounts[q].noted /\ deferred[q] = Empty
                     /\ \E n \in 0..MaxTokens : WrittenOff[q] = Failed(n)
    <3>1. IsOpen(q) => accounts'[q] = Closed(q) /\ WrittenOff[q] = Failed(accounts[q].tally)
      BY <2>1 DEF Emptied, WrittenOff
    <3>2. IsOpen(q) => deferred[q] = Empty
      BY IInvParts DEF IsOpen, Duties, AccountDuty, Quiet
    <3>3. accounts[q].tally \in 0..MaxTokens
      BY <1>3 DEF Account
    <3> QED
      BY <1>3, <3>1, <3>2, <3>3 DEF Closed, Account
  <2>3. ~IsOpen(q) => accounts'[q] = accounts[q] /\ WrittenOff[q] = Empty
    BY <2>1 DEF Emptied, WrittenOff
  <2>4. Delivered(q)'
    BY <1>1, <2>3, DeliveredKept DEF Stream, IsOpen
  <2>5. CASE steps' = After(<<WrittenOff>>)
    <3>1. Waiting(q) => Moves(q, WrittenOff)
      <4>1. CASE IsOpen(q)
        BY <1>1, <1>2, <2>1, <2>2, <2>5, <4>1 DEF Moves
      <4>2. CASE ~IsOpen(q)
        BY <1>1, <1>2, <1>3, <2>1, <2>3, <2>5, <4>2 DEF Moves, IsOpen
      <4> QED
        BY <4>1, <4>2
    <3> QED
      BY <1>1, <1>2, <2>4, <3>1, MoveUnderway DEF Stream, Waiting
  <2>6. CASE steps' = steps /\ WrittenOff = NoUpdates
    <3>1. ~IsOpen(q)
      <4>1. WrittenOff[q] = Empty
        BY <2>6 DEF NoUpdates
      <4> QED
        BY <2>2, <4>1, EmptyFacts, FailedIs
    <3>2. CASE statement[q] = Empty
      BY <1>1, <1>2, <2>1, <2>3, <2>4, <2>6, <3>1, <3>2, UnderwayKept DEF Stream, Waiting
    <3>3. CASE deferred[q] = Empty
      BY <1>1, <1>2, <2>1, <2>3, <2>4, <2>6, <3>1, <3>3, DroppedUnderway DEF Stream, Waiting
    <3> QED
      BY <1>3, <3>2, <3>3
  <2> QED
    BY <2>1, <2>5, <2>6
<1>7. CASE DropEnvelope
  <2>0. PICK h, m : h = Head(submissions) /\ m = Solo(Head(submissions), Failed(0))
    OBVIOUS
  <2>1. h \in Id /\ Enveloped(h) /\ steps' = After(<<m>>) /\ UNCHANGED <<accounts, statement>>
    BY <1>3, <1>7, <2>0, HeadLeaves, IInvParts DEF DropEnvelope, Send
  <2>2. /\ m \in [Id -> Update] /\ m[h] = Failed(0) /\ (q # h => m[q] = Empty)
    BY <2>0, <2>1, SoloFacts, FailedFacts
  <2>3. Unknown(h) /\ 0 \in 0..MaxTokens
    BY <2>1, IInvParts, ContractAssumption DEF Duties
  <2>4. Waiting(q) => Moves(q, m)
    <3>1. CASE q = h
      BY <1>1, <1>2, <2>1, <2>2, <2>3, <3>1 DEF Moves, Unknown, Quiet, NoAccount
    <3>2. CASE q # h
      BY <1>1, <1>2, <2>1, <2>2, <3>2 DEF Moves
    <3> QED
      BY <3>1, <3>2
  <2> QED
    BY <1>1, <1>2, <2>1, <2>4, MoveUnderway, DeliveredKept DEF Stream, Waiting
<1> QED
  BY <1>4, <1>5, <1>6, <1>7

\* So do the deferred finishes.
LEMMA DeferredStream ==
    ASSUME IInv, NEW q \in Id, Stream(q), NEW r \in Id, SendDeferred(r) \/ DropDeferred(r)
    PROVE  Stream(q)'
<1> USE DEF front, engine
<1>1. UNCHANGED <<streams, bridge, out, accounts, statement>>
  BY DEF SendDeferred, DropDeferred
<1>2. Waiting(q) => bridge = "up" /\ Underway(q)
  BY IInvParts DEF Duties, Streaming, Stream
<1>3. deferred[r] \in Update /\ deferred[r] # Empty
  BY IInvParts DEF TypeOK, SendDeferred, DropDeferred
<1>4. accounts[r].state = "closed" /\ deferred[r].term = "finished" /\ statement[r] = Empty
  BY <1>3, IInvParts DEF Duties, DeferredDuty
<1>5. PICK u \in Update : /\ deferred' = [deferred EXCEPT ![r] = Empty]
                          /\ steps' = After(<<Solo(r, u)>>) /\ u.term # "none"
                          /\ u.toks = deferred[r].toks /\ u.sched = deferred[r].sched
                          /\ u.meta = deferred[r].meta /\ u.count = deferred[r].count
  <2>1. CASE SendDeferred(r)
    BY <1>3, <1>4, <2>1 DEF SendDeferred, Send
  <2>2. CASE DropDeferred(r)
    <3>1. PICK u : u = [deferred[r] EXCEPT !.term = "failed"]
      OBVIOUS
    <3>2. /\ u \in Update /\ u.term = "failed"
          /\ u.toks = deferred[r].toks /\ u.sched = deferred[r].sched
          /\ u.meta = deferred[r].meta /\ u.count = deferred[r].count
      BY <1>3, <3>1 DEF Update, Terminals
    <3> QED
      BY <2>2, <3>1, <3>2 DEF DropDeferred, Send
  <2> QED
    BY <2>1, <2>2
<1>6. PICK m : m = Solo(r, u)
  OBVIOUS
<1>7. m \in [Id -> Update] /\ m[r] = u /\ \A p \in Id \ {r} : m[p] = Empty
  BY <1>6, SoloFacts
<1>8. Waiting(q) => Moves(q, m)
  <2>1. CASE q = r
    <3>1. deferred'[r] = Empty
      BY <1>5, IInvParts DEF TypeOK
    <3> QED
      BY <1>1, <1>2, <1>3, <1>4, <1>5, <1>6, <1>7, <2>1, <3>1 DEF Moves
  <2>2. CASE q # r
    <3>1. deferred'[q] = deferred[q]
      BY <1>5, <2>2, IInvParts DEF TypeOK
    <3> QED
      BY <1>1, <1>2, <1>5, <1>6, <1>7, <2>2, <3>1 DEF Moves
  <2> QED
    BY <2>1, <2>2
<1> QED
  BY <1>1, <1>2, <1>8, MoveUnderway, DeliveredKept DEF Stream, Waiting

\* The bridge's own steps, but for the dispatch, keep the second invariant.
LEMMA BridgeStream ==
    ASSUME IInv, IInv', NEW q \in Id, Stream(q),
           \/ \E n \in Name : Add(n) \/ Abort(n)
           \/ \E how \in {"dead", "shutdown"} : EndLoop(how)
    PROVE  Stream(q)'
<1> USE DEF front, engine
<1>0. TypeOK /\ TypeOK' /\ UNCHANGED <<accounts, statement, deferred>>
  BY IInvParts DEF IInv, Add, Abort, EndLoop
<1>1. ASSUME NEW n \in Name, Add(n)
      PROVE  Stream(q)'
  <2>0. PICK r, m : r = nextId + 1 /\ m = Solo(nextId + 1, Failed(0))
    OBVIOUS
  <2>1. /\ bridge = "up" /\ nextId < MaxRequests /\ UNCHANGED <<bridge, out>>
        /\ streams' = [streams EXCEPT ![r] = NewStream(n)]
        /\ steps' = After(<<m>>) \/ steps' = steps
    BY <1>1, <2>0 DEF Add
  <2>2. r \in Id /\ r > nextId
    BY <2>0, <2>1, IInvParts, ContractAssumption DEF Id
  <2>3. m \in [Id -> Update] /\ m[r] = Failed(0) /\ (q # r => m[q] = Empty)
    BY <2>0, <2>2, SoloFacts, FailedFacts
  <2>4. Delivered(q)'
    BY <1>0, <2>1, DeliveredKept DEF Stream
  <2>5. CASE q = r
    <3>1. Unknown(q) /\ out[q] = Silent
      BY <2>2, <2>5, IInvParts DEF Duties, Undrawn
    <3>2. streams'[q].sched = "none" /\ ~streams'[q].meta
      BY <1>0, <2>1, <2>2, <2>5 DEF TypeOK, NewStream
    <3>3. /\ Failed(0).toks = <<>> /\ Failed(0).term # "finished" /\ ~Failed(0).sched
          /\ ~Failed(0).meta /\ Failed(0).count = 0
      BY DEF Failed, Empty
    <3>4. \A i \in 1..Len(steps') : steps'[i][q] = Empty \/ steps'[i][q] = Failed(0)
      <4>1. \A i \in 1..Len(steps) : steps[i][q] = Empty
        BY <3>1 DEF Unknown, Quiet
      <4>2. CASE steps' = steps
        BY <4>1, <4>2
      <4>3. CASE steps' = After(<<m>>)
        <5>1. /\ Len(steps) \in Nat /\ Len(steps') = Len(steps) + 1
              /\ \A i \in 1..Len(steps) : steps'[i] = steps[i]
              /\ steps'[Len(steps) + 1] = m
          BY <2>1, <2>3, <4>3, SendFacts, IInvParts
        <5>2. \A i \in 1..Len(steps') : i \in 1..Len(steps) \/ i = Len(steps) + 1
          BY <5>1
        <5> QED
          BY <2>3, <2>5, <4>1, <5>1, <5>2
      <4> QED
        BY <2>1, <4>2, <4>3
    <3>5. Fresh(q)'
      BY <1>0, <2>1, <3>1, <3>2, <3>3, <3>4, EmptyFacts DEF Fresh, Unknown, Quiet, NoAccount
    <3>6. (TypeOK /\ Fresh(q) => Underway(q))'
      BY FreshUnderway, PTL
    <3> QED
      BY <1>0, <2>4, <3>5, <3>6 DEF Stream
  <2>6. CASE q # r
    <3>1. streams'[q] = streams[q]
      BY <1>0, <2>1, <2>6 DEF TypeOK
    <3>2. CASE steps' = steps
      BY <1>0, <2>1, <2>4, <3>1, <3>2, UnderwayKept DEF Stream, Waiting
    <3>3. CASE steps' = After(<<m>>)
      <4>1. Moves(q, m)
        BY <1>0, <2>1, <2>3, <2>6, <3>1, <3>3 DEF Moves
      <4> QED
        BY <2>4, <3>1, <4>1, MoveUnderway DEF Stream, Waiting
    <3> QED
      BY <2>1, <3>2, <3>3
  <2> QED
    BY <2>5, <2>6
<1>2. ASSUME NEW n \in Name, Abort(n)
      PROVE  Stream(q)'
  <2>1. UNCHANGED <<steps, out>> /\ streams' = [streams EXCEPT ![names[n]] = NoStream]
    BY <1>2 DEF Abort
  <2>2. streams'[q] = streams[q] \/ streams'[q] = NoStream
    BY <1>0, <2>1 DEF TypeOK
  <2> QED
    BY <1>0, <2>1, <2>2, UnderwayKept, DeliveredKept DEF Stream, Waiting
<1>3. ASSUME NEW how \in {"dead", "shutdown"}, EndLoop(how)
      PROVE  Stream(q)'
  <2>1. ~Waiting(q)'
    BY <1>3 DEF EndLoop, Waiting
  <2>2. out'[q] = out[q] \/ (Waiting(q) /\ out'[q] = [out[q] EXCEPT !.end = how])
    BY <1>3 DEF EndLoop
  <2>3. CASE out'[q] = out[q]
    BY <1>0, <2>1, <2>3, DeliveredKept DEF Stream
  <2>4. CASE Waiting(q) /\ out'[q] = [out[q] EXCEPT !.end = how]
    <3>1. out[q] \in Outcome
      BY <1>0, FieldTypes
    <3>2. out'[q].toks = out[q].toks /\ out'[q].sched = out[q].sched /\ out'[q].end # "finished"
      BY <2>4, <3>1 DEF Outcome
    <3>3. out[q].end = "no"
      BY <2>4, IInvParts DEF Duties, Streaming
    <3> QED
      BY <2>1, <3>2, <3>3 DEF Stream, Delivered, Sequenced
  <2> QED
    BY <2>2, <2>3, <2>4
<1> QED
  BY <1>1, <1>2, <1>3

\* Tokens that continue a client's sequence extend it.
LEMMA RunJoin ==
    ASSUME NEW t \in Seq(Token), NEW v \in Seq(Token), NEW r, Run(t, r, 0), Run(v, r, Len(t))
    PROVE  /\ Run(t \o v, r, 0) /\ Len(t \o v) = Len(t) + Len(v)
           /\ t \o v # <<>> => t # <<>> \/ v # <<>>
<1>1. /\ Len(t) \in Nat /\ Len(v) \in Nat /\ Len(t \o v) = Len(t) + Len(v)
      /\ \A i \in 1..Len(t) : (t \o v)[i] = t[i]
      /\ \A i \in 1..Len(v) : (t \o v)[Len(t) + i] = v[i]
      /\ t \o v \in Seq(Token)
  BY ConcatProperties, LenProperties
<1>2. ASSUME NEW k \in 1..Len(t \o v)
      PROVE  (t \o v)[k] = <<r, 0 + k>>
  <2>1. CASE k \in 1..Len(t)
    BY <1>1, <2>1 DEF Run
  <2>2. CASE k \notin 1..Len(t)
    <3>1. PICK j \in 1..Len(v) : k = Len(t) + j
      <4>1. k - Len(t) \in 1..Len(v) /\ k = Len(t) + (k - Len(t))
        BY <1>1, <2>2
      <4> QED
        BY <4>1
    <3>2. v[j] = <<r, Len(t) + j>>
      BY DEF Run
    <3>3. 0 + k = Len(t) + j
      BY <1>1, <3>1
    <3> QED
      BY <1>1, <3>1, <3>2, <3>3
  <2> QED
    BY <2>1, <2>2
<1>3. Run(t \o v, r, 0)
  BY <1>2 DEF Run
<1>4. t = <<>> /\ v = <<>> => t \o v = <<>>
  BY <1>1, EmptySeq
<1> QED
  BY <1>1, <1>3, <1>4

\* While a stream has not finished, its client has tokens only; a sentinel at
\* the end of one that has leaves it in sequence.
LEMMA PlainRun ==
    ASSUME NEW t \in Seq(Token), NEW r, NEW e, e # "finished"
    PROVE  Sequenced(t, r, e) <=> Run(t, r, 0)
<1>1. \A k \in 1..Len(t) : 0 + k = k
  BY LenProperties
<1> QED
  BY <1>1 DEF Sequenced, Run

LEMMA SuffixJoin ==
    ASSUME NEW t \in Seq(Token), NEW r \in Id, Run(t, r, 0), NEW s, NEW e,
           s = <<>> \/ (s = <<Sentinel>> /\ e = "finished")
    PROVE  /\ Sequenced(t \o s, r, e)
           /\ Len(t \o s) = Len(t) + (IF Suffixed(t \o s) THEN 1 ELSE 0)
           /\ s = <<>> => t \o s = t
<1>0. Len(t) \in Nat /\ \A k \in 1..Len(t) : t[k] = <<r, k>> /\ t[k] # Sentinel
  <2>1. Len(t) \in Nat /\ \A k \in 1..Len(t) : t[k] = <<r, 0 + k>> /\ 0 + k = k
    BY LenProperties DEF Run
  <2> QED
    BY <2>1 DEF Id, Sentinel, NoId
<1>1. CASE s = <<>>
  <2>1. t \o s = t
    BY <1>1, ConcatEmptySeq
  <2>2. ~Suffixed(t)
    <3>1. t # <<>> => Len(t) \in 1..Len(t)
      BY <1>0, EmptySeq
    <3> QED
      BY <1>0, <3>1 DEF Suffixed
  <2> QED
    BY <1>0, <2>1, <2>2 DEF Sequenced
<1>2. CASE s = <<Sentinel>> /\ e = "finished"
  <2>1. Sentinel \in Token
    BY DEF Token
  <2>2. PICK w : w = t \o s
    OBVIOUS
  <2>3. /\ Len(w) = Len(t) + 1 /\ \A i \in 1..Len(t) : w[i] = t[i]
        /\ w[Len(t) + 1] = Sentinel /\ w \in Seq(Token)
    BY <1>2, <2>1, <2>2, AppendOne
  <2>4. \A k \in 1..Len(w) : k \in 1..Len(t) \/ k = Len(w)
    BY <1>0, <2>3
  <2>5. w # <<>>
    BY <1>0, <2>3
  <2>6. s # <<>>
    BY <1>2
  <2> QED
    BY <1>0, <1>2, <2>2, <2>3, <2>4, <2>5, <2>6 DEF Sequenced, Suffixed
<1> QED
  BY <1>1, <1>2

\* What reduce_update does, field by field.
LEMMA Reception ==
    ASSUME NEW s \in StreamState, NEW u \in Update, NEW o \in Outcome
    PROVE  /\ Noting(s, u).sched = (IF u.sched THEN "held" ELSE s.sched)
           /\ Noting(s, u).meta = (s.meta \/ u.meta)
           /\ Shipped(s, u).sched = (IF Noting(s, u).sched = "held" THEN "shipped"
                                     ELSE Noting(s, u).sched)
           /\ Shipped(s, u).meta = FALSE
           /\ Received(o, s, u).sched = o.sched + (IF Noting(s, u).sched = "held" THEN 1 ELSE 0)
           /\ u.echo = "bad" => /\ Received(o, s, u).toks = o.toks
                                /\ Received(o, s, u).end = "error"
           /\ u.echo # "bad" => /\ Received(o, s, u).toks = o.toks \o u.toks \o Suffix(u)
                                /\ Received(o, s, u).meta = (o.meta \/ Noting(s, u).meta)
                                /\ Received(o, s, u).end = (IF u.term = "none" THEN o.end ELSE u.term)
<1>1. Noting(s, u).sched = (IF u.sched THEN "held" ELSE s.sched) /\ Noting(s, u).meta = (s.meta \/ u.meta)
  BY DEF Noting, StreamState
<1>2. Noting(s, u) \in StreamState
  BY BridgeTypes
<1>3. /\ Shipped(s, u).sched = (IF Noting(s, u).sched = "held" THEN "shipped" ELSE Noting(s, u).sched)
      /\ Shipped(s, u).meta = FALSE
  BY <1>2 DEF Shipped, StreamState
<1>4. /\ Received(o, s, u).sched = o.sched + (IF Noting(s, u).sched = "held" THEN 1 ELSE 0)
      /\ Received(o, s, u).toks = (IF u.echo = "bad" THEN o.toks ELSE o.toks \o u.toks \o Suffix(u))
      /\ Received(o, s, u).meta = (o.meta \/ (Noting(s, u).meta /\ u.echo # "bad"))
      /\ Received(o, s, u).end = (IF u.echo = "bad" THEN "error"
                                  ELSE IF u.term = "none" THEN o.end ELSE u.term)
  BY DEF Received
<1> QED
  BY <1>1, <1>3, <1>4

\* What the client of a stream that waits has after the next step: its tokens
\* in sequence, the admission with them.
LEMMA NextDelivery ==
    ASSUME IInv, NEW q \in Id, Waiting(q), Delivered(q), Underway(q), steps # <<>>,
           NEW u, u = steps[1][q], NEW o, o = Received(out[q], streams[q], u)
    PROVE  /\ Sequenced(o.toks, q, o.end) /\ o.sched \in {0, 1} /\ (o.toks # <<>> => o.sched = 1)
           /\ u.sched => streams[q].sched = "none"
           /\ u.echo # "bad" =>
                 /\ Len(o.toks) = Len(out[q].toks) + Len(u.toks) + (IF Suffixed(o.toks) THEN 1 ELSE 0)
                 /\ u.term = "none" => Len(o.toks) = Len(out[q].toks) + Len(u.toks)
<1>0. /\ Len(steps) \in Nat /\ 1 \in 1..Len(steps) /\ u \in Update /\ out[q] \in Outcome
      /\ streams[q] \in StreamState /\ out[q].toks \in Seq(Token) /\ u.toks \in Seq(Token)
  <2>1. Len(steps) \in Nat /\ 1 \in 1..Len(steps)
    BY IInvParts, EmptySeq, LenProperties
  <2> QED
    BY <2>1, FieldTypes, IInvParts
<1>1. Run(u.toks, q, Len(out[q].toks))
  BY <1>0 DEF Underway, Chain
<1>2. u.sched => streams[q].sched = "none"
  BY <1>0 DEF Underway, ScheduledOnce
<1>3. out[q].sched = (IF streams[q].sched = "shipped" THEN 1 ELSE 0)
  BY DEF Underway, ScheduledOnce
<1>4. Speaks(u) => streams[q].sched # "none" \/ u.sched
  BY <1>0 DEF Underway, Announced
<1>5. streams[q].sched \in {"none", "held", "shipped"}
  BY <1>0 DEF StreamState
<1>6. o.sched = out[q].sched + (IF u.sched \/ streams[q].sched = "held" THEN 1 ELSE 0)
  <2>1. /\ Noting(streams[q], u).sched = (IF u.sched THEN "held" ELSE streams[q].sched)
        /\ o.sched = out[q].sched + (IF Noting(streams[q], u).sched = "held" THEN 1 ELSE 0)
    BY <1>0, Reception
  <2>2. Noting(streams[q], u).sched = "held" <=> u.sched \/ streams[q].sched = "held"
    BY <2>1
  <2> QED
    BY <2>1, <2>2
<1>7. /\ o.sched \in {0, 1}
      /\ out[q].toks # <<>> \/ Speaks(u) => o.sched = 1
  <2>1. out[q].toks # <<>> => out[q].sched = 1
    BY DEF Delivered
  <2>2. CASE streams[q].sched = "none" /\ ~u.sched
    BY <1>3, <1>4, <1>6, <2>1, <2>2
  <2>3. CASE u.sched \/ streams[q].sched = "held"
    BY <1>2, <1>3, <1>6, <2>3
  <2>4. CASE streams[q].sched = "shipped"
    BY <1>2, <1>3, <1>6, <2>4
  <2> QED
    BY <1>5, <2>2, <2>3, <2>4
<1>8. out[q].end = "no" /\ Run(out[q].toks, q, 0)
  <2>1. out[q].end = "no"
    BY IInvParts DEF Duties, Streaming
  <2> QED
    BY <1>0, <2>1, PlainRun DEF Delivered
<1>9. CASE u.echo = "bad"
  <2>1. o.toks = out[q].toks /\ o.end = "error"
    BY <1>0, <1>9, Reception
  <2>2. Sequenced(o.toks, q, o.end)
    BY <1>0, <1>8, <2>1, PlainRun
  <2> QED
    BY <1>2, <1>7, <1>9, <2>1, <2>2
<1>10. CASE u.echo # "bad"
  <2>1. PICK t : t = out[q].toks \o u.toks
    OBVIOUS
  <2>2. o.toks = t \o Suffix(u) /\ o.end = (IF u.term = "none" THEN out[q].end ELSE u.term)
    BY <1>0, <1>10, <2>1, Reception
  <2>3. /\ t \in Seq(Token) /\ Run(t, q, 0) /\ Len(t) = Len(out[q].toks) + Len(u.toks)
        /\ t # <<>> => out[q].toks # <<>> \/ u.toks # <<>>
    <3>1. Run(t, q, 0) /\ Len(t) = Len(out[q].toks) + Len(u.toks)
          /\ (t # <<>> => out[q].toks # <<>> \/ u.toks # <<>>)
      BY <1>0, <1>1, <1>8, <2>1, RunJoin
    <3>2. t \in Seq(Token)
      BY <1>0, <2>1, ConcatProperties
    <3> QED
      BY <3>1, <3>2
  <2>4. /\ Suffix(u) = <<>> \/ (Suffix(u) = <<Sentinel>> /\ o.end = "finished")
        /\ Suffix(u) # <<>> => u.term = "finished"
    BY <2>2 DEF Suffix
  <2>5. /\ Sequenced(o.toks, q, o.end)
        /\ Len(o.toks) = Len(t) + (IF Suffixed(o.toks) THEN 1 ELSE 0)
        /\ Suffix(u) = <<>> => o.toks = t
    <3>1. PICK s, e : s = Suffix(u) /\ e = o.end
      OBVIOUS
    <3>2. s = <<>> \/ (s = <<Sentinel>> /\ e = "finished")
      BY <2>4, <3>1
    <3>3. /\ Sequenced(t \o s, q, e) /\ (s = <<>> => t \o s = t)
          /\ Len(t \o s) = Len(t) + (IF Suffixed(t \o s) THEN 1 ELSE 0)
      BY <2>3, <3>2, SuffixJoin
    <3> QED
      BY <2>2, <3>1, <3>3
  <2>6. o.toks # <<>> => out[q].toks # <<>> \/ Speaks(u)
    BY <2>3, <2>4, <2>5 DEF Speaks
  <2>7. u.term = "none" => Len(o.toks) = Len(t)
    BY <2>4, <2>5
  <2> QED
    BY <1>2, <1>7, <2>3, <2>5, <2>6, <2>7
<1> QED
  BY <1>9, <1>10

\* The chain of tokens after its head was delivered.
LEMMA DispatchChain ==
    ASSUME IInv, NEW q \in Id, Chain(q), steps # <<>>,
           Len(steps') = Len(steps) - 1, \A i \in 1..Len(steps') : steps'[i] = steps[i + 1],
           accounts'[q] = accounts[q], statement'[q] = statement[q], deferred'[q] = deferred[q],
           Len(out'[q].toks) = Len(out[q].toks) + Len(steps[1][q].toks)
    PROVE  Chain(q)'
<1>0. Len(steps) \in Nat \ {0}
  BY IInvParts, EmptySeq, LenProperties
<1>1. PICK pos \in [1..(Len(steps) + 1) -> Nat] :
        /\ pos[1] = Len(out[q].toks)
        /\ \A i \in 1..Len(steps) :
              /\ Run(steps[i][q].toks, q, pos[i])
              /\ pos[i + 1] = pos[i] + Len(steps[i][q].toks)
              /\ steps[i][q].term = "finished" =>
                     pos[i + 1] = accounts[q].tally /\ steps[i][q].count = accounts[q].tally
        /\ Run(statement[q].toks, q, pos[Len(steps) + 1])
        /\ Run(deferred[q].toks, q, pos[Len(steps) + 1])
        /\ Tallied(q) => accounts[q].tally =
              pos[Len(steps) + 1] + Len(statement[q].toks) + Len(deferred[q].toks)
  BY DEF Chain
<1>2. Tallied(q)' <=> Tallied(q)
  BY DEF Tallied, IsOpen
<1> DEFINE new == [i \in 1..Len(steps) |-> pos[i + 1]]
<1>3. new \in [1..Len(steps) -> Nat] /\ \A i \in 1..Len(steps) : new[i] = pos[i + 1]
  BY <1>0
<1>4. PICK w : w = new
  OBVIOUS
<1> HIDE DEF new
<1>5. /\ w \in [1..(Len(steps') + 1) -> Nat]
      /\ w[Len(steps') + 1] = pos[Len(steps) + 1] /\ w[1] = pos[2]
  <2>1. Len(steps') + 1 = Len(steps) /\ 1 \in 1..Len(steps) /\ Len(steps) \in 1..Len(steps)
        /\ 1 + 1 = 2
    BY <1>0
  <2> QED
    BY <1>3, <1>4, <2>1
<1>6. w[1] = Len(out'[q].toks)
  <2>1. 1 \in 1..Len(steps) /\ 1 + 1 = 2
    BY <1>0
  <2> QED
    BY <1>1, <1>5, <2>1
<1>7. ASSUME NEW i \in 1..Len(steps')
      PROVE  /\ Run(steps'[i][q].toks, q, w[i])
             /\ w[i + 1] = w[i] + Len(steps'[i][q].toks)
             /\ steps'[i][q].term = "finished" =>
                    w[i + 1] = accounts'[q].tally /\ steps'[i][q].count = accounts'[q].tally
  <2>1. /\ i \in 1..Len(steps) /\ i + 1 \in 1..Len(steps)
    BY <1>0
  <2>2. w[i] = pos[i + 1] /\ w[i + 1] = pos[(i + 1) + 1] /\ steps'[i] = steps[i + 1]
    BY <1>3, <1>4, <2>1
  <2> QED
    BY <1>1, <2>1, <2>2
<1> QED
  BY <1>1, <1>2, <1>5, <1>6, <1>7 DEF Chain

\* dispatch_step to a stream that goes on.
LEMMA DispatchGoesOn ==
    ASSUME IInv, NEW q \in Id, Waiting(q), Delivered(q), Underway(q), DispatchStep,
           ~Terminated(steps[1][q])
    PROVE  Underway(q)' /\ Delivered(q)'
<1> USE DEF front, engine
<1>0. PICK m, u : m = Head(steps) /\ u = steps[1][q]
  OBVIOUS
<1>1. /\ m = steps[1] /\ m[q] = u /\ Len(steps) \in Nat \ {0} /\ Len(steps') = Len(steps) - 1
      /\ steps # <<>> /\ \A i \in 1..Len(steps') : steps'[i] = steps[i + 1]
      /\ streams'[q] = IF HasOutput(u) THEN Shipped(streams[q], u)
                       ELSE IF u # Empty THEN Noting(streams[q], u) ELSE streams[q]
      /\ out'[q] = IF HasOutput(u) THEN Received(out[q], streams[q], u) ELSE out[q]
      /\ UNCHANGED <<accounts, statement, deferred>>
  <2>1. m = steps[1]
    BY <1>0, DispatchView
  <2> QED
    BY <1>0, <2>1, DispatchView, SMTT(60) DEF DispatchStep
<1>2. u.echo # "bad" /\ u.term = "none"
  BY <1>0 DEF Terminated
<1>3. /\ u \in Update /\ out[q] \in Outcome /\ streams[q] \in StreamState /\ 1 \in 1..Len(steps)
  BY <1>0, <1>1, FieldTypes, IInvParts
<1>4. out[q].end = "no"
  BY IInvParts DEF Duties, Streaming
\* the shift
<1>5. \A i \in 1..Len(steps') : i + 1 \in 1..Len(steps) /\ steps'[i] = steps[i + 1]
  BY <1>1
<1>6. \A i \in 1..Len(steps) : i = 1 \/ (i - 1 \in 1..Len(steps') /\ steps'[i - 1] = steps[i])
  BY <1>1
\* what the client and the stream have now
<1>7. PICK o : o = Received(out[q], streams[q], u)
  OBVIOUS
<1>8. /\ Sequenced(o.toks, q, o.end) /\ o.sched \in {0, 1} /\ (o.toks # <<>> => o.sched = 1)
      /\ u.sched => streams[q].sched = "none"
      /\ Len(o.toks) = Len(out[q].toks) + Len(u.toks)
  <2>1. steps # <<>>
    BY <1>1
  <2>2. /\ Sequenced(o.toks, q, o.end) /\ o.sched \in {0, 1} /\ (o.toks # <<>> => o.sched = 1)
        /\ u.sched => streams[q].sched = "none"
        /\ u.echo # "bad" =>
              /\ Len(o.toks) = Len(out[q].toks) + Len(u.toks) + (IF Suffixed(o.toks) THEN 1 ELSE 0)
              /\ u.term = "none" => Len(o.toks) = Len(out[q].toks) + Len(u.toks)
    BY <1>0, <1>7, <2>1, NextDelivery
  <2> QED
    BY <1>2, <2>2
<1>9. ~HasOutput(u) => u.toks = <<>> /\ Len(u.toks) = 0
  BY DEF HasOutput
<1>10. /\ Sequenced(out'[q].toks, q, out'[q].end) /\ out'[q].sched \in {0, 1}
       /\ out'[q].toks # <<>> => out'[q].sched = 1
       /\ Len(out'[q].toks) = Len(out[q].toks) + Len(u.toks)
  <2>1. Len(out[q].toks) \in Nat
    BY FieldTypes, IInvParts
  <2>2. CASE HasOutput(u)
    BY <1>1, <1>7, <1>8, <2>2
  <2>3. CASE ~HasOutput(u)
    <3>1. out'[q] = out[q] /\ Len(u.toks) = 0
      BY <1>1, <1>9, <2>3
    <3>2. Len(out[q].toks) = Len(out[q].toks) + Len(u.toks)
      BY <2>1, <3>1
    <3> QED
      BY <3>1, <3>2 DEF Delivered
  <2> QED
    BY <2>2, <2>3
<1>11. out'[q].end = out[q].end
  <2>1. o.end = out[q].end
    BY <1>2, <1>3, <1>7, Reception
  <2> QED
    BY <1>1, <1>7, <2>1
<1>13. Delivered(q)'
  BY <1>4, <1>10, <1>11 DEF Delivered
<1>14. Chain(q)'
  BY <1>0, <1>1, <1>10, DispatchChain DEF Underway
<1>15. Counted(q)'
  BY <1>1, <1>5 DEF Underway, Counted
<1>16. streams[q].sched \in {"none", "held", "shipped"}
  BY <1>3 DEF StreamState
<1>17. PICK n : n = Noting(streams[q], u)
  OBVIOUS
<1>18. /\ n.sched = (IF u.sched THEN "held" ELSE streams[q].sched)
       /\ n.meta = (streams[q].meta \/ u.meta)
       /\ Shipped(streams[q], u).sched = (IF n.sched = "held" THEN "shipped" ELSE n.sched)
       /\ Shipped(streams[q], u).meta = FALSE
       /\ o.sched = out[q].sched + (IF n.sched = "held" THEN 1 ELSE 0)
       /\ o.meta = (out[q].meta \/ n.meta)
  BY <1>2, <1>3, <1>7, <1>17, Reception
<1>19. out[q].sched = (IF streams[q].sched = "shipped" THEN 1 ELSE 0)
  BY DEF Underway, ScheduledOnce
<1>20. /\ streams'[q].sched # "none" <=> streams[q].sched # "none" \/ u.sched
       /\ out'[q].sched = (IF streams'[q].sched = "shipped" THEN 1 ELSE 0)
  <2>1. CASE HasOutput(u)
    <3>1. streams'[q].sched = (IF n.sched = "held" THEN "shipped" ELSE n.sched)
          /\ out'[q].sched = out[q].sched + (IF n.sched = "held" THEN 1 ELSE 0)
      BY <1>1, <1>7, <1>18, <2>1
    <3>2. CASE u.sched \/ streams[q].sched = "held"
      <4>1. n.sched = "held" /\ out[q].sched = 0
        BY <1>8, <1>18, <1>19, <3>2
      <4> QED
        BY <3>1, <3>2, <4>1
    <3>3. CASE ~u.sched /\ streams[q].sched # "held"
      <4>1. n.sched = streams[q].sched
        BY <1>18, <3>3
      <4> QED
        BY <1>19, <3>1, <3>3, <4>1
    <3> QED
      BY <3>2, <3>3
  <2>2. CASE ~HasOutput(u) /\ u # Empty
    <3>1. streams'[q] = n /\ out'[q] = out[q]
      BY <1>1, <1>17, <2>2
    <3> QED
      BY <1>8, <1>18, <1>19, <3>1
  <2>3. CASE u = Empty
    <3>1. streams'[q] = streams[q] /\ out'[q] = out[q] /\ ~u.sched
      BY <1>1, <2>3, EmptyFacts
    <3> QED
      BY <1>19, <3>1
  <2> QED
    BY <2>1, <2>2, <2>3
<1>21. (out'[q].meta \/ streams'[q].meta) <=> (out[q].meta \/ streams[q].meta \/ u.meta)
  <2>1. CASE HasOutput(u)
    BY <1>1, <1>7, <1>18, <2>1
  <2>2. CASE ~HasOutput(u) /\ u # Empty
    BY <1>1, <1>17, <1>18, <2>2
  <2>3. CASE u = Empty
    BY <1>1, <2>3, EmptyFacts
  <2> QED
    BY <2>1, <2>2, <2>3
<1>22. ScheduledOnce(q)'
  <2>1. u.sched => ~statement[q].sched /\ ~deferred[q].sched
                   /\ \A j \in 1..Len(steps) : j # 1 => ~steps[j][q].sched
    BY <1>0, <1>3 DEF Underway, ScheduledOnce
  <2>2. streams'[q].sched # "none" =>
           ~statement'[q].sched /\ ~deferred'[q].sched
           /\ \A i \in 1..Len(steps') : ~steps'[i][q].sched
    <3>1. \A i \in 1..Len(steps') : i + 1 # 1
      BY <1>1
    <3> QED
      BY <1>1, <1>5, <1>20, <2>1, <3>1 DEF Underway, ScheduledOnce
  <2>3. ASSUME NEW i \in 1..Len(steps'), steps'[i][q].sched
        PROVE  /\ ~statement'[q].sched /\ ~deferred'[q].sched
               /\ \A j \in 1..Len(steps') : j # i => ~steps'[j][q].sched
    <3>1. i + 1 \in 1..Len(steps) /\ steps[i + 1][q].sched
      BY <1>5, <2>3
    <3>2. /\ ~statement[q].sched /\ ~deferred[q].sched
          /\ \A j \in 1..Len(steps) : j # i + 1 => ~steps[j][q].sched
      BY <3>1 DEF Underway, ScheduledOnce
    <3>3. \A j \in 1..Len(steps') : j # i => j + 1 # i + 1
      OBVIOUS
    <3> QED
      BY <1>1, <1>5, <3>2, <3>3
  <2>4. accounts'[q].state = "queued" => streams'[q].sched = "none"
    <3>1. accounts[q].state = "queued" => steps[1][q] = Empty /\ streams[q].sched = "none"
      BY <1>3, IInvParts DEF Duties, AccountDuty, Quiet, Underway, ScheduledOnce
    <3> QED
      BY <1>0, <1>1, <1>20, <3>1, EmptyFacts
  <2> QED
    BY <1>20, <2>2, <2>3, <2>4 DEF ScheduledOnce
<1>23. ASSUME NEW i \in 1..Len(steps), \E j \in 1..i : steps[j][q].sched
       PROVE  streams'[q].sched # "none" \/ \E j \in 1..(i - 1) : steps'[j][q].sched
  <2>1. PICK j \in 1..i : steps[j][q].sched
    BY <1>23
  <2>2. CASE j = 1
    BY <1>0, <1>20, <2>1, <2>2
  <2>3. CASE j # 1
    <3>1. j \in 1..Len(steps) /\ j - 1 \in 1..(i - 1)
      BY <1>1, <2>3
    <3> QED
      BY <1>6, <2>1, <2>3, <3>1
  <2> QED
    BY <2>2, <2>3
<1>24. Announced(q)'
  <2>1. ASSUME NEW i \in 1..Len(steps'), Speaks(steps'[i][q])
        PROVE  streams'[q].sched # "none" \/ \E j \in 1..i : steps'[j][q].sched
    <3>1. i + 1 \in 1..Len(steps) /\ Speaks(steps[i + 1][q]) /\ (i + 1) - 1 = i
      BY <1>5, <2>1
    <3>2. streams[q].sched # "none" \/ \E j \in 1..(i + 1) : steps[j][q].sched
      BY <3>1 DEF Underway, Announced
    <3> QED
      BY <1>20, <1>23, <3>1, <3>2
  <2>2. (\E j \in 1..Len(steps) : steps[j][q].sched) =>
           streams'[q].sched # "none" \/ \E j \in 1..Len(steps') : steps'[j][q].sched
    BY <1>1, <1>23
  <2>3. (Active(q)' \/ Speaks(statement'[q]) \/ Speaks(deferred'[q])) =>
           \/ streams'[q].sched # "none" \/ \E j \in 1..Len(steps') : steps'[j][q].sched
           \/ statement'[q].sched \/ deferred'[q].sched
    BY <1>1, <1>20, <2>2 DEF Underway, Announced, Active
  <2> QED
    BY <2>1, <2>3 DEF Announced
<1>25. FactsKept(q)'
  <2>1. (\E i \in 1..Len(steps) : steps[i][q].meta) <=>
           u.meta \/ \E i \in 1..Len(steps') : steps'[i][q].meta
    BY <1>0, <1>3, <1>5, <1>6
  <2>2. FactsUnderWay(q)' <=> FactsUnderWay(q)
    BY <1>1, <1>21, <2>1 DEF FactsUnderWay
  <2>3. (\E i \in 1..Len(steps') : steps'[i][q].term = "finished") =>
           \E i \in 1..Len(steps) : steps[i][q].term = "finished"
    BY <1>5
  <2>4. Tallied(q)' <=> Tallied(q)
    BY <1>1 DEF Tallied, IsOpen
  <2> QED
    BY <1>1, <2>2, <2>3, <2>4 DEF Underway, FactsKept
<1> QED
  BY <1>13, <1>14, <1>15, <1>22, <1>24, <1>25 DEF Underway

\* dispatch_step keeps the second invariant: a stream that goes on, and the
\* client of one that ends here.
LEMMA DispatchStream ==
    ASSUME IInv, NEW q \in Id, Stream(q), DispatchStep
    PROVE  Stream(q)'
<1> USE DEF front, engine
<1>0. PICK m, u : m = Head(steps) /\ u = steps[1][q]
  OBVIOUS
<1>1. /\ m = steps[1] /\ m[q] = u /\ steps # <<>> /\ 1 \in 1..Len(steps)
      /\ UNCHANGED <<accounts, statement, deferred>>
  <2>1. m = steps[1] /\ Len(steps) \in Nat \ {0}
    BY <1>0, DispatchView
  <2> QED
    BY <1>0, <2>1 DEF DispatchStep
<1>2. CASE ~Waiting(q)
  <2>1. streams'[q] = streams[q] /\ out'[q] = out[q]
    BY <1>0, <1>2, DispatchView
  <2> QED
    BY <1>1, <1>2, <2>1, DeliveredKept DEF Stream, Waiting
<1>3. CASE Waiting(q) /\ ~Terminated(u)
  BY <1>0, <1>3, DispatchGoesOn DEF Stream
<1>4. CASE Waiting(q) /\ Terminated(u)
  <2>1. /\ streams'[q] = NoStream /\ HasOutput(u) /\ Delivered(q) /\ Underway(q)
        /\ out'[q] = Received(out[q], streams[q], u)
    <3>1. HasOutput(u)
      BY <1>4 DEF Terminated, HasOutput
    <3>2. streams'[q] = NoStream /\ out'[q] = Received(out[q], streams[q], u)
      BY <1>0, <1>1, <1>4, <3>1, DispatchView
    <3> QED
      BY <1>4, <3>1, <3>2 DEF Stream
  <2>2. PICK o : o = Received(out[q], streams[q], u)
    OBVIOUS
  <2>3. /\ Sequenced(o.toks, q, o.end) /\ o.sched \in {0, 1} /\ (o.toks # <<>> => o.sched = 1)
        /\ u.echo # "bad" =>
              Len(o.toks) = Len(out[q].toks) + Len(u.toks) + (IF Suffixed(o.toks) THEN 1 ELSE 0)
    BY <1>0, <1>1, <1>4, <2>1, <2>2, NextDelivery
  <2>4. /\ u \in Update /\ out[q] \in Outcome /\ streams[q] \in StreamState
        /\ accounts[q].noted \in BOOLEAN /\ accounts[q].tally \in Nat
    BY <1>0, <1>1, FieldTypes, IInvParts
  <2>5. ASSUME o.end = "finished"
        PROVE  /\ accounts[q].state = "closed" /\ o.meta = accounts[q].noted
               /\ Len(o.toks) = accounts[q].tally + (IF Suffixed(o.toks) THEN 1 ELSE 0)
    <3>1. u.echo # "bad" /\ u.term = "finished"
      <4>1. u.echo # "bad"
        BY <2>2, <2>4, <2>5, Reception
      <4>2. o.end = IF u.term = "none" THEN out[q].end ELSE u.term
        BY <2>2, <2>4, <4>1, Reception
      <4>3. out[q].end = "no"
        BY <1>4, IInvParts DEF Duties, Streaming
      <4> QED
        BY <2>5, <4>1, <4>2, <4>3
    <3>2. /\ accounts[q].state = "closed" /\ statement[q] = Empty /\ deferred[q] = Empty
          /\ \A j \in 1..Len(steps) : j > 1 => steps[j][q] = Empty
      BY <1>0, <1>1, <3>1, IInvParts DEF Duties, StepDuty
    <3>3. Len(out[q].toks) + Len(u.toks) = accounts[q].tally
      BY <1>0, <1>1, <2>1, <3>1 DEF Underway, Chain
    <3>5. o.meta = (out[q].meta \/ Noting(streams[q], u).meta)
          /\ Noting(streams[q], u).meta = (streams[q].meta \/ u.meta)
      BY <2>2, <2>4, <3>1, Reception
    <3>6. FactsUnderWay(q) <=> out[q].meta \/ streams[q].meta \/ u.meta
      <4>1. \A j \in 1..Len(steps) : j = 1 \/ ~steps[j][q].meta
        <5>1. \A j \in 1..Len(steps) : j = 1 \/ j > 1
          OBVIOUS
        <5> QED
          BY <3>2, <5>1, EmptyFacts
      <4> QED
        BY <1>0, <1>1, <3>2, <4>1, EmptyFacts DEF FactsUnderWay
    <3>7. FactsUnderWay(q) <=> accounts[q].noted
      BY <1>0, <1>1, <2>1, <3>1 DEF Underway, FactsKept
    <3>8. o.meta = accounts[q].noted
      <4>1. o.meta \in BOOLEAN /\ (o.meta <=> accounts[q].noted)
        BY <3>5, <3>6, <3>7
      <4> QED
        BY <2>4, <4>1
    <3> QED
      BY <2>3, <3>1, <3>2, <3>3, <3>8
  <2>6. Delivered(q)'
    BY <1>1, <2>1, <2>2, <2>3, <2>5 DEF Delivered
  <2> QED
    BY <2>1, <2>6 DEF Stream, Waiting
<1> QED
  BY <1>2, <1>3, <1>4

StreamInv == \A r \in Id : Stream(r)

\* Every step keeps the second invariant.
LEMMA StreamStep == IInv /\ IInv' /\ StreamInv /\ [Next]_vars => StreamInv'
<1> SUFFICES ASSUME IInv, IInv', StreamInv, [Next]_vars, NEW q \in Id
             PROVE  Stream(q)'
  BY DEF StreamInv
<1>0. Stream(q)
  BY DEF StreamInv
<1>1. CASE \/ Drained \/ StepReturns \/ Panic \/ DropExitGuard \/ DropReceiver \/ DriverReturns
           \/ DropHandle \/ UNCHANGED vars \/ \E r \in Id : LoseTrack(r)
  <2>1. UNCHANGED <<accounts, statement, deferred, steps, streams, out>>
    BY <1>1 DEF Drained, StepReturns, Panic, DropExitGuard, DropReceiver, DriverReturns, DropHandle,
                LoseTrack, vars, front, engine
  <2> QED
    BY <1>0, <2>1, UnderwayKept, DeliveredKept DEF Stream, Waiting
<1>2. ASSUME NEW r \in Id,
             \/ Admit(r) \/ Reject(r) \/ PushTokens(r) \/ SetFacts(r)
             \/ \E e \in Extras \cap {"good", "bad"} : EchoPrompt(r, e)
             \/ Finish(r) \/ Fail(r) \/ Retire(r) \/ DeferFinish(r)
      PROVE  Stream(q)'
  BY <1>0, <1>2, LedgerStream
<1>3. ASSUME NEW r \in Id, SendDeferred(r) \/ DropDeferred(r)
      PROVE  Stream(q)'
  BY <1>0, <1>3, DeferredStream
<1>4. CASE Register \/ Commit \/ FailAll \/ DropLedger \/ DropEnvelope
  BY <1>0, <1>4, DriverStream
<1>5. CASE \/ \E n \in Name : Add(n) \/ Abort(n)
           \/ Shutdown \/ LinkFails \/ SchedulerExited
  BY <1>0, <1>5, BridgeStream DEF Shutdown, LinkFails, SchedulerExited
<1>6. CASE DispatchStep
  BY <1>0, <1>6, DispatchStream
<1> QED
  BY <1>1, <1>2, <1>3, <1>4, <1>5, <1>6 DEF Next, Stopped

\* At the start no client has or awaits anything.
LEMMA InitStream == Init => StreamInv
<1> SUFFICES ASSUME Init, NEW q \in Id
             PROVE  Stream(q)
  BY DEF StreamInv
<1>1. ~Waiting(q)
  BY DEF Init, Waiting
<1>2. out[q].toks = <<>> /\ out[q].sched = 0 /\ out[q].end = "no" /\ Len(<<>>) = 0
  BY DEF Init, Silent
<1>3. Delivered(q)
  BY <1>2 DEF Delivered, Sequenced
<1> QED
  BY <1>1, <1>3 DEF Stream

\* The second invariant holds: whatever is between the ledger and a client that
\* waits continues what the client has, up to the ledger's tally.
THEOREM StreamsHold == Spec => []StreamInv
<1>1. Init => StreamInv
  BY InitStream
<1>2. IInv /\ IInv' /\ StreamInv /\ [Next]_vars => StreamInv'
  BY StreamStep
<1> QED
  BY <1>1, <1>2, Dutiful, PTL DEF Spec

\* A client receives its own tokens, in order and without a gap, whatever
\* deferred finishes overtake and whoever used its wire id before, and after
\* them at most the sentinel of a bare stop; the admission comes with the first
\* output and never again.
THEOREM TokensInOrderHolds == Spec => []TokensInOrder
<1>1. StreamInv => TokensInOrder
  BY DEF StreamInv, Stream, Delivered, Sequenced, TokensInOrder
<1> QED
  BY <1>1, StreamsHold, PTL

\* A client told "finished" has every token and every fact the ledger recorded
\* for it, and at most a sentinel more; the terminal on the step stream counts
\* the tokens shipped with it and before it.  No token is lost between the
\* ledger, a deferred finish, the step stream and the bridge.
THEOREM FinishedMeansCompleteHolds == Spec => []FinishedMeansComplete
<1>1. IInv /\ StreamInv => FinishedMeansComplete
  <2> SUFFICES ASSUME IInv, StreamInv, NEW r \in Id
               PROVE  /\ out[r].end = "finished" =>
                            /\ Len(out[r].toks) = accounts[r].tally
                                                  + (IF Suffixed(out[r].toks) THEN 1 ELSE 0)
                            /\ out[r].meta = accounts[r].noted
                      /\ Waiting(r) /\ steps # <<>> /\ steps[1][r].term = "finished" =>
                            steps[1][r].count = Len(out[r].toks) + Len(steps[1][r].toks)
    BY DEF FinishedMeansComplete
  <2>1. Stream(r)
    BY DEF StreamInv
  <2>2. ASSUME Waiting(r), steps # <<>>, steps[1][r].term = "finished"
        PROVE  steps[1][r].count = Len(out[r].toks) + Len(steps[1][r].toks)
    <3>1. 1 \in 1..Len(steps)
      BY <2>2, IInvParts, EmptySeq, LenProperties
    <3>2. Chain(r)
      BY <2>1, <2>2 DEF Stream, Underway
    <3> QED
      BY <2>2, <3>1, <3>2 DEF Chain
  <2> QED
    BY <2>1, <2>2 DEF Stream, Delivered
<1> QED
  BY <1>1, Dutiful, StreamsHold, PTL
=============================================================================
