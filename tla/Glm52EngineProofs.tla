--------------------------- MODULE Glm52EngineProofs ---------------------------
(***************************************************************************)
(* Safety of the GLM5.2 engine, for any requests, slots, page size and     *)
(* configuration.  Its detached copies: no restore runs beside a replay    *)
(* launched ahead, and the arenas are not freed under a copy.  Its block   *)
(* pool: what admitted requests may still draw is in the free pool, so no  *)
(* schedule call fails.                                                    *)
(***************************************************************************)
EXTENDS Glm52Engine, FiniteSetTheorems, SequenceTheorems, WellFoundedInduction, TLAPS

-----------------------------------------------------------------------------
(* The inductive invariant of the resolve tasks and their copies.          *)

Busy == {"begin", "waiting", "paused", "leased", "loading"}
Running == {r \in Req : task[r] \in Busy}
Ending == {"teardown", "flush", "late", "freed", "leaked"}

Shapes ==
    /\ setup \in Setups /\ sent \subseteq Req
    /\ submit \in Seq(Req) /\ ready \in Seq(Req)
    /\ task \in [Req -> Busy \cup {"none", "sent"}]
    /\ load \in [Req -> {"none", "copying", "ok", "failed"}]
    /\ save \in [Req -> {"none", "copying", "landed"}]

\* resolves_inflight is exact: tasks under way and results not yet taken.
InflightExact == inflight = Cardinality(Running) + Len(ready)

\* A request in the submit channel, or not sent, has no task.
Unstarted ==
    /\ ToSet(submit) \subseteq sent
    /\ \A r \in Req : r \notin sent \/ r \in ToSet(submit) => task[r] = "none"

\* The loop ended under no resolve.
Drained == pc \in Ending => Running = {}

\* Without a tier no task gets past its first poll.
NoTier == ~setup.tier => \A r \in Req : task[r] \in {"none", "begin", "sent"} /\ load[r] = "none"
LeaseAlone == leased # {} => ~setup.tier

Flushed ==
    /\ pc \in {"flush", "freed"} => ~Copying(load)
    /\ pc = "freed" => ~Copying(save)

CopyInv ==
    Shapes /\ InflightExact /\ Unstarted /\ Drained /\ NoTier /\ LeaseAlone /\ Flushed

-----------------------------------------------------------------------------

\* One task more or less.
LEMMA RunningFinite ==
    IsFiniteSet(Running) /\ Cardinality(Running) \in Nat
<1>1. Running \subseteq Req
  BY DEF Running
<1> QED
  BY <1>1, EngineAssumption, FS_Subset, FS_CardinalityType

\* Elements of a channel after a send.
LEMMA Sent ==
    ASSUME NEW s \in Seq(Req), NEW r \in Req
    PROVE  /\ Append(s, r) \in Seq(Req) /\ Len(Append(s, r)) = Len(s) + 1
           /\ ToSet(Append(s, r)) = ToSet(s) \cup {r}
<1>1. /\ Append(s, r) \in Seq(Req) /\ Len(Append(s, r)) = Len(s) + 1 /\ Len(s) \in Nat
      /\ DOMAIN s = 1..Len(s) /\ DOMAIN Append(s, r) = 1..(Len(s) + 1)
      /\ \A i \in 1..Len(s) : Append(s, r)[i] = s[i]
      /\ Append(s, r)[Len(s) + 1] = r
  BY AppendProperties, LenProperties
<1>2. 1..(Len(s) + 1) = (1..Len(s)) \cup {Len(s) + 1}
  BY <1>1
<1> QED
  BY <1>1, <1>2 DEF ToSet

\* A step of a task under way: it stays so, or its result is sent.
LEMMA TaskStep ==
    ASSUME CopyInv, NEW r \in Req, task[r] \in Busy, NEW x \in Busy \cup {"sent"},
           task' = [task EXCEPT ![r] = x],
           ready' = IF x = "sent" THEN Append(ready, r) ELSE ready,
           UNCHANGED <<setup, sent, submit, save, inflight, leased, pc>>,
           load' \in [Req -> {"none", "copying", "ok", "failed"}],
           ~setup.tier => x = "sent" /\ load' = load
    PROVE  CopyInv'
<1>1. Shapes /\ InflightExact /\ Unstarted /\ Drained /\ NoTier /\ LeaseAlone
  BY DEF CopyInv
<1>2. /\ task' \in [Req -> Busy \cup {"none", "sent"}] /\ task'[r] = x
      /\ \A q \in Req : q # r => task'[q] = task[q]
  BY <1>1 DEF Shapes
<1>3. ready \in Seq(Req) /\ Len(ready) \in Nat
  BY <1>1 DEF Shapes
<1>4. Shapes'
  <2>1. ready' \in Seq(Req)
    BY <1>3, Sent
  <2> QED
    BY <2>1, <1>1, <1>2 DEF Shapes
<1>5. r \in Running /\ pc' \notin Ending
  BY <1>1 DEF Running, Drained
<1>6. InflightExact'
  <2>1. CASE x = "sent"
    <3>1. Running' = Running \ {r}
      BY <2>1, <1>2 DEF Running, Busy
    <3>2. Cardinality(Running \ {r}) = Cardinality(Running) - 1
      BY <1>5, RunningFinite, FS_RemoveElement
    <3>3. Len(ready') = Len(ready) + 1
      BY <2>1, <1>3, Sent
    <3>4. inflight = Cardinality(Running) + Len(ready)
      BY <1>1 DEF InflightExact
    <3>5. \A c, l \in Nat : c + l = (c - 1) + (l + 1)
      OBVIOUS
    <3>6. inflight' = Cardinality(Running') + Len(ready')
      BY <3>1, <3>2, <3>3, <3>4, <3>5, <1>3, RunningFinite, Zenon
    <3> QED
      BY <3>6 DEF InflightExact
  <2>2. CASE x # "sent"
    <3>1. Running' = Running
      BY <2>2, <1>2 DEF Running
    <3>2. ready' = ready
      BY <2>2
    <3> QED
      BY <3>1, <3>2, <1>1 DEF InflightExact
  <2> QED
    BY <2>1, <2>2
<1>7. Unstarted'
  <2>1. r \in sent /\ r \notin ToSet(submit)
    BY <1>1 DEF Unstarted, Busy
  <2>2. \A q \in Req : q \notin sent \/ q \in ToSet(submit) => q # r /\ task'[q] = "none"
    BY <2>1, <1>1, <1>2 DEF Unstarted
  <2> QED
    BY <2>2, <1>1 DEF Unstarted
<1>8. Drained' /\ Flushed'
  BY <1>5 DEF Drained, Flushed, Ending
<1>9. NoTier'
  <2> SUFFICES ASSUME ~setup.tier, NEW q \in Req
               PROVE  task'[q] \in {"none", "begin", "sent"} /\ load'[q] = "none"
    BY DEF NoTier
  <2> QED
    BY <1>1, <1>2 DEF NoTier
<1>10. LeaseAlone'
  BY <1>1 DEF LeaseAlone
<1> QED
  BY <1>4, <1>6, <1>7, <1>8, <1>9, <1>10 DEF CopyInv

\* A copy settles, or nothing of the tasks moves.
LEMMA SettleStep ==
    ASSUME CopyInv,
           UNCHANGED <<setup, sent, submit, inflight, ready, task, leased, pc>>,
           load' \in [Req -> {"none", "copying", "ok", "failed"}],
           save' \in [Req -> {"none", "copying", "landed"}],
           \A q \in Req : load'[q] # load[q] => load[q] = "copying" /\ load'[q] # "copying",
           \A q \in Req : save'[q] = "copying" => save[q] = "copying"
    PROVE  CopyInv'
<1>1. Shapes /\ InflightExact /\ Unstarted /\ Drained /\ NoTier /\ LeaseAlone /\ Flushed
  BY DEF CopyInv
<1>2. Shapes'
  BY <1>1 DEF Shapes
<1>3. InflightExact' /\ Unstarted' /\ Drained' /\ LeaseAlone'
  BY <1>1 DEF InflightExact, Unstarted, Drained, LeaseAlone, Running
<1>4. NoTier'
  <2> SUFFICES ASSUME ~setup.tier, NEW q \in Req
               PROVE  task'[q] \in {"none", "begin", "sent"} /\ load'[q] = "none"
    BY DEF NoTier
  <2>1. task[q] \in {"none", "begin", "sent"} /\ load[q] = "none"
    BY <1>1 DEF NoTier
  <2> QED
    BY <2>1
<1>5. Flushed'
  BY <1>1 DEF Flushed, Copying
<1> QED
  BY <1>2, <1>3, <1>4, <1>5 DEF CopyInv

\* The tasks, the tier and the saves.
LEMMA TasksStep ==
    ASSUME CopyInv, NEW r \in Req, Task(r)
    PROVE  CopyInv'
<1>1. Shapes /\ NoTier
  BY DEF CopyInv
<1>2. CASE Poll(r)
  <2>1. /\ task[r] \in {"begin", "paused"}
        /\ UNCHANGED <<setup, sent, submit, save, inflight, leased, pc, load>>
    BY <1>2 DEF Poll, still, clients, saves, slots, thread
  <2>2. CASE r \in closed \/ ~setup.tier \/ Kind[r] = "eos" \/ Chain(r) = 0
    <3>1. task' = [task EXCEPT ![r] = "sent"] /\ ready' = Append(ready, r)
      BY <1>2, <2>2 DEF Poll, Conclude
    <3> QED
      BY <2>1, <3>1, <1>1, TaskStep DEF Busy, Shapes
  <2>3. CASE ~ (r \in closed \/ ~setup.tier \/ Kind[r] = "eos" \/ Chain(r) = 0)
    <3>1. task' = [task EXCEPT ![r] = "waiting"] /\ ready' = ready
      BY <1>2, <2>3 DEF Poll
    <3> QED
      BY <2>1, <2>3, <3>1, <1>1, TaskStep DEF Busy, Shapes
  <2> QED
    BY <2>2, <2>3
<1>3. CASE TierAnswers(r)
  <2>1. UNCHANGED <<setup, sent, submit, inflight, ready, task, leased, pc, load, save>>
    BY <1>3 DEF TierAnswers, still, clients, saves, slots, thread
  <2> QED
    BY <2>1, <1>1, SettleStep DEF Shapes
<1>4. CASE QueryDeadline(r)
  <2>1. /\ task[r] = "waiting" /\ task' = [task EXCEPT ![r] = "sent"] /\ ready' = Append(ready, r)
        /\ UNCHANGED <<setup, sent, submit, save, inflight, leased, pc, load>>
    BY <1>4 DEF QueryDeadline, Conclude, still, clients, saves, slots, thread
  <2> QED
    BY <2>1, <1>1, TaskStep DEF Busy, Shapes
<1>5. CASE TakeAnswer(r)
  <2>1. /\ task[r] = "waiting"
        /\ \/ task' = [task EXCEPT ![r] = "sent"] /\ ready' = Append(ready, r)
           \/ task' = [task EXCEPT ![r] = "leased"] /\ ready' = ready
           \/ task' = [task EXCEPT ![r] = "paused"] /\ ready' = ready
        /\ UNCHANGED <<setup, sent, submit, save, inflight, leased, pc, load>>
    BY <1>5 DEF TakeAnswer, Conclude, still, clients, saves, slots, thread
  <2>2. setup.tier
    BY <2>1, <1>1 DEF NoTier
  <2> QED
    BY <2>1, <2>2, <1>1, TaskStep DEF Busy, Shapes
<1>6. CASE StartLoad(r)
  <2>1. /\ task[r] = "leased"
        /\ UNCHANGED <<setup, sent, submit, save, inflight, leased, pc>>
        /\ \/ task' = [task EXCEPT ![r] = "sent"] /\ ready' = Append(ready, r) /\ load' = load
           \/ /\ task' = [task EXCEPT ![r] = "loading"] /\ ready' = ready
              /\ load' = [load EXCEPT ![r] = "copying"]
    BY <1>6 DEF StartLoad, Conclude, still, clients, saves, slots, thread
  <2>2. setup.tier
    BY <2>1, <1>1 DEF NoTier
  <2>3. load' \in [Req -> {"none", "copying", "ok", "failed"}]
    BY <2>1, <1>1 DEF Shapes
  <2> QED
    BY <2>1, <2>2, <2>3, TaskStep DEF Busy
<1>7. CASE LoadSettles(r)
  <2>1. /\ load[r] = "copying" /\ UNCHANGED <<setup, sent, submit, inflight, ready, task, leased, pc, save>>
        /\ \E o \in {"ok", "failed", "none"} : load' = [load EXCEPT ![r] = o]
    BY <1>7 DEF LoadSettles, still, clients, saves, slots, thread
  <2>2. PICK o \in {"ok", "failed", "none"} : load' = [load EXCEPT ![r] = o]
    BY <2>1
  <2>3. /\ load' \in [Req -> {"none", "copying", "ok", "failed"}] /\ load'[r] = o /\ o # "copying"
        /\ \A q \in Req : q # r => load'[q] = load[q]
    BY <2>2, <1>1 DEF Shapes
  <2>4. save' \in [Req -> {"none", "copying", "landed"}]
    BY <2>1, <1>1 DEF Shapes
  <2> QED
    BY <2>1, <2>3, <2>4, SettleStep
<1>8. CASE TakeLoad(r)
  <2>1. /\ task[r] = "loading" /\ task' = [task EXCEPT ![r] = "sent"] /\ ready' = Append(ready, r)
        /\ UNCHANGED <<setup, sent, submit, save, inflight, leased, pc>>
        /\ load' = [load EXCEPT ![r] = "none"]
    BY <1>8 DEF TakeLoad, Conclude, still, clients, saves, slots, thread
  <2>2. setup.tier
    BY <2>1, <1>1 DEF NoTier
  <2>3. load' \in [Req -> {"none", "copying", "ok", "failed"}]
    BY <2>1, <1>1 DEF Shapes
  <2> QED
    BY <2>1, <2>2, <2>3, TaskStep DEF Busy
<1>9. CASE LoadDeadline(r)
  <2>1. /\ task[r] = "loading" /\ task' = [task EXCEPT ![r] = "sent"] /\ ready' = Append(ready, r)
        /\ UNCHANGED <<setup, sent, submit, save, inflight, leased, pc, load>>
    BY <1>9 DEF LoadDeadline, Conclude, still, clients, saves, slots, thread
  <2> QED
    BY <2>1, <1>1, TaskStep DEF Busy, Shapes
<1>10. CASE SaveLands(r)
  <2>1. /\ save' = [save EXCEPT ![r] = "landed"]
        /\ UNCHANGED <<setup, sent, submit, inflight, ready, task, leased, pc, load>>
    BY <1>10 DEF SaveLands, quiet, clients, tasks, queues, slots, thread
  <2>2. /\ save' \in [Req -> {"none", "copying", "landed"}] /\ save'[r] # "copying"
        /\ \A q \in Req : q # r => save'[q] = save[q]
    BY <2>1, <1>1 DEF Shapes
  <2>3. load' \in [Req -> {"none", "copying", "ok", "failed"}]
    BY <2>1, <1>1 DEF Shapes
  <2> QED
    BY <2>1, <2>2, <2>3, SettleStep
<1>11. CASE GuardsDrop(r) \/ WatcherSettles(r)
  <2>1. UNCHANGED <<setup, sent, submit, inflight, ready, task, leased, pc, load, save>>
    BY <1>11 DEF GuardsDrop, WatcherSettles, quiet, clients, tasks, queues, slots, thread, saves
  <2> QED
    BY <2>1, <1>1, SettleStep DEF Shapes
<1> QED
  BY <1>2, <1>3, <1>4, <1>5, <1>6, <1>7, <1>8, <1>9, <1>10, <1>11 DEF Task

\* Clients come and go.
LEMMA ClientsStep ==
    ASSUME CopyInv, HangUp \/ \E r \in Req : Submit(r) \/ Disconnect(r)
    PROVE  CopyInv'
<1>1. Shapes /\ InflightExact /\ Unstarted /\ Drained /\ NoTier /\ LeaseAlone /\ Flushed
  BY DEF CopyInv
<1>2. CASE HangUp \/ \E r \in Req : Disconnect(r)
  <2>1. UNCHANGED <<setup, sent, submit, inflight, ready, task, leased, pc, load, save>>
    BY <1>2 DEF HangUp, Disconnect, tasks, saves, queues, slots, thread
  <2> QED
    BY <2>1, <1>1, SettleStep DEF Shapes
<1>3. ASSUME NEW r \in Req, Submit(r) PROVE CopyInv'
  <2>1. /\ r \notin sent /\ sent' = sent \cup {r} /\ submit' = Append(submit, r)
        /\ UNCHANGED <<setup, inflight, ready, task, leased, pc, load, save>>
    BY <1>3 DEF Submit, tasks, saves, queues, slots, thread
  <2>2. submit' \in Seq(Req) /\ ToSet(submit') = ToSet(submit) \cup {r}
    BY <2>1, <1>1, Sent DEF Shapes
  <2>3. Shapes'
    BY <2>1, <2>2, <1>1 DEF Shapes
  <2>4. Unstarted'
    BY <2>1, <2>2, <1>1 DEF Unstarted
  <2>5. InflightExact' /\ Drained' /\ NoTier' /\ LeaseAlone' /\ Flushed'
    BY <2>1, <1>1 DEF InflightExact, Drained, NoTier, LeaseAlone, Flushed, Running, Copying
  <2> QED
    BY <2>3, <2>4, <2>5 DEF CopyInv
<1> QED
  BY <1>2, <1>3

\* A step of the engine thread that leaves the tasks alone.  Only one that goes
\* on serving may start a save.
LEMMA ThreadStep ==
    ASSUME CopyInv, UNCHANGED <<setup, sent, submit, inflight, ready, task, load>>,
           save' \in [Req -> {"none", "copying", "landed"}],
           pc' \in Ending => pc \in Ending,
           leased' # {} => ~setup.tier,
           Flushed'
    PROVE  CopyInv'
<1>1. Shapes /\ InflightExact /\ Unstarted /\ Drained /\ NoTier
  BY DEF CopyInv
<1>2. Shapes'
  BY <1>1 DEF Shapes
<1>3. InflightExact' /\ Unstarted' /\ Drained' /\ NoTier'
  BY <1>1 DEF InflightExact, Unstarted, Drained, NoTier, Running
<1>4. LeaseAlone'
  BY DEF LeaseAlone
<1> QED
  BY <1>2, <1>3, <1>4 DEF CopyInv

\* Intake starts a task for each request that needs one, and ends the loop only
\* when no task is left.
LEMMA IntakeStep ==
    ASSUME CopyInv, Intake
    PROVE  CopyInv'
<1>a. PICK took : took = ToSet(submit) \ {r \in Req : Rejects(r)}
  OBVIOUS
<1>b. PICK spawned : spawned = {r \in took : setup.cache \/ Native(r)}
  OBVIOUS
<1>1. /\ submit' = <<>> /\ ready' = <<>>
      /\ task' = [r \in Req |-> IF r \in spawned THEN "begin" ELSE task[r]]
      /\ inflight' = inflight + Cardinality(spawned) - Len(ready)
      /\ UNCHANGED <<setup, sent, load, save, leased>>
      /\ pc' \in {"teardown", "admit", "step"}
      /\ pc' = "teardown" => inflight' = 0
  BY <1>a, <1>b DEF Intake, saves, slots, Counted
<1>2. Shapes /\ InflightExact /\ Unstarted /\ NoTier /\ LeaseAlone
  BY DEF CopyInv
<1>3. /\ spawned \subseteq Req /\ \A r \in spawned : task[r] = "none" /\ r \in sent
  <2>1. spawned \subseteq ToSet(submit) /\ ToSet(submit) \subseteq sent /\ sent \subseteq Req
    BY <1>a, <1>b, <1>2 DEF Unstarted, Shapes
  <2> QED
    BY <2>1, <1>2 DEF Unstarted
<1>4. task' \in [Req -> Busy \cup {"none", "sent"}]
  BY <1>1, <1>2 DEF Shapes, Busy
<1>5. <<>> \in Seq(Req) /\ ToSet(<<>>) = {} /\ Len(<<>>) = 0
  BY DEF ToSet
<1>6. Shapes'
  BY <1>1, <1>2, <1>4, <1>5 DEF Shapes
<1>7. Running' = Running \cup spawned /\ Running \cap spawned = {}
  BY <1>1, <1>3 DEF Running, Busy
<1>8. /\ IsFiniteSet(spawned) /\ Cardinality(spawned) \in Nat
      /\ Cardinality(Running') = Cardinality(Running) + Cardinality(spawned)
  <2>1. IsFiniteSet(spawned)
    BY <1>3, EngineAssumption, FS_Subset
  <2>2. Cardinality(Running \cup spawned)
          = Cardinality(Running) + Cardinality(spawned) - Cardinality(Running \cap spawned)
    BY <2>1, RunningFinite, FS_Union
  <2>3. Cardinality(Running \cap spawned) = 0
    BY <1>7, FS_EmptySet
  <2>4. Cardinality(spawned) \in Nat
    BY <2>1, FS_CardinalityType
  <2> QED
    BY <2>1, <2>2, <2>3, <2>4, <1>7, RunningFinite
<1>9. inflight' = Cardinality(Running')
  <2>1. inflight = Cardinality(Running) + Len(ready) /\ Len(ready) \in Nat
    BY <1>2 DEF InflightExact, Shapes
  <2>2. \A c, l, n \in Nat : (c + l) + n - l = c + n
    OBVIOUS
  <2> QED
    BY <1>1, <1>8, <2>1, <2>2, RunningFinite, Zenon
<1>10. InflightExact'
  <2>1. Cardinality(Running') \in Nat
    BY <1>8, RunningFinite
  <2> QED
    BY <1>1, <1>5, <1>9, <2>1 DEF InflightExact
<1>11. Unstarted'
  BY <1>1, <1>2, <1>3, <1>5 DEF Unstarted
<1>12. Drained'
  <2> SUFFICES ASSUME pc' \in Ending PROVE Running' = {}
    BY DEF Drained
  <2>1. Cardinality(Running') = 0
    BY <1>1, <1>9 DEF Ending
  <2>2. IsFiniteSet(Running')
    BY <1>7, <1>8, RunningFinite, FS_Union
  <2> QED
    BY <2>1, <2>2, FS_EmptySet
<1>13. NoTier' /\ LeaseAlone' /\ Flushed'
  BY <1>1, <1>2 DEF NoTier, LeaseAlone, Flushed
<1> QED
  BY <1>6, <1>10, <1>11, <1>12, <1>13 DEF CopyInv

\* The other steps of the engine thread.
LEMMA EngineStep ==
    ASSUME CopyInv, Engine
    PROVE  CopyInv'
<1>1. Shapes /\ LeaseAlone /\ Flushed /\ Drained
  BY DEF CopyInv
<1>2. save \in [Req -> {"none", "copying", "landed"}]
  BY <1>1 DEF Shapes
<1>3. CASE Intake
  BY <1>3, IntakeStep
<1>4. CASE DropFront \/ Shed \/ Pick \/ AdmitEnds \/ Defer
  <2>1. /\ UNCHANGED <<setup, sent, submit, inflight, ready, task, load, save, leased>>
        /\ pc' \in {"admit", "take", "drain", "step"}
    BY <1>4 DEF DropFront, Shed, Stalled, Admitting, Pick, AdmitEnds, Defer, afloat, tasks, saves, slots
  <2>2. Flushed' /\ pc' \notin Ending
    BY <2>1 DEF Flushed, Ending
  <2> QED
    BY <2>1, <2>2, <1>1, <1>2, ThreadStep DEF LeaseAlone
<1>5. CASE TakePlain \/ TakeNative
  <2>1. /\ UNCHANGED <<setup, sent, submit, inflight, ready, task, load, save, leased>>
        /\ pc' \in {"admit", "fatal"}
    BY <1>5 DEF TakePlain, TakeNative, clients, tasks, saves, queues
  <2>2. Flushed' /\ pc' \notin Ending
    BY <2>1 DEF Flushed, Ending
  <2> QED
    BY <2>1, <2>2, <1>1, <1>2, ThreadStep DEF LeaseAlone
<1>6. CASE StepDesyncs
  <2>1. /\ UNCHANGED <<setup, sent, submit, inflight, ready, task, load, save, leased>>
        /\ pc' = "desync"
    BY <1>6 DEF StepDesyncs, still_stepping, clients, tasks, saves, queues
  <2>2. Flushed' /\ pc' \notin Ending
    BY <2>1 DEF Flushed, Ending
  <2> QED
    BY <2>1, <2>2, <1>1, <1>2, ThreadStep DEF LeaseAlone
<1>7. CASE StepSubmit
  <2>1. /\ UNCHANGED <<setup, sent, submit, inflight, ready, task, load, save>>
        /\ leased' = (IF MayLease THEN active ELSE {})
        /\ pc' \in {"fatal", "join"}
    BY <1>7 DEF StepSubmit, still_stepping, clients, tasks, saves, queues
  <2>2. leased' # {} => ~setup.tier
    BY <2>1 DEF MayLease
  <2>3. Flushed' /\ pc' \notin Ending
    BY <2>1 DEF Flushed, Ending
  <2> QED
    BY <2>1, <2>2, <2>3, <1>2, ThreadStep
<1>8. CASE StepApply
  <2>1. /\ UNCHANGED <<setup, sent, submit, inflight, ready, task, load, leased>>
        /\ pc' = "drain"
        /\ \E c : save' = [r \in Req |-> IF c[r] > 0 THEN "copying" ELSE save[r]]
    BY <1>8 DEF StepApply, tasks, queues
  <2>2. save' \in [Req -> {"none", "copying", "landed"}]
    BY <2>1, <1>2
  <2>3. Flushed' /\ pc' \notin Ending
    BY <2>1 DEF Flushed, Ending
  <2> QED
    BY <2>1, <2>2, <2>3, <1>1, ThreadStep DEF LeaseAlone
<1>9. CASE Fatal
  <2>1. UNCHANGED <<setup, sent, submit, inflight, ready, task, load, save, leased>> /\ pc' = "exit"
    BY <1>9 DEF Fatal, tasks, saves, queues, slots
  <2>2. Flushed' /\ pc' \notin Ending
    BY <2>1 DEF Flushed, Ending
  <2> QED
    BY <2>1, <2>2, <1>1, <1>2, ThreadStep DEF LeaseAlone
<1>10. CASE FlushLoads
  <2>1. /\ UNCHANGED <<setup, sent, submit, inflight, ready, task, load, save, leased>>
        /\ pc = "teardown" /\ pc' = IF Copying(load) THEN "late" ELSE "flush"
    BY <1>10 DEF FlushLoads, clients, tasks, saves, queues, slots
  <2>2. Flushed' /\ pc \in Ending
    BY <2>1 DEF Flushed, Ending, Copying
  <2> QED
    BY <2>1, <2>2, <1>1, <1>2, ThreadStep DEF LeaseAlone
<1>11. CASE FlushSaves
  <2>1. /\ UNCHANGED <<setup, sent, submit, inflight, ready, task, load, save, leased>>
        /\ pc \in {"flush", "late"} /\ pc' \in {"freed", "leaked"}
        /\ pc' = "freed" => pc = "flush" /\ ~Copying(save)
    BY <1>11 DEF FlushSaves, Disposition, clients, tasks, saves, queues, slots
  <2>2. Flushed' /\ pc \in Ending
    BY <2>1, <1>1 DEF Flushed, Ending, Copying
  <2> QED
    BY <2>1, <2>2, <1>1, <1>2, ThreadStep DEF LeaseAlone
<1> QED
  BY <1>3, <1>4, <1>5, <1>6, <1>7, <1>8, <1>9, <1>10, <1>11 DEF Engine

\* At the start there is no task, and no copy.
LEMMA CopyInit == Init => CopyInv
<1> SUFFICES ASSUME Init PROVE CopyInv
  OBVIOUS
<1>1. /\ setup \in Setups /\ sent = {} /\ submit = <<>> /\ ready = <<>> /\ inflight = 0
      /\ task = [r \in Req |-> "none"] /\ load = [r \in Req |-> "none"] /\ save = [r \in Req |-> "none"]
      /\ leased = {} /\ pc = "drain"
  BY DEF Init
<1>2. <<>> \in Seq(Req) /\ ToSet(<<>>) = {} /\ Len(<<>>) = 0
  BY DEF ToSet
<1>3. Shapes
  BY <1>1, <1>2 DEF Shapes, Busy
<1>4. InflightExact
  <2>1. Running = {}
    BY <1>1 DEF Running, Busy
  <2> QED
    BY <2>1, <1>1, <1>2, FS_EmptySet DEF InflightExact
<1>5. Unstarted /\ Drained /\ NoTier /\ LeaseAlone /\ Flushed
  BY <1>1, <1>2 DEF Unstarted, Drained, Ending, NoTier, LeaseAlone, Flushed
<1> QED
  BY <1>3, <1>4, <1>5 DEF CopyInv

\* Every step keeps it.
LEMMA CopyNext == CopyInv /\ [Next]_vars => CopyInv'
<1> SUFFICES ASSUME CopyInv, [Next]_vars PROVE CopyInv'
  OBVIOUS
<1>1. CASE Engine
  BY <1>1, EngineStep
<1>2. CASE Tasks
  BY <1>2, TasksStep DEF Tasks
<1>3. CASE HangUp \/ \E r \in Req : Submit(r) \/ Disconnect(r)
  BY <1>3, ClientsStep
<1>4. CASE UNCHANGED vars
  <2>1. UNCHANGED <<setup, sent, submit, inflight, ready, task, leased, pc, load, save>>
    BY <1>4 DEF vars, clients, tasks, saves, queues, slots, thread
  <2> QED
    BY <2>1, SettleStep DEF CopyInv, Shapes
<1> QED
  BY <1>1, <1>2, <1>3, <1>4 DEF Next

\* The invariant of the tasks and copies: resolves_inflight is exact, and the
\* loop ends under no resolve.
THEOREM CopiesTracked == Spec => []CopyInv
BY CopyInit, CopyNext, PTL DEF Spec

\* plan.rs lease_flags: a replay launched ahead never runs beside a restore's
\* copy into the same pool.
THEOREM NoLoadUnderReplayHolds == Spec => []NoLoadUnderReplay
<1>1. CopyInv => NoLoadUnderReplay
  BY DEF CopyInv, LeaseAlone, NoTier, NoLoadUnderReplay, Copying
<1> QED
  BY CopiesTracked, <1>1, PTL

\* teardown_disposition: the arenas are freed only when no detached copy can
\* still touch them.
THEOREM ArenasOutliveDMAHolds == Spec => []ArenasOutliveDMA
<1>1. CopyInv => ArenasOutliveDMA
  BY DEF CopyInv, Flushed, ArenasOutliveDMA
<1> QED
  BY CopiesTracked, <1>1, PTL

-----------------------------------------------------------------------------
(* The inductive invariant of requests and blocks.                         *)

Distinct(s) == \A i, j \in DOMAIN s : i # j => s[i] # s[j]

\* Before the engine thread has a request in its hands, and while it has.
Early(r) == r \notin sent \/ r \in ToSet(submit) \/ task[r] \in Busy
Queued(r) == r \in ToSet(ready) \/ r \in ToSet(pending) \/ r = cand

\* A request that was never admitted owns nothing.
Fresh(r) == r \notin active /\ resident[r] = 0 /\ guards[r] = 0 /\ out[r] = 0

\* A request is in one place at a time, and once in its queue.
Places ==
    /\ Distinct(submit) /\ Distinct(ready) /\ Distinct(pending) /\ pending \in Seq(Req)
    /\ \A r \in Req :
           /\ Early(r) => ~Queued(r)
           /\ r \in ToSet(ready) => r \notin ToSet(pending) /\ r # cand
           /\ r \in ToSet(pending) => r # cand
           /\ Early(r) \/ Queued(r) => Fresh(r)
    /\ IF pc = "take" THEN cand \in Req /\ Cardinality(active) < Slots ELSE cand = NoReq

\* What a resolve leaves with a request.
Forms ==
    /\ form \in [Req -> {"plain", "native", "failed"}]
    /\ \A r \in Req :
           /\ lease[r] <= Chain(r) /\ reserved[r] <= Chain(r)
           /\ hold[r] <= Chain(r) /\ cached[r] <= Chain(r)
           /\ task[r] = "none" => form[r] = "plain"
           /\ Queued(r) /\ form[r] = "plain" => ~Native(r)
           /\ Queued(r) /\ form[r] = "native" =>
                  Native(r) /\ (Kind[r] = "native" => hold[r] = Chain(r))
    /\ pc \in {"admit", "take"} =>
           \A r \in Req : r \in ToSet(pending) \/ r = cand => ~ZeroCapacity(r)

\* Where an admitted sequence is: prefilling, or one token ahead of its KV.
Position(r) ==
    IF MidPrefill(r) THEN out[r] = 0
    ELSE pos[r] = In[r] + out[r] - 1 /\ out[r] >= 1 /\ out[r] < MaxOut[r]
SpanFits(r) ==
    span[r] >= 1 /\ span[r] <= (IF MidPrefill(r) THEN In[r] - pos[r] ELSE MaxOut[r] - out[r])
Admitted ==
    \A r \in active :
        /\ guards[r] = 0
        /\ r \notin deferred => Position(r) /\ (pc = "join" => SpanFits(r))

\* What a request has taken out of the pool and what it may still draw.
Owed(r) == IF r \in active THEN Life(r) - resident[r] ELSE 0
Burden == [r \in Req |-> Owed(r) + Pins(r)]
Covered == Total(Burden) <= Usable /\ pc # "fatal"

PoolInv == TypeOK /\ CopyInv /\ Places /\ Forms /\ Admitted /\ Covered
-----------------------------------------------------------------------------
(* Queues.                                                                 *)

\* A non-empty set of natural numbers has a least element.
LEMMA LeastNumber ==
    ASSUME NEW T, T \subseteq Nat, T # {}
    PROVE  \E x \in T : \A y \in T : x <= y
<1> PICK R : R = {ss \in Nat \X Nat : ss[1] < ss[2]}
  OBVIOUS
<1>1. IsWellFoundedOn(R, Nat)
  BY NatLessThanWellFounded DEF OpToRel
<1>2. PICK x \in T : \A y \in T : ~ (<<y, x>> \in R)
  BY <1>1, WFMin, Zenon
<1>3. \A y \in T : ~ (y < x)
  BY <1>2
<1> QED
  BY <1>3

\* A request that is not in a queue may join it.
LEMMA SentDistinct ==
    ASSUME NEW s \in Seq(Req), NEW r \in Req, Distinct(s), r \notin ToSet(s)
    PROVE  Distinct(Append(s, r))
<1>1. /\ Len(s) \in Nat
      /\ DOMAIN s = 1..Len(s) /\ DOMAIN Append(s, r) = 1..(Len(s) + 1)
      /\ \A i \in 1..Len(s) : Append(s, r)[i] = s[i]
      /\ Append(s, r)[Len(s) + 1] = r
  BY AppendProperties, LenProperties
<1>2. 1..(Len(s) + 1) = (1..Len(s)) \cup {Len(s) + 1}
  BY <1>1
<1>3. \A i \in 1..Len(s) : s[i] # r
  BY <1>1 DEF ToSet
<1> QED
  BY <1>1, <1>2, <1>3 DEF Distinct

\* One position of the filter, and a table of its first n.
FilterStep(q, S, k, i) ==
    IF i = 0 THEN <<>> ELSE IF q[i] \in S THEN k[i - 1] ELSE Append(k[i - 1], q[i])
FilterTable(q, S, k, n) == k = [i \in 0..n |-> FilterStep(q, S, k, i)]

\* There is such a table for every length.
LEMMA FilterDefined ==
    ASSUME NEW q, NEW S, NEW n \in Nat
    PROVE  \E k : FilterTable(q, S, k, n)
<1> PICK T : T = {m \in Nat : ~ \E k : FilterTable(q, S, k, m)}
  OBVIOUS
<1> SUFFICES ASSUME T # {} PROVE FALSE
  OBVIOUS
<1>1. PICK m \in T : \A y \in T : m <= y
  BY LeastNumber
<1>2. CASE m = 0
  <2>1. PICK k : k = [i \in 0..0 |-> <<>>]
    OBVIOUS
  <2>2. \A i \in 0..0 : i = 0
    OBVIOUS
  <2>3. FilterTable(q, S, k, 0)
    BY <2>1, <2>2 DEF FilterTable, FilterStep
  <2> QED
    BY <1>1, <1>2, <2>3
<1>3. CASE m # 0
  <2>1. m \in Nat /\ m - 1 \in Nat /\ m - 1 \notin T
    BY <1>1, <1>3
  <2>2. PICK k : FilterTable(q, S, k, m - 1)
    BY <2>1
  <2>3. PICK g : g = [i \in 0..m |-> IF i = m THEN FilterStep(q, S, k, m) ELSE k[i]]
    OBVIOUS
  <2>4. \A i \in 0..(m - 1) : k[i] = FilterStep(q, S, k, i)
    BY <2>2 DEF FilterTable
  <2>5. \A i \in 0..(m - 1) : g[i] = k[i]
    BY <2>1, <2>3
  <2>6. ASSUME NEW i \in 0..m PROVE g[i] = FilterStep(q, S, g, i)
    <3>1. i # 0 => i - 1 \in 0..(m - 1) /\ g[i - 1] = k[i - 1]
      BY <2>1, <2>5
    <3>2. FilterStep(q, S, g, i) = FilterStep(q, S, k, i)
      BY <3>1 DEF FilterStep
    <3>3. CASE i = m
      BY <2>3, <3>2, <3>3
    <3>4. CASE i # m
      <4>1. i \in 0..(m - 1)
        BY <2>1, <3>4
      <4> QED
        BY <2>4, <2>5, <3>2, <4>1
    <3> QED
      BY <3>3, <3>4
  <2>7. FilterTable(q, S, g, m)
    BY <2>3, <2>6 DEF FilterTable
  <2> QED
    BY <1>1, <2>7
<1> QED
  BY <1>2, <1>3

\* Without is what the last row of a table says.
LEMMA WithoutDefined ==
    ASSUME NEW q \in Seq(Req), NEW S
    PROVE  \E k : FilterTable(q, S, k, Len(q)) /\ Without(q, S) = k[Len(q)]
<1>1. PICK k : k = CHOOSE g : FilterTable(q, S, g, Len(q))
  OBVIOUS
<1>2. FilterTable(q, S, k, Len(q))
  BY <1>1, FilterDefined
<1>3. Without(q, S) = k[Len(q)]
  BY <1>1 DEF Without, FilterTable, FilterStep
<1> QED
  BY <1>2, <1>3

\* The filter keeps the elements outside S, and keeps them distinct.
LEMMA WithoutFacts ==
    ASSUME NEW q \in Seq(Req), NEW S
    PROVE  /\ Without(q, S) \in Seq(Req) /\ ToSet(Without(q, S)) = ToSet(q) \ S
           /\ Distinct(q) => Distinct(Without(q, S))
<1>1. PICK k : FilterTable(q, S, k, Len(q)) /\ Without(q, S) = k[Len(q)]
  BY WithoutDefined
<1>2. \A i \in 0..Len(q) : k[i] = FilterStep(q, S, k, i)
  BY <1>1 DEF FilterTable
<1>3. /\ Len(q) \in Nat /\ DOMAIN q = 1..Len(q) /\ \A i \in 1..Len(q) : q[i] \in Req
  BY LenProperties
<1> DEFINE Good(n) == /\ k[n] \in Seq(Req) /\ ToSet(k[n]) = {q[i] : i \in 1..n} \ S
                      /\ Distinct(q) => Distinct(k[n])
<1>4. Good(0)
  <2>1. k[0] = <<>>
    BY <1>2, <1>3 DEF FilterStep
  <2>2. <<>> \in Seq(Req) /\ ToSet(<<>>) = {} /\ {q[i] : i \in 1..0} = {} /\ Distinct(<<>>)
    BY DEF ToSet, Distinct
  <2> QED
    BY <2>1, <2>2, Zenon
<1>5. ASSUME NEW n \in 1..Len(q), Good(n - 1) PROVE Good(n)
  <2>1. n \in Nat /\ n - 1 \in Nat /\ q[n] \in Req
    BY <1>3
  <2>2. {q[i] : i \in 1..n} = {q[i] : i \in 1..(n - 1)} \cup {q[n]}
    BY <2>1
  <2>3. CASE q[n] \in S
    <3>1. k[n] = k[n - 1]
      BY <1>2, <1>3, <2>1, <2>3 DEF FilterStep
    <3>2. {q[i] : i \in 1..n} \ S = {q[i] : i \in 1..(n - 1)} \ S
      BY <2>2, <2>3
    <3> QED
      BY <3>1, <3>2, <1>5, Zenon
  <2>4. CASE q[n] \notin S
    <3>1. k[n] = Append(k[n - 1], q[n])
      <4>1. k[n] = FilterStep(q, S, k, n) /\ n # 0
        BY <1>2, <1>3
      <4> QED
        BY <4>1, <2>4, Zenon DEF FilterStep
    <3>2. /\ Append(k[n - 1], q[n]) \in Seq(Req)
          /\ ToSet(Append(k[n - 1], q[n])) = ToSet(k[n - 1]) \cup {q[n]}
      BY <1>5, <2>1, Sent
    <3>3. ToSet(k[n]) = {q[i] : i \in 1..n} \ S
      BY <3>1, <3>2, <2>2, <2>4, <1>5
    <3>4. ASSUME Distinct(q) PROVE Distinct(k[n])
      <4>1. q[n] \notin ToSet(k[n - 1])
        <5>1. \A i \in 1..(n - 1) : q[i] # q[n]
          BY <3>4, <1>3, <2>1 DEF Distinct
        <5> QED
          BY <5>1, <1>5
      <4> QED
        BY <3>1, <3>4, <4>1, <1>5, <2>1, SentDistinct
    <3> QED
      BY <3>1, <3>2, <3>3, <3>4
  <2> QED
    BY <2>3, <2>4
<1>6. \A n \in 0..Len(q) : Good(n)
  <2>1. PICK T : T = {m \in 0..Len(q) : ~Good(m)}
    OBVIOUS
  <2> SUFFICES ASSUME T # {} PROVE FALSE
    BY <2>1
  <2> HIDE DEF Good
  <2>2. PICK m \in T : \A y \in T : m <= y
    <3>1. T \subseteq Nat
      BY <2>1, <1>3
    <3> QED
      BY <3>1, LeastNumber
  <2>3. m \in 0..Len(q) /\ ~Good(m) /\ m # 0
    BY <2>1, <2>2, <1>4
  <2>4. m \in 1..Len(q) /\ m - 1 \in 0..Len(q) /\ m - 1 < m /\ m - 1 \in Nat /\ m \in Nat
    BY <2>3, <1>3
  <2>5. Good(m - 1)
    <3>1. m - 1 \notin T
      BY <2>2, <2>4
    <3> QED
      BY <3>1, <2>1, <2>4
  <2> QED
    BY <2>3, <2>4, <2>5, <1>5
<1> QED
  <2>0. Len(q) \in 0..Len(q)
    BY <1>3
  <2>1. Good(Len(q))
    BY <2>0, <1>6, Zenon
  <2>2. {q[i] : i \in 1..Len(q)} = ToSet(q)
    BY <1>3 DEF ToSet
  <2> QED
    BY <2>1, <2>2, <1>1, Zenon

\* One queue behind another.
LEMMA Joined ==
    ASSUME NEW s \in Seq(Req), NEW t \in Seq(Req)
    PROVE  /\ s \o t \in Seq(Req) /\ ToSet(s \o t) = ToSet(s) \cup ToSet(t)
           /\ Distinct(s) /\ Distinct(t) /\ ToSet(s) \cap ToSet(t) = {} => Distinct(s \o t)
<1>1. PICK m \in Nat : m = Len(s) /\ DOMAIN s = 1..m
  BY LenProperties
<1>2. PICK n \in Nat : n = Len(t) /\ DOMAIN t = 1..n
  BY LenProperties
<1>3. PICK u : u = s \o t
  OBVIOUS
<1>4. /\ u \in Seq(Req) /\ Len(u) = m + n
      /\ \A i \in 1..(m + n) : u[i] = IF i <= m THEN s[i] ELSE t[i - m]
  BY <1>1, <1>2, <1>3, ConcatProperties
<1>5. DOMAIN u = 1..(m + n)
  BY <1>4, LenProperties
<1>6. \A i \in 1..m : i \in 1..(m + n) /\ u[i] = s[i]
  BY <1>4
<1>7. \A i \in 1..n : m + i \in 1..(m + n) /\ u[m + i] = t[i]
  <2> SUFFICES ASSUME NEW i \in 1..n PROVE m + i \in 1..(m + n) /\ u[m + i] = t[i]
    OBVIOUS
  <2>1. m + i \in 1..(m + n) /\ ~(m + i <= m) /\ (m + i) - m = i
    OBVIOUS
  <2> QED
    BY <2>1, <1>4
<1>8. \A i \in 1..(m + n) : i \in 1..m \/ (i - m \in 1..n /\ m + (i - m) = i)
  OBVIOUS
<1>9. ToSet(u) = ToSet(s) \cup ToSet(t)
  <2>1. ToSet(s) = {s[i] : i \in 1..m} /\ ToSet(t) = {t[i] : i \in 1..n} /\ ToSet(u) = {u[i] : i \in 1..(m + n)}
    BY <1>1, <1>2, <1>5 DEF ToSet
  <2>2. \A x \in ToSet(u) : x \in ToSet(s) \cup ToSet(t)
    <3> SUFFICES ASSUME NEW i \in 1..(m + n) PROVE u[i] \in ToSet(s) \cup ToSet(t)
      BY <2>1
    <3> QED
      BY <2>1, <1>6, <1>7, <1>8
  <2>3. \A x \in ToSet(s) \cup ToSet(t) : x \in ToSet(u)
    BY <2>1, <1>6, <1>7
  <2> QED
    BY <2>2, <2>3
<1>10. ASSUME Distinct(s), Distinct(t), ToSet(s) \cap ToSet(t) = {} PROVE Distinct(u)
  <2>1. \A i, j \in 1..m : i # j => s[i] # s[j]
    BY <1>1, <1>10 DEF Distinct
  <2>2. \A i, j \in 1..n : i # j => t[i] # t[j]
    BY <1>2, <1>10 DEF Distinct
  <2>3. \A i \in 1..m : \A j \in 1..n : s[i] # t[j]
    BY <1>1, <1>2, <1>10 DEF ToSet
  <2>4. ASSUME NEW i \in 1..(m + n), NEW j \in 1..(m + n), i # j PROVE u[i] # u[j]
    <3>1. CASE i \in 1..m /\ j \in 1..m
      BY <2>1, <2>4, <3>1, <1>6
    <3>2. CASE i \in 1..m /\ j - m \in 1..n /\ m + (j - m) = j
      BY <2>3, <3>2, <1>6, <1>7
    <3>3. CASE j \in 1..m /\ i - m \in 1..n /\ m + (i - m) = i
      BY <2>3, <3>3, <1>6, <1>7
    <3>4. CASE i - m \in 1..n /\ m + (i - m) = i /\ j - m \in 1..n /\ m + (j - m) = j
      <4>1. u[i] = t[i - m] /\ u[j] = t[j - m] /\ i - m # j - m
        BY <2>4, <3>4, <1>7
      <4> QED
        BY <4>1, <3>4, <2>2
    <3> QED
      BY <3>1, <3>2, <3>3, <3>4, <1>8
  <2> QED
    BY <2>4, <1>5 DEF Distinct
<1> QED
  BY <1>3, <1>4, <1>9, <1>10

\* A stretch of a queue.
LEMMA Stretch ==
    ASSUME NEW s \in Seq(Req), NEW m \in Nat \ {0}, NEW n \in 0..Len(s)
    PROVE  /\ SubSeq(s, m, n) \in Seq(Req) /\ ToSet(SubSeq(s, m, n)) = {s[i] : i \in m..n}
           /\ Distinct(s) => Distinct(SubSeq(s, m, n))
<1>1. Len(s) \in Nat /\ DOMAIN s = 1..Len(s) /\ \A i \in 1..Len(s) : s[i] \in Req
  BY LenProperties
<1>2. PICK t : t = SubSeq(s, m, n)
  OBVIOUS
<1>3. \A i \in m..n : i \in 1..Len(s) /\ s[i] \in Req
  BY <1>1
<1>4. /\ t \in Seq(Req) /\ Len(t) = (IF m <= n THEN n - m + 1 ELSE 0)
      /\ \A i \in 1..(n - m + 1) : t[i] = s[m + i - 1]
  BY <1>1, <1>2, <1>3, SubSeqProperties
<1>5. DOMAIN t = 1..(n - m + 1)
  <2>1. DOMAIN t = 1..Len(t)
    BY <1>4, LenProperties
  <2>2. ~(m <= n) => 1..(n - m + 1) = 1..0
    BY <1>1
  <2> QED
    BY <2>1, <2>2, <1>4
<1>6. \A i \in 1..(n - m + 1) : m + i - 1 \in m..n
  BY <1>1
<1>7. \A i \in m..n : i - m + 1 \in 1..(n - m + 1) /\ m + (i - m + 1) - 1 = i
  BY <1>1
<1>8. ToSet(t) = {s[i] : i \in m..n}
  <2>1. ToSet(t) = {t[i] : i \in 1..(n - m + 1)}
    BY <1>5 DEF ToSet
  <2>2. \A x \in ToSet(t) : x \in {s[i] : i \in m..n}
    BY <2>1, <1>4, <1>6
  <2>3. ASSUME NEW i \in m..n PROVE s[i] \in ToSet(t)
    <3>1. t[i - m + 1] = s[i]
      BY <1>4, <1>7
    <3> QED
      BY <3>1, <2>1, <1>7
  <2> QED
    BY <2>2, <2>3
<1>9. ASSUME Distinct(s) PROVE Distinct(t)
  <2> SUFFICES ASSUME NEW i \in 1..(n - m + 1), NEW j \in 1..(n - m + 1), i # j PROVE t[i] # t[j]
    BY <1>5 DEF Distinct
  <2>1. m + i - 1 \in 1..Len(s) /\ m + j - 1 \in 1..Len(s) /\ m + i - 1 # m + j - 1
    BY <1>3, <1>6
  <2> QED
    BY <2>1, <1>1, <1>4, <1>9 DEF Distinct
<1> QED
  BY <1>2, <1>4, <1>8, <1>9

\* A queue without its i-th place.
LEMMA Taken ==
    ASSUME NEW s \in Seq(Req), Distinct(s), NEW i \in 1..Len(s)
    PROVE  /\ RemoveAt(s, i) \in Seq(Req) /\ Distinct(RemoveAt(s, i))
           /\ s[i] \in ToSet(s) /\ ToSet(RemoveAt(s, i)) = ToSet(s) \ {s[i]}
<1>1. PICK n \in Nat : n = Len(s) /\ DOMAIN s = 1..n
  BY LenProperties
<1>2. PICK a : a = SubSeq(s, 1, i - 1)
  OBVIOUS
<1>3. PICK b : b = SubSeq(s, i + 1, Len(s))
  OBVIOUS
<1>4. /\ 1 \in Nat \ {0} /\ i + 1 \in Nat \ {0} /\ i - 1 \in 0..Len(s) /\ Len(s) \in 0..Len(s)
      /\ i \in 1..n
  BY <1>1
<1>5. a \in Seq(Req) /\ ToSet(a) = {s[j] : j \in 1..(i - 1)} /\ Distinct(a)
  BY <1>2, <1>4, Stretch
<1>6. b \in Seq(Req) /\ ToSet(b) = {s[j] : j \in (i + 1)..n} /\ Distinct(b)
  BY <1>1, <1>3, <1>4, Stretch
<1>7. \A j, k \in 1..n : j # k => s[j] # s[k]
  BY <1>1 DEF Distinct
<1>8. \A j \in 1..(i - 1) : \A k \in (i + 1)..n : j \in 1..n /\ k \in 1..n /\ j # k /\ j # i /\ k # i
  BY <1>4
<1>9. ToSet(a) \cap ToSet(b) = {}
  BY <1>5, <1>6, <1>7, <1>8
<1>10. RemoveAt(s, i) = a \o b
  BY <1>2, <1>3 DEF RemoveAt
<1>11. \A j \in 1..n : j = i \/ j \in 1..(i - 1) \/ j \in (i + 1)..n
  BY <1>4
<1>12. ToSet(s) = {s[j] : j \in 1..n}
  BY <1>1 DEF ToSet
<1>13. ToSet(a) \cup ToSet(b) = ToSet(s) \ {s[i]}
  <2>1. \A j \in 1..(i - 1) : j \in 1..n /\ s[j] # s[i]
    BY <1>4, <1>7
  <2>2. \A j \in (i + 1)..n : j \in 1..n /\ s[j] # s[i]
    BY <1>4, <1>7
  <2>3. \A x \in ToSet(a) \cup ToSet(b) : x \in ToSet(s) \ {s[i]}
    BY <2>1, <2>2, <1>5, <1>6, <1>12
  <2>4. \A x \in ToSet(s) \ {s[i]} : x \in ToSet(a) \cup ToSet(b)
    BY <1>5, <1>6, <1>11, <1>12
  <2> QED
    BY <2>3, <2>4
<1> QED
  BY <1>4, <1>5, <1>6, <1>9, <1>10, <1>12, <1>13, Joined, ZenonT(60)

\* A queue without its front.
LEMMA Dropped ==
    ASSUME NEW s \in Seq(Req), Distinct(s), s # <<>>
    PROVE  /\ Tail(s) \in Seq(Req) /\ Distinct(Tail(s))
           /\ s[1] \in ToSet(s) /\ ToSet(Tail(s)) = ToSet(s) \ {s[1]}
<1>1. PICK n \in Nat : n = Len(s) /\ DOMAIN s = 1..n
  BY LenProperties
<1>2. 1 \in 1..Len(s)
  BY <1>1, EmptySeq
<1>3. Tail(s) \in Seq(Req) /\ Len(Tail(s)) = n - 1 /\ \A j \in 1..Len(Tail(s)) : Tail(s)[j] = s[j + 1]
  BY <1>1, HeadTailProperties
<1>4. DOMAIN Tail(s) = 1..(n - 1)
  BY <1>3, LenProperties
<1>5. \A j, k \in 1..n : j # k => s[j] # s[k]
  BY <1>1 DEF Distinct
<1>6. \A j \in 1..(n - 1) : j + 1 \in 1..n /\ j + 1 # 1 /\ Tail(s)[j] = s[j + 1]
  BY <1>3
<1>7. \A j \in 1..n : j = 1 \/ (j - 1 \in 1..(n - 1) /\ (j - 1) + 1 = j)
  OBVIOUS
<1>8. ToSet(s) = {s[j] : j \in 1..n} /\ ToSet(Tail(s)) = {Tail(s)[j] : j \in 1..(n - 1)}
  BY <1>1, <1>4 DEF ToSet
<1>9. Distinct(Tail(s))
  <2> SUFFICES ASSUME NEW j \in 1..(n - 1), NEW k \in 1..(n - 1), j # k PROVE Tail(s)[j] # Tail(s)[k]
    BY <1>4 DEF Distinct
  <2>1. j + 1 # k + 1
    OBVIOUS
  <2> QED
    BY <2>1, <1>5, <1>6
<1>10. \A x \in ToSet(Tail(s)) : x \in ToSet(s) \ {s[1]}
  <2> SUFFICES ASSUME NEW j \in 1..(n - 1) PROVE s[j + 1] \in ToSet(s) \ {s[1]}
    BY <1>6, <1>8
  <2> QED
    BY <1>1, <1>2, <1>5, <1>6, <1>8
<1>11. \A x \in ToSet(s) \ {s[1]} : x \in ToSet(Tail(s))
  <2> SUFFICES ASSUME NEW j \in 1..n, j # 1 PROVE s[j] \in ToSet(Tail(s))
    BY <1>8
  <2>1. j - 1 \in 1..(n - 1) /\ (j - 1) + 1 = j
    BY <1>7
  <2>2. Tail(s)[j - 1] = s[j]
    BY <2>1, <1>6
  <2> QED
    BY <2>1, <2>2, <1>8
<1> QED
  BY <1>1, <1>2, <1>3, <1>8, <1>9, <1>10, <1>11

\* The first and the last of some places of a queue.
LEMMA Ends ==
    ASSUME NEW n \in Nat, NEW T, T \subseteq 1..n, T # {}
    PROVE  Min(T) \in T /\ Max(T) \in T
<1>1. PICK x \in T : \A y \in T : x <= y
  <2>1. T \subseteq Nat
    OBVIOUS
  <2> QED
    BY <2>1, LeastNumber
<1>2. PICK U : U = {n - y : y \in T}
  OBVIOUS
<1>3. U \subseteq Nat /\ U # {}
  <2>1. \A y \in T : n - y \in Nat
    OBVIOUS
  <2> QED
    BY <2>1, <1>2
<1>4. PICK u \in U : \A v \in U : u <= v
  BY <1>3, LeastNumber
<1>5. PICK z \in T : u = n - z
  BY <1>2
<1>6. \A y \in T : z >= y
  <2> SUFFICES ASSUME NEW y \in T PROVE z >= y
    OBVIOUS
  <2>1. n - z <= n - y
    BY <1>2, <1>4, <1>5
  <2>2. z \in Nat /\ y \in Nat
    OBVIOUS
  <2> QED
    BY <2>1, <2>2
<1>7. \A y \in T : x =< y
  BY <1>1
<1>8. Min(T) \in T
  BY <1>7 DEF Min
<1>9. Max(T) \in T
  BY <1>6 DEF Max
<1> QED
  BY <1>8, <1>9

-----------------------------------------------------------------------------
(* Sums.                                                                   *)

Units(f) == UNION {{r} \X (1..f[r]) : r \in Req}

\* A sum of natural numbers is one.
LEMMA TotalNat ==
    ASSUME NEW f \in [Req -> Nat]
    PROVE  /\ Total(f) = Cardinality(Units(f)) /\ IsFiniteSet(Units(f)) /\ Total(f) \in Nat
           /\ \A x : x \in Units(f) <=> \E r \in Req : \E i \in 1..f[r] : x = <<r, i>>
<1>1. DOMAIN f = Req
  OBVIOUS
<1>2. Total(f) = Cardinality(Units(f))
  BY <1>1 DEF Total, Units
<1>3. PICK SS : SS = {{r} \X (1..f[r]) : r \in Req}
  OBVIOUS
<1>4. PICK g : g = [r \in Req |-> {r} \X (1..f[r])]
  OBVIOUS
<1>5. IsFiniteSet(SS)
  <2>1. g \in Surjection(Req, SS)
    BY <1>3, <1>4 DEF Surjection
  <2> QED
    BY <2>1, FS_Surjection, EngineAssumption
<1>6. \A T \in SS : IsFiniteSet(T)
  <2> SUFFICES ASSUME NEW r \in Req PROVE IsFiniteSet({r} \X (1..f[r]))
    BY <1>3
  <2>1. f[r] \in Nat /\ 1 \in Int /\ f[r] \in Int
    OBVIOUS
  <2>2. IsFiniteSet(1..f[r])
    BY <2>1, FS_Interval
  <2>3. IsFiniteSet({r})
    BY FS_Singleton
  <2> QED
    BY <2>2, <2>3, FS_Product
<1>7. IsFiniteSet(Units(f))
  BY <1>3, <1>5, <1>6, FS_UNION DEF Units
<1>8. \A x : x \in Units(f) <=> \E r \in Req : \E i \in 1..f[r] : x = <<r, i>>
  BY DEF Units
<1> QED
  BY <1>2, <1>7, <1>8, FS_CardinalityType

\* Smaller terms, smaller sum.
LEMMA TotalMono ==
    ASSUME NEW f \in [Req -> Nat], NEW g \in [Req -> Nat], \A r \in Req : f[r] <= g[r]
    PROVE  Total(f) <= Total(g)
<1>1. Units(f) \subseteq Units(g)
  <2>1. \A r \in Req : 1..f[r] \subseteq 1..g[r]
    OBVIOUS
  <2> QED
    BY <2>1, TotalNat
<1> QED
  BY <1>1, TotalNat, FS_Subset

\* Sums add up.
LEMMA TotalSum ==
    ASSUME NEW f \in [Req -> Nat], NEW g \in [Req -> Nat], NEW h \in [Req -> Nat],
           \A r \in Req : h[r] = f[r] + g[r]
    PROVE  Total(h) = Total(f) + Total(g)
<1>1. PICK W : W = UNION {{r} \X ((f[r] + 1)..h[r]) : r \in Req}
  OBVIOUS
<1>2. \A x : x \in W <=> \E r \in Req : \E i \in (f[r] + 1)..h[r] : x = <<r, i>>
  BY <1>1
<1>3. \A r \in Req : 1..h[r] = (1..f[r]) \cup ((f[r] + 1)..h[r]) /\ (1..f[r]) \cap ((f[r] + 1)..h[r]) = {}
  OBVIOUS
<1>4. Units(h) = Units(f) \cup W
  BY <1>2, <1>3, TotalNat
<1>5. Units(f) \cap W = {}
  BY <1>2, <1>3, TotalNat
<1>6. PICK m : m = [x \in Units(g) |-> <<x[1], x[2] + f[x[1]]>>]
  OBVIOUS
<1>7. \A r \in Req : \A i \in 1..g[r] : m[<<r, i>>] = <<r, i + f[r]>>
  <2> SUFFICES ASSUME NEW r \in Req, NEW i \in 1..g[r] PROVE m[<<r, i>>] = <<r, i + f[r]>>
    OBVIOUS
  <2>1. <<r, i>> \in Units(g)
    BY TotalNat
  <2> QED
    BY <1>6, <2>1
<1>8. m \in Surjection(Units(g), W)
  <2>1. ASSUME NEW x \in Units(g) PROVE m[x] \in W
    <3>1a. PICK r \in Req : \E i \in 1..g[r] : x = <<r, i>>
      BY TotalNat
    <3>1. PICK i \in 1..g[r] : x = <<r, i>>
      BY <3>1a
    <3>2. i + f[r] \in (f[r] + 1)..h[r]
      OBVIOUS
    <3> QED
      BY <1>2, <1>7, <3>1, <3>2
  <2>2. ASSUME NEW y \in W PROVE \E x \in Units(g) : m[x] = y
    <3>1a. PICK r \in Req : \E i \in (f[r] + 1)..h[r] : y = <<r, i>>
      BY <1>2
    <3>1. PICK i \in (f[r] + 1)..h[r] : y = <<r, i>>
      BY <3>1a
    <3>2. i - f[r] \in 1..g[r] /\ (i - f[r]) + f[r] = i
      OBVIOUS
    <3>3. <<r, i - f[r]>> \in Units(g) /\ m[<<r, i - f[r]>>] = y
      BY <1>7, <3>1, <3>2, TotalNat
    <3> QED
      BY <3>3
  <2>3. m \in [Units(g) -> W]
    BY <1>6, <2>1
  <2> QED
    BY <2>2, <2>3 DEF Surjection
<1>9. m \in Injection(Units(g), W)
  <2>1. ASSUME NEW x \in Units(g), NEW y \in Units(g), m[x] = m[y] PROVE x = y
    <3>1a. PICK r \in Req : \E i \in 1..g[r] : x = <<r, i>>
      BY TotalNat
    <3>1. PICK i \in 1..g[r] : x = <<r, i>>
      BY <3>1a
    <3>2a. PICK s \in Req : \E j \in 1..g[s] : y = <<s, j>>
      BY TotalNat
    <3>2. PICK j \in 1..g[s] : y = <<s, j>>
      BY <3>2a
    <3>3. <<r, i + f[r]>> = <<s, j + f[s]>>
      BY <2>1, <3>1, <3>2, <1>7
    <3>4. r = s /\ i + f[r] = j + f[r]
      BY <3>3
    <3>5. i = j
      BY <3>4
    <3> QED
      BY <3>1, <3>2, <3>4, <3>5
  <2>2. m \in [Units(g) -> W]
    BY <1>8 DEF Surjection
  <2>3. \A x, y \in Units(g) : m[x] = m[y] => x = y
    BY <2>1
  <2> QED
    BY <2>2, <2>3 DEF Injection, IsInjective
<1>10. IsFiniteSet(W) /\ Cardinality(W) = Cardinality(Units(g))
  <2>1. ExistsBijection(Units(g), W)
    BY <1>8, <1>9 DEF ExistsBijection, Bijection
  <2> QED
    BY <2>1, TotalNat, FS_Bijection
<1>11. Cardinality(Units(f) \cup W) = Cardinality(Units(f)) + Cardinality(W)
  <2>1. Cardinality(Units(f) \cup W) = Cardinality(Units(f)) + Cardinality(W) - Cardinality(Units(f) \cap W)
    BY <1>10, TotalNat, FS_Union
  <2>2. Cardinality(Units(f) \cap W) = 0
    BY <1>5, FS_EmptySet
  <2>3. Cardinality(Units(f)) \in Nat /\ Cardinality(W) \in Nat
    BY <1>10, TotalNat
  <2> QED
    BY <2>1, <2>2, <2>3
<1> QED
  BY <1>4, <1>10, <1>11, TotalNat

\* One term changes.
LEMMA TotalMove ==
    ASSUME NEW f \in [Req -> Nat], NEW g \in [Req -> Nat], NEW r \in Req,
           \A q \in Req : q # r => g[q] = f[q]
    PROVE  Total(g) + f[r] = Total(f) + g[r]
<1>1. PICK z : z = [f EXCEPT ![r] = 0]
  OBVIOUS
<1>2. PICK u : u = [q \in Req |-> IF q = r THEN f[r] ELSE 0]
  OBVIOUS
<1>3. PICK v : v = [q \in Req |-> IF q = r THEN g[r] ELSE 0]
  OBVIOUS
<1>4. z \in [Req -> Nat] /\ u \in [Req -> Nat] /\ v \in [Req -> Nat]
  BY <1>1, <1>2, <1>3
<1>5. ASSUME NEW n \in Nat, NEW w \in [Req -> Nat], w = [q \in Req |-> IF q = r THEN n ELSE 0]
      PROVE  Total(w) = n
  <2>1. Units(w) = {r} \X (1..n)
    <3>1. \A q \in Req : 1..w[q] = IF q = r THEN 1..n ELSE {}
      BY <1>5
    <3> QED
      BY <3>1 DEF Units
  <2>2. PICK T : T = 1..n
    OBVIOUS
  <2>3. PICK R : R = {r}
    OBVIOUS
  <2>4. IsFiniteSet(T) /\ Cardinality(T) = n
    BY <2>2, FS_Interval
  <2>5. IsFiniteSet(R) /\ Cardinality(R) = 1
    BY <2>3, FS_Singleton
  <2>6. Cardinality(R \X T) = Cardinality(R) * Cardinality(T)
    BY <2>4, <2>5, FS_Product
  <2>7. 1 * n = n
    OBVIOUS
  <2>8. Cardinality({r} \X (1..n)) = n
    BY <2>2, <2>3, <2>4, <2>5, <2>6, <2>7, Zenon
  <2> QED
    BY <2>1, <2>8, TotalNat
<1>6. \A q \in Req : f[q] = z[q] + u[q] /\ g[q] = z[q] + v[q]
  BY <1>1, <1>2, <1>3
<1>7. Total(f) = Total(z) + Total(u) /\ Total(g) = Total(z) + Total(v)
  BY <1>4, <1>6, TotalSum
<1>8. Total(u) = f[r]
  BY <1>2, <1>4, <1>5
<1>9. Total(v) = g[r]
  BY <1>3, <1>4, <1>5
<1>10. Total(z) \in Nat /\ f[r] \in Nat /\ g[r] \in Nat
  BY <1>4, TotalNat
<1> QED
  BY <1>7, <1>8, <1>9, <1>10

\* One term changes by at most n.
LEMMA TotalUp ==
    ASSUME NEW f \in [Req -> Nat], NEW g \in [Req -> Nat], NEW r \in Req,
           \A q \in Req : q # r => g[q] <= f[q],
           NEW n \in Nat, g[r] <= f[r] + n
    PROVE  Total(g) <= Total(f) + n
<1>1. PICK h : h = [f EXCEPT ![r] = f[r] + n]
  OBVIOUS
<1>2. h \in [Req -> Nat] /\ h[r] = f[r] + n /\ \A q \in Req : q # r => h[q] = f[q]
  BY <1>1
<1>3. Total(h) + f[r] = Total(f) + h[r]
  BY <1>2, TotalMove
<1>4. \A q \in Req : g[q] <= h[q]
  BY <1>2
<1>5. Total(g) <= Total(h)
  BY <1>2, <1>4, TotalMono
<1>6. Total(g) \in Nat /\ Total(h) \in Nat /\ Total(f) \in Nat /\ f[r] \in Nat
  BY <1>2, TotalNat
<1> QED
  BY <1>2, <1>3, <1>5, <1>6

-----------------------------------------------------------------------------
(* Lifetimes.                                                              *)

\* Whole pages of a position.
LEMMA DivFacts ==
    ASSUME NEW n \in Nat, NEW b \in Nat \ {0}
    PROVE  n \div b \in Nat /\ (n \div b) * b <= n /\ n < (n \div b) * b + b
OBVIOUS

\* Multiplication by the page size keeps and reflects the order.
LEMMA Scale ==
    ASSUME NEW x \in Nat, NEW y \in Nat, NEW b \in Nat \ {0}
    PROVE  x * b \in Nat /\ y * b \in Nat /\ (x * b < y * b => x < y) /\ (x <= y => x * b <= y * b)
OBVIOUS

\* A longer position has no fewer whole pages.
LEMMA DivMono ==
    ASSUME NEW m \in Nat, NEW n \in Nat, m <= n
    PROVE  m \div Page <= n \div Page
<1>1. Page \in Nat \ {0}
  BY EngineAssumption
<1>2. PICK x : x = m \div Page
  OBVIOUS
<1>3. PICK y : y = n \div Page
  OBVIOUS
<1>4. x \in Nat /\ x * Page <= m /\ y \in Nat /\ n < y * Page + Page
  BY <1>1, <1>2, <1>3, DivFacts
<1>5. y * Page + Page = (y + 1) * Page /\ y + 1 \in Nat
  BY <1>1, <1>4
<1>6. x * Page \in Nat /\ (y + 1) * Page \in Nat
  BY <1>1, <1>4, <1>5, Scale
<1>7. x * Page < (y + 1) * Page
  BY <1>4, <1>5, <1>6
<1>8. x < y + 1
  BY <1>1, <1>4, <1>5, <1>7, Scale
<1> QED
  BY <1>2, <1>3, <1>4, <1>8

\* One page more holds the next position.
LEMMA DivNext ==
    ASSUME NEW n \in Nat
    PROVE  (n + Page) \div Page = n \div Page + 1
<1>1. Page \in Nat \ {0}
  BY EngineAssumption
<1> QED
  BY <1>1

\* The pages of a position: whole ones, and one that is begun.
LEMMA CeilFacts ==
    ASSUME NEW n \in Nat
    PROVE  /\ Ceil(n) \in Nat /\ n \div Page \in Nat
           /\ n \div Page + 1 = Ceil(n + 1) /\ n \div Page <= Ceil(n)
           /\ \A m \in Nat : m <= n => Ceil(m) <= Ceil(n) /\ m \div Page <= n \div Page
<1>1. Page \in Nat \ {0}
  BY EngineAssumption
<1>2. \A m \in Nat : m + Page - 1 \in Nat /\ m <= m + Page - 1
  BY <1>1
<1>3. Ceil(n) \in Nat /\ n \div Page \in Nat
  BY <1>1, <1>2, DivFacts DEF Ceil
<1>4. n \div Page + 1 = Ceil(n + 1)
  <2>1. (n + 1) + Page - 1 = n + Page
    BY <1>1
  <2> QED
    BY <2>1, DivNext DEF Ceil
<1>5. n \div Page <= Ceil(n)
  BY <1>2, DivMono DEF Ceil
<1>6. ASSUME NEW m \in Nat, m <= n PROVE Ceil(m) <= Ceil(n) /\ m \div Page <= n \div Page
  <2>1. m + Page - 1 <= n + Page - 1
    BY <1>1, <1>6
  <2> QED
    BY <2>1, <1>2, <1>6, DivMono DEF Ceil
<1> QED
  BY <1>3, <1>4, <1>5, <1>6

\* The pages a request may hold, and the ones its resolve may bring.
LEMMA LifeFacts ==
    ASSUME NEW r \in Req
    PROVE  /\ In[r] \in Nat /\ In[r] # 0 /\ MaxOut[r] \in Nat /\ MaxOut[r] # 0
           /\ Life(r) \in Nat /\ Chain(r) \in Nat /\ FullPages(r) \in Nat
           /\ Ceil(In[r] + MaxOut[r]) <= Life(r)
           /\ ~Native(r) => Chain(r) <= Life(r) /\ \A m \in 0..Chain(r) : m * Page < In[r]
           /\ Native(r) => FullPages(r) + 1 <= Life(r)
           /\ Native(r) => Chain(r) = FullPages(r) + (IF In[r] % Page = 0 THEN 0 ELSE 1)
<1>1. /\ Page \in Nat \ {0} /\ In[r] \in Nat \ {0} /\ MaxOut[r] \in Nat \ {0} /\ In[r] - 1 \in Nat
      /\ In[r] + MaxOut[r] \in Nat /\ In[r] + 1 \in Nat /\ In[r] + 1 + MaxOut[r] \in Nat
  BY EngineAssumption
<1>2. Life(r) \in Nat /\ Ceil(In[r] + MaxOut[r]) <= Life(r)
  <2>1. In[r] + MaxOut[r] <= In[r] + 1 + MaxOut[r]
    BY <1>1
  <2> QED
    <3>1. Ceil(In[r] + MaxOut[r]) <= Ceil(In[r] + 1 + MaxOut[r])
      BY <1>1, <2>1, CeilFacts
    <3>2. Ceil(In[r] + MaxOut[r]) \in Nat /\ Ceil(In[r] + 1 + MaxOut[r]) \in Nat
      BY <1>1, CeilFacts
    <3>3. Life(r) = IF Native(r) THEN Ceil(In[r] + 1 + MaxOut[r]) ELSE Ceil(In[r] + MaxOut[r])
      BY DEF Life
    <3> QED
      BY <3>1, <3>2, <3>3
<1>3. FullPages(r) \in Nat /\ (In[r] - 1) \div Page \in Nat
  BY <1>1, CeilFacts DEF FullPages
<1>4. ~Native(r) => Chain(r) \in Nat /\ Chain(r) <= Life(r)
  <2>1. In[r] - 1 <= In[r] + MaxOut[r]
    BY <1>1
  <2>2. /\ (In[r] - 1) \div Page <= (In[r] + MaxOut[r]) \div Page
        /\ (In[r] + MaxOut[r]) \div Page <= Ceil(In[r] + MaxOut[r])
        /\ (In[r] + MaxOut[r]) \div Page \in Nat /\ Ceil(In[r] + MaxOut[r]) \in Nat
    BY <1>1, <2>1, CeilFacts
  <2> QED
    BY <1>2, <1>3, <2>2 DEF Chain
<1>5. ASSUME ~Native(r), NEW m \in 0..Chain(r) PROVE m * Page < In[r]
  <2>1. PICK x : x = (In[r] - 1) \div Page
    OBVIOUS
  <2>2. x \in Nat /\ x * Page <= In[r] - 1
    BY <1>1, <2>1, DivFacts
  <2>3. m \in Nat /\ m <= x
    BY <1>5, <2>1, <2>2 DEF Chain
  <2>4. m * Page <= x * Page /\ m * Page \in Nat /\ x * Page \in Nat
    BY <1>1, <2>2, <2>3, Scale
  <2> QED
    BY <1>1, <2>2, <2>4
<1>6. Native(r) => FullPages(r) + 1 <= Life(r)
  <2>1. FullPages(r) + 1 = Ceil(In[r] + 1)
    BY <1>1, CeilFacts DEF FullPages
  <2>2. In[r] + 1 <= In[r] + 1 + MaxOut[r]
    BY <1>1
  <2> QED
    BY <1>1, <2>1, <2>2, CeilFacts, ZenonT(60) DEF Life
<1>7. Native(r) => Chain(r) = FullPages(r) + (IF In[r] % Page = 0 THEN 0 ELSE 1)
  <2>1. FullPages(r) + 1 = Ceil(In[r] + 1)
    BY <1>1, CeilFacts DEF FullPages
  <2> QED
    BY <1>3, <2>1 DEF Chain, FullPages
<1> QED
  BY <1>1, <1>2, <1>3, <1>4, <1>5, <1>6, <1>7

-----------------------------------------------------------------------------
(* The books of the pool.                                                  *)

\* What the type invariant says of the pool's terms.
Terms ==
    /\ Usable \in Nat /\ sent \subseteq Req /\ active \subseteq Req
    /\ hold \in [Req -> Nat] /\ reserved \in [Req -> Nat]
    /\ resident \in [Req -> Nat] /\ guards \in [Req -> Nat]
    /\ \A r \in Req : Owed(r) \in Nat /\ Pins(r) \in Nat /\ Burden[r] = Owed(r) + Pins(r)
    /\ Burden \in [Req -> Nat]

\* The terms are natural numbers.
LEMMA TermsTyped == TypeOK => Terms
<1> SUFFICES ASSUME TypeOK PROVE Terms
  OBVIOUS
<1>1. /\ setup \in Setups /\ sent \subseteq setup.reqs /\ active \subseteq sent
      /\ hold \in [Req -> Nat] /\ reserved \in [Req -> Nat]
      /\ resident \in [Req -> Nat] /\ guards \in [Req -> Nat]
      /\ \A r \in active : resident[r] <= Life(r)
  BY DEF TypeOK
<1>2. Usable \in Nat /\ sent \subseteq Req /\ active \subseteq Req
  BY <1>1, EngineAssumption DEF Usable
<1>3. ASSUME NEW r \in Req PROVE Owed(r) \in Nat /\ Pins(r) \in Nat
  <2>1. Life(r) \in Nat /\ FullPages(r) \in Nat
    BY LifeFacts
  <2>2. resident[r] \in Nat /\ guards[r] \in Nat /\ reserved[r] \in Nat /\ hold[r] \in Nat
    BY <1>1
  <2> QED
    BY <2>1, <2>2, <1>1 DEF Owed, Pins, Most, Minus
<1>4. \A r \in Req : Burden[r] = Owed(r) + Pins(r)
  BY DEF Burden
<1>5. Burden \in [Req -> Nat]
  <2>1. \A r \in Req : Owed(r) + Pins(r) \in Nat
    BY <1>3
  <2> QED
    BY <2>1 DEF Burden
<1> QED
  BY <1>1, <1>2, <1>3, <1>4, <1>5 DEF Terms

\* What is owed, pinned and free adds up to the pool.
Balance ==
    /\ Total(Burden) \in Nat /\ Entitled \in Nat /\ Usable \in Nat /\ Available \in Int
    /\ Entitled = Total([r \in Req |-> Owed(r)])
    /\ Available + Total(Burden) = Usable + Entitled

\* The balance holds in every state.
LEMMA Balanced == TypeOK => Balance
<1> SUFFICES ASSUME TypeOK PROVE Balance
  OBVIOUS
<1>1. Terms
  BY TermsTyped
<1>2. PICK o : o = [r \in Req |-> Owed(r)]
  OBVIOUS
<1>3. PICK p : p = [r \in Req |-> Pins(r)]
  OBVIOUS
<1>4. o \in [Req -> Nat] /\ p \in [Req -> Nat] /\ Burden \in [Req -> Nat]
  BY <1>1, <1>2, <1>3 DEF Terms
<1>5. \A r \in Req : Burden[r] = o[r] + p[r]
  BY <1>1, <1>2, <1>3 DEF Terms
<1>6. Total(Burden) = Total(o) + Total(p) /\ Total(o) \in Nat /\ Total(p) \in Nat
  BY <1>4, <1>5, TotalSum, TotalNat
<1>7. Entitled = Total(o)
  <2>1. PICK e : e = [r \in active |-> Life(r) - resident[r]]
    OBVIOUS
  <2>2. DOMAIN e = active /\ DOMAIN o = Req /\ active \subseteq Req
    BY <2>1, <1>1, <1>2 DEF Terms
  <2>3. \A r \in active : e[r] = o[r]
    BY <2>1, <2>2, <1>2 DEF Owed
  <2>4. \A r \in Req \ active : 1..o[r] = {}
    BY <1>2 DEF Owed
  <2>5. UNION {{r} \X (1..e[r]) : r \in DOMAIN e} = UNION {{r} \X (1..o[r]) : r \in DOMAIN o}
    BY <2>2, <2>3, <2>4
  <2>6. Total(e) = Total(o)
    BY <2>5 DEF Total
  <2> QED
    BY <2>1, <2>6 DEF Entitled
<1>8. Available = Usable - Total(p) /\ Usable \in Nat
  BY <1>1, <1>3 DEF Available, Terms
<1> QED
  BY <1>2, <1>6, <1>7, <1>8 DEF Balance

\* A step that adds to no request's burden.
LEMMA CoveredKept ==
    ASSUME TypeOK, TypeOK', Covered, setup' = setup, pc' # "fatal",
           \A r \in Req : Burden'[r] <= Burden[r]
    PROVE  Covered'
<1>1. Burden \in [Req -> Nat] /\ Usable \in Nat
  BY TermsTyped DEF Terms
<1>2. Terms'
  BY TermsTyped, PTL
<1>3. Burden' \in [Req -> Nat]
  BY <1>2 DEF Terms
<1>4. Total(Burden') <= Total(Burden) /\ Total(Burden') \in Nat /\ Total(Burden) \in Nat
  BY <1>1, <1>3, TotalMono, TotalNat
<1>5. Total(Burden)' = Total(Burden') /\ Usable' = Usable
  BY DEF Total, Usable
<1>6. Total(Burden) <= Usable
  BY DEF Covered
<1>7. Total(Burden') <= Usable
  BY <1>1, <1>4, <1>6
<1> QED
  BY <1>5, <1>7 DEF Covered

\* A step that takes n blocks, which the pool has over what it owes, for a request.
LEMMA CoveredTaken ==
    ASSUME TypeOK, TypeOK', Covered, setup' = setup, pc' # "fatal",
           NEW r \in Req, NEW n \in Nat, Burden'[r] <= Burden[r] + n,
           \A q \in Req : q # r => Burden'[q] <= Burden[q],
           Available >= Entitled + n
    PROVE  Covered'
<1>1. Burden \in [Req -> Nat] /\ Usable \in Nat
  BY TermsTyped DEF Terms
<1>2. Terms'
  BY TermsTyped, PTL
<1>3. Burden' \in [Req -> Nat]
  BY <1>2 DEF Terms
<1>4. Total(Burden') <= Total(Burden) + n /\ Total(Burden') \in Nat /\ Total(Burden) \in Nat
  BY <1>1, <1>3, TotalUp, TotalNat
<1>5. Total(Burden)' = Total(Burden') /\ Usable' = Usable
  BY DEF Total, Usable
<1>6. Entitled \in Nat /\ Available \in Int /\ Available + Total(Burden) = Usable + Entitled
  BY Balanced DEF Balance
<1>7. Total(Burden') <= Usable
  BY <1>1, <1>4, <1>6
<1> QED
  BY <1>5, <1>7 DEF Covered

\* A request that gives blocks back, or none, is no heavier.
LEMMA Lighter ==
    ASSUME TypeOK, TypeOK', NEW r \in Req, r \in active' <=> r \in active,
           resident'[r] = resident[r], guards'[r] <= guards[r],
           reserved'[r] <= reserved[r], hold'[r] <= hold[r]
    PROVE  Burden'[r] <= Burden[r]
<1>1. /\ resident[r] \in Nat /\ guards[r] \in Nat /\ reserved[r] \in Nat /\ hold[r] \in Nat
      /\ guards'[r] \in Nat /\ reserved'[r] \in Nat /\ hold'[r] \in Nat /\ FullPages(r) \in Nat
      /\ Life(r) \in Nat /\ (r \in active => resident[r] <= Life(r))
  BY LifeFacts DEF TypeOK
<1>2. Owed(r)' = Owed(r) /\ Owed(r) \in Nat
  BY <1>1 DEF Owed
<1>3. Pins(r)' <= Pins(r) /\ Pins(r) \in Nat /\ Pins(r)' \in Nat
  BY <1>1 DEF Pins, Most, Minus
<1>4. Burden'[r] = Owed(r)' + Pins(r)' /\ Burden[r] = Owed(r) + Pins(r)
  BY DEF Burden
<1> QED
  BY <1>2, <1>3, <1>4

-----------------------------------------------------------------------------
(* Clients.                                                                *)

\* Clients come and go.
LEMMA ClientsPool ==
    ASSUME PoolInv, CopyInv', HangUp \/ \E r \in Req : Submit(r) \/ Disconnect(r)
    PROVE  PoolInv'
<1>1. TypeOK /\ CopyInv /\ Places /\ Forms /\ Admitted /\ Covered
  BY DEF PoolInv
<1>2. /\ UNCHANGED <<setup, done, task, form, cached, polls, query, lease, load, hold, reserved, resident,
                     guards, pin, save>>
      /\ UNCHANGED <<ready, pending, inflight, active, deferred, leased, consume, expect, pos, out,
                     matched, span, pc, cand, budget>>
  BY DEF HangUp, Submit, Disconnect, tasks, pins, saves, queues, slots, seqs, thread
<1>3. /\ sent \subseteq sent' /\ closed' \subseteq sent'
      /\ \/ UNCHANGED <<sent, submit>>
         \/ \E r \in setup.reqs \ sent : sent' = sent \cup {r} /\ submit' = Append(submit, r)
  BY <1>1 DEF HangUp, Submit, Disconnect, TypeOK
<1>4. setup.reqs \subseteq Req /\ submit \in Seq(Req) /\ ToSet(submit) \subseteq sent
  BY <1>1, EngineAssumption DEF TypeOK, CopyInv, Shapes
<1>5. /\ ToSet(submit') \subseteq sent' /\ sent' \subseteq setup.reqs /\ Distinct(submit')
      /\ \A r \in Req : r \notin sent' \/ r \in ToSet(submit') => r \notin sent \/ r \in ToSet(submit)
  <2>1. CASE UNCHANGED <<sent, submit>>
    BY <2>1, <1>1, <1>4 DEF Places, TypeOK
  <2>2. ASSUME NEW r \in setup.reqs \ sent, sent' = sent \cup {r}, submit' = Append(submit, r)
        PROVE  <1>5
    <3>1. ToSet(submit') = ToSet(submit) \cup {r}
      BY <2>2, <1>4, Sent
    <3>2. Distinct(submit')
      BY <2>2, <1>1, <1>4, SentDistinct DEF Places
    <3> QED
      BY <2>2, <3>1, <3>2, <1>1, <1>4 DEF TypeOK
  <2> QED
    BY <2>1, <2>2, <1>3
<1>6. TypeOK'
  BY <1>1, <1>2, <1>3, <1>5 DEF TypeOK
<1>7. Places'
  <2>1. \A r \in Req : (Early(r)' => Early(r)) /\ (Queued(r)' <=> Queued(r)) /\ (Fresh(r)' <=> Fresh(r))
    BY <1>2, <1>5 DEF Early, Queued, Fresh
  <2> QED
    BY <2>1, <1>1, <1>2, <1>5 DEF Places
<1>8. Forms'
  BY <1>1, <1>2 DEF Forms, Queued, ZeroCapacity
<1>9. Admitted'
  BY <1>1, <1>2 DEF Admitted, Position, SpanFits, MidPrefill
<1>10. Covered'
  <2>1. \A r \in Req : Burden'[r] = Burden[r]
    BY <1>2 DEF Burden, Owed, Pins
  <2>2. \A r \in Req : Burden[r] \in Nat
    BY <1>1, TermsTyped DEF Terms
  <2>3. \A r \in Req : Burden'[r] <= Burden[r]
    BY <2>1, <2>2
  <2> QED
    BY <2>3, <1>1, <1>2, <1>6, CoveredKept DEF Covered
<1> QED
  BY <1>6, <1>7, <1>8, <1>9, <1>10 DEF PoolInv

-----------------------------------------------------------------------------
(* Resolve tasks.                                                          *)

\* What a step of r's task, or of a detached call it left behind, may write.
Aside(r) ==
    /\ form' \in [Req -> {"plain", "native", "failed"}] /\ cached' \in [Req -> Nat]
    /\ polls' \in [Req -> Nat] /\ lease' \in [Req -> Nat]
    /\ query' \in [Req -> {"none", "asked", "miss", "loading", "failed", "hit"}]
    /\ hold' \in [Req -> Nat] /\ reserved' \in [Req -> Nat]
    /\ \A q \in Req \ {r} : /\ task'[q] = task[q] /\ form'[q] = form[q] /\ cached'[q] = cached[q]
                            /\ lease'[q] = lease[q] /\ hold'[q] = hold[q] /\ reserved'[q] = reserved[q]
    /\ cached'[r] <= Chain(r) /\ lease'[r] <= Chain(r)
    /\ hold'[r] <= Chain(r) /\ reserved'[r] <= Chain(r)

\* The task goes on, or its result is sent with a verdict the form says.
Goes(r) ==
    /\ ready' = ready /\ form'[r] = form[r] /\ hold'[r] = hold[r]
    /\ task'[r] = task[r] \/ (task[r] \in Busy /\ task'[r] \in Busy)
Sends(r) ==
    /\ task[r] \in Busy /\ task'[r] = "sent" /\ ready' = Append(ready, r)
    /\ form'[r] = "plain" => ~Native(r)
    /\ form'[r] = "native" => Native(r) /\ (Kind[r] = "native" => hold'[r] = Chain(r))

\* The blocks a task takes are given back, moved, or spare.
Pays(r) ==
    \/ hold'[r] <= hold[r] /\ reserved'[r] <= reserved[r]
    \/ task[r] \in Busy /\ hold'[r] + reserved'[r] <= hold[r] + reserved[r]
    \/ /\ task[r] \in Busy /\ hold'[r] + reserved'[r] <= hold[r] + reserved[r] + lease[r]
       /\ Available >= lease[r] + Entitled

\* A request the engine thread does not have yet burdens the pool with its hold
\* and its reservation.
LEMMA EarlyBurden ==
    ASSUME TypeOK, NEW r \in Req, Fresh(r)
    PROVE  Burden[r] = hold[r] + reserved[r]
<1>1. resident[r] = 0 /\ guards[r] = 0 /\ reserved[r] \in Nat /\ hold[r] \in Nat /\ r \notin active
  BY DEF TypeOK, Fresh
<1>2. Owed(r) = 0 /\ Pins(r) = reserved[r] + hold[r]
  BY <1>1 DEF Owed, Pins, Most
<1> QED
  BY <1>1, <1>2 DEF Burden

\* A task's step keeps the invariant.
LEMMA ResolvePool ==
    ASSUME PoolInv, CopyInv', NEW r \in Req, UNCHANGED <<still, resident, guards>>,
           Aside(r), Goes(r) \/ Sends(r), Pays(r)
    PROVE  PoolInv'
<1>1. TypeOK /\ CopyInv /\ Places /\ Forms /\ Admitted /\ Covered
  BY DEF PoolInv
<1>2. /\ UNCHANGED <<setup, sent, submit, open, closed, done, resident, guards, pin, save, pending>>
      /\ UNCHANGED <<inflight, active, deferred, leased, consume, expect, pos, out,
                     matched, span, pc, cand, budget>>
  BY DEF still, clients, saves, slots, seqs, thread
<1>3. ready \in Seq(Req) /\ sent \subseteq Req
  BY <1>1 DEF CopyInv, Shapes
<1>4. Sends(r) => /\ r \in sent /\ r \notin ToSet(submit) /\ Early(r) /\ ~Queued(r) /\ Fresh(r)
                  /\ ToSet(ready') = ToSet(ready) \cup {r} /\ Distinct(ready')
  <2> SUFFICES ASSUME Sends(r) PROVE <1>4!2
    OBVIOUS
  <2>1. r \in sent /\ r \notin ToSet(submit)
    BY <1>1 DEF CopyInv, Unstarted, Sends, Busy
  <2>2. Early(r) /\ ~Queued(r) /\ Fresh(r)
    BY <1>1 DEF Places, Early, Sends
  <2>3. ToSet(ready') = ToSet(ready) \cup {r}
    BY <1>3, Sent DEF Sends
  <2>4. Distinct(ready')
    BY <1>1, <1>3, <2>2, SentDistinct DEF Sends, Places, Queued
  <2> QED
    BY <2>1, <2>2, <2>3, <2>4
<1>5. TypeOK'
  <2>1. ToSet(ready') \subseteq sent
    BY <1>1, <1>4 DEF Goes, TypeOK
  <2>2. /\ task' \in [Req -> {"none", "begin", "waiting", "paused", "leased", "loading", "sent"}]
        /\ load' \in [Req -> {"none", "copying", "ok", "failed"}]
    BY DEF CopyInv, Shapes, Busy
  <2> QED
    BY <1>1, <1>2, <2>1, <2>2 DEF TypeOK, Aside
<1>6. Places'
  <2>1. \A q \in Req : Fresh(q)' <=> Fresh(q)
    BY <1>2 DEF Fresh
  <2>2. CASE Goes(r)
    <3>1. \A q \in Req : (Early(q)' => Early(q)) /\ (Queued(q)' <=> Queued(q))
      BY <2>2, <1>2 DEF Early, Queued, Goes, Aside
    <3> QED
      BY <3>1, <2>1, <2>2, <1>1, <1>2 DEF Places, Goes
  <2>3. CASE Sends(r)
    <3>1. \A q \in Req \ {r} : /\ Early(q)' => Early(q)
                               /\ Queued(q)' <=> Queued(q)
                               /\ q \in ToSet(ready') <=> q \in ToSet(ready)
      BY <2>3, <1>2, <1>4 DEF Early, Queued, Aside
    <3>2. ~Early(r)' /\ Fresh(r)' /\ r \notin ToSet(pending) /\ r # cand
      BY <2>1, <2>3, <1>2, <1>4 DEF Early, Sends, Busy, Queued
    <3>3. /\ Distinct(submit') /\ Distinct(ready') /\ Distinct(pending') /\ pending' \in Seq(Req)
          /\ IF pc' = "take" THEN cand' \in Req /\ Cardinality(active') < Slots ELSE cand' = NoReq
      BY <2>3, <1>1, <1>2, <1>4 DEF Places
    <3>4. ASSUME NEW q \in Req \ {r}
          PROVE  /\ Early(q)' => ~Queued(q)'
                 /\ q \in ToSet(ready') => q \notin ToSet(pending') /\ q # cand'
                 /\ q \in ToSet(pending') => q # cand'
                 /\ Early(q)' \/ Queued(q)' => Fresh(q)'
      BY <3>1, <2>1, <1>1, <1>2 DEF Places
    <3> QED
      BY <3>2, <3>3, <3>4, <1>2 DEF Places
  <2> QED
    BY <2>2, <2>3
<1>7. Forms'
  <2>1. ASSUME NEW q \in Req
        PROVE  /\ lease'[q] <= Chain(q) /\ reserved'[q] <= Chain(q)
               /\ hold'[q] <= Chain(q) /\ cached'[q] <= Chain(q)
    <3>1. /\ lease[q] <= Chain(q) /\ reserved[q] <= Chain(q)
          /\ hold[q] <= Chain(q) /\ cached[q] <= Chain(q)
      BY <1>1 DEF Forms
    <3> QED
      BY <3>1 DEF Aside
  <2>2. ASSUME NEW q \in Req, q # r
        PROVE  /\ task'[q] = task[q] /\ form'[q] = form[q] /\ hold'[q] = hold[q]
               /\ Queued(q)' <=> Queued(q)
    BY <2>2, <1>2, <1>4 DEF Aside, Queued, Goes
  <2>3. /\ Queued(r)' => (Sends(r) \/ (Queued(r) /\ form'[r] = form[r] /\ hold'[r] = hold[r]))
        /\ task'[r] = "none" => form'[r] = "plain"
    BY <1>1, <1>2 DEF Goes, Sends, Queued, Busy, Forms
  <2>4. ASSUME NEW q \in Req
        PROVE  /\ task'[q] = "none" => form'[q] = "plain"
               /\ Queued(q)' /\ form'[q] = "plain" => ~Native(q)
               /\ Queued(q)' /\ form'[q] = "native" =>
                      Native(q) /\ (Kind[q] = "native" => hold'[q] = Chain(q))
    BY <2>2, <2>3, <1>1 DEF Forms, Sends
  <2>5. ASSUME pc' \in {"admit", "take"}, NEW q \in Req, q \in ToSet(pending') \/ q = cand'
        PROVE  ~ZeroCapacity(q)'
    <3>1. Queued(q) /\ ~ZeroCapacity(q)
      BY <2>5, <1>1, <1>2 DEF Forms, Queued
    <3>2. form'[q] = form[q]
      BY <3>1, <2>2, <1>4 DEF Goes
    <3> QED
      BY <3>1, <3>2 DEF ZeroCapacity
  <2> QED
    BY <2>1, <2>4, <2>5 DEF Forms, Aside
<1>8. Admitted'
  BY <1>1, <1>2 DEF Admitted, Position, SpanFits, MidPrefill
<1>9. Covered'
  <2>1. \A q \in Req : q # r => Burden'[q] <= Burden[q]
    <3> SUFFICES ASSUME NEW q \in Req, q # r PROVE Burden'[q] <= Burden[q]
      OBVIOUS
    <3>1. hold'[q] = hold[q] /\ reserved'[q] = reserved[q] /\ hold[q] \in Nat /\ reserved[q] \in Nat
      BY <1>1 DEF Aside, TypeOK
    <3>2. guards'[q] = guards[q] /\ guards[q] \in Nat /\ resident'[q] = resident[q] /\ active' = active
      BY <1>1, <1>2 DEF TypeOK
    <3> QED
      BY <3>1, <3>2, <1>1, <1>5, Lighter
  <2>2. task[r] \in Busy => Burden[r] = hold[r] + reserved[r] /\ Burden'[r] = hold'[r] + reserved'[r]
    <3> SUFFICES ASSUME task[r] \in Busy PROVE <2>2!2
      OBVIOUS
    <3>1. Fresh(r) /\ Fresh(r)'
      BY <1>1, <1>2 DEF Places, Early, Fresh
    <3>2. Burden[r] = hold[r] + reserved[r]
      BY <3>1, <1>1, EarlyBurden
    <3>3. /\ resident'[r] = 0 /\ guards'[r] = 0 /\ reserved'[r] \in Nat /\ hold'[r] \in Nat
          /\ r \notin active'
      BY <3>1, <1>5 DEF TypeOK, Fresh
    <3>4. Owed(r)' = 0 /\ Pins(r)' = reserved'[r] + hold'[r]
      BY <3>3 DEF Owed, Pins, Most
    <3>5. Burden'[r] = Owed(r)' + Pins(r)'
      BY DEF Burden
    <3> QED
      BY <3>2, <3>3, <3>4, <3>5
  <2>3. /\ hold[r] \in Nat /\ reserved[r] \in Nat /\ lease[r] \in Nat
        /\ hold'[r] \in Nat /\ reserved'[r] \in Nat
        /\ setup' = setup /\ pc' # "fatal"
    BY <1>1, <1>2, <1>5 DEF TypeOK, Covered
  <2>4. CASE hold'[r] <= hold[r] /\ reserved'[r] <= reserved[r]
    <3>1. guards'[r] = guards[r] /\ guards[r] \in Nat /\ resident'[r] = resident[r] /\ active' = active
      BY <1>1, <1>2 DEF TypeOK
    <3>2. Burden'[r] <= Burden[r]
      BY <2>4, <3>1, <1>1, <1>5, Lighter
    <3> QED
      BY <3>2, <2>1, <2>3, <1>1, <1>5, CoveredKept
  <2>5. CASE task[r] \in Busy /\ hold'[r] + reserved'[r] <= hold[r] + reserved[r]
    <3>1. Burden'[r] <= Burden[r]
      BY <2>2, <2>3, <2>5
    <3> QED
      BY <3>1, <2>1, <2>3, <1>1, <1>5, CoveredKept
  <2>6. CASE /\ task[r] \in Busy /\ hold'[r] + reserved'[r] <= hold[r] + reserved[r] + lease[r]
             /\ Available >= lease[r] + Entitled
    <3>1. Burden'[r] <= Burden[r] + lease[r]
      BY <2>2, <2>3, <2>6
    <3>2. Available >= Entitled + lease[r]
      BY <2>3, <2>6, <1>1, Balanced DEF Balance
    <3> QED
      BY <3>1, <3>2, <2>1, <2>3, <1>1, <1>5, CoveredTaken
  <2> QED
    BY <2>4, <2>5, <2>6 DEF Pays
<1> QED
  BY <1>5, <1>6, <1>7, <1>8, <1>9 DEF PoolInv

\* finish and the native's verdict: what they hand over.
LEMMA Concluded ==
    ASSUME PoolInv, NEW r \in Req, task[r] \in Busy, NEW h \in Nat, h <= Chain(r), Conclude(r, h)
    PROVE  /\ Sends(r) /\ hold'[r] <= h /\ hold'[r] <= Chain(r) /\ cached'[r] <= Chain(r)
           /\ form' \in [Req -> {"plain", "native", "failed"}] /\ cached' \in [Req -> Nat]
           /\ hold' \in [Req -> Nat]
           /\ \A q \in Req \ {r} : /\ task'[q] = task[q] /\ form'[q] = form[q]
                                   /\ cached'[q] = cached[q] /\ hold'[q] = hold[q]
<1>1. TypeOK /\ Forms
  BY DEF PoolInv
<1>2. /\ task \in [Req -> {"none", "begin", "waiting", "paused", "leased", "loading", "sent"}]
      /\ form \in [Req -> {"plain", "native", "failed"}] /\ cached \in [Req -> Nat] /\ hold \in [Req -> Nat]
  BY <1>1 DEF TypeOK, Forms
<1>3. PICK short : short = (Kind[r] = "native" /\ h < Chain(r))
  OBVIOUS
<1>4. /\ hold' = [hold EXCEPT ![r] = IF short THEN 0 ELSE h]
      /\ cached' = [cached EXCEPT ![r] = h]
      /\ form' = [form EXCEPT ![r] = IF short THEN "failed" ELSE IF Native(r) THEN "native" ELSE "plain"]
      /\ task' = [task EXCEPT ![r] = "sent"] /\ ready' = Append(ready, r)
  BY <1>3, Zenon DEF Conclude
<1>5. /\ hold'[r] = (IF short THEN 0 ELSE h) /\ cached'[r] = h /\ task'[r] = "sent"
      /\ form'[r] = IF short THEN "failed" ELSE IF Native(r) THEN "native" ELSE "plain"
  BY <1>2, <1>4
<1>6. \A q \in Req \ {r} : /\ task'[q] = task[q] /\ form'[q] = form[q]
                           /\ cached'[q] = cached[q] /\ hold'[q] = hold[q]
  BY <1>2, <1>4
<1>7. /\ form' \in [Req -> {"plain", "native", "failed"}] /\ cached' \in [Req -> Nat]
      /\ hold' \in [Req -> Nat]
  BY <1>2, <1>4
<1>8. Chain(r) \in Nat
  BY LifeFacts
<1>9. ASSUME Kind[r] = "native", form'[r] = "native" PROVE hold'[r] = Chain(r)
  <2>1. ~short
    BY <1>5, <1>9
  <2>2. ~(h < Chain(r))
    BY <1>3, <1>9, <2>1, Zenon
  <2> QED
    BY <1>5, <1>8, <2>1, <2>2
<1>10. Sends(r)
  BY <1>4, <1>5, <1>9 DEF Sends
<1> QED
  BY <1>5, <1>6, <1>7, <1>8, <1>10

\* The tasks, the tier and the saves.
LEMMA TasksPool ==
    ASSUME PoolInv, CopyInv', NEW r \in Req, Task(r)
    PROVE  PoolInv'
<1>1. TypeOK /\ CopyInv /\ Places /\ Forms /\ Admitted /\ Covered
  BY DEF PoolInv
<1>2. /\ task \in [Req -> {"none", "begin", "waiting", "paused", "leased", "loading", "sent"}]
      /\ query \in [Req -> {"none", "asked", "miss", "loading", "failed", "hit"}]
      /\ polls \in [Req -> Nat] /\ lease \in [Req -> Nat] /\ cached \in [Req -> Nat]
      /\ hold \in [Req -> Nat] /\ reserved \in [Req -> Nat] /\ guards \in [Req -> Nat]
      /\ form \in [Req -> {"plain", "native", "failed"}]
  BY <1>1 DEF TypeOK, Forms
<1>3. /\ Chain(r) \in Nat /\ 0 <= Chain(r) /\ 0 \in Nat
      /\ lease[r] <= Chain(r) /\ reserved[r] <= Chain(r)
      /\ hold[r] <= Chain(r) /\ cached[r] <= Chain(r)
  BY <1>1, LifeFacts DEF Forms
<1>4. Conclude(r, 0) /\ task[r] \in Busy => hold'[r] = 0
  BY <1>2, <1>3 DEF Conclude
<1>5. CASE Poll(r)
  <2>1. /\ task[r] \in Busy /\ UNCHANGED <<still, lease, load, reserved, resident, guards>>
    BY <1>5 DEF Poll, Busy
  <2>2. CASE Conclude(r, 0) /\ UNCHANGED <<polls, query>>
    <3>1. Aside(r) /\ Sends(r)
      BY <2>1, <2>2, <1>2, <1>3, Concluded DEF Aside
    <3>2. Pays(r)
      BY <2>1, <2>2, <1>2, <1>4 DEF Pays
    <3> QED
      BY <2>1, <3>1, <3>2, ResolvePool
  <2>3. CASE /\ polls' = [polls EXCEPT ![r] = @ + 1] /\ query' = [query EXCEPT ![r] = "asked"]
             /\ task' = [task EXCEPT ![r] = "waiting"] /\ UNCHANGED <<form, cached, hold, ready>>
    <3>1. Aside(r)
      BY <2>1, <2>3, <1>2, <1>3 DEF Aside
    <3>2. Goes(r) /\ Pays(r)
      BY <2>1, <2>3, <1>2 DEF Goes, Pays, Busy
    <3> QED
      BY <2>1, <3>1, <3>2, ResolvePool
  <2> QED
    BY <1>5, <2>2, <2>3 DEF Poll
<1>6. CASE TierAnswers(r)
  <2>1. /\ query[r] = "asked" /\ UNCHANGED <<still, task, form, cached, polls, load, pins, ready>>
        /\ \E a \in {"miss", "loading", "failed", "hit"}, n \in 0..Chain(r) :
               /\ query' = [query EXCEPT ![r] = IF task[r] = "waiting" THEN a ELSE "none"]
               /\ lease' = [lease EXCEPT ![r] = n]
    <3>1. PICK a \in {"miss", "loading", "failed", "hit"},
               k \in (IF Native(r) THEN {Chain(r)} ELSE 1..Chain(r)) :
           /\ query' = [query EXCEPT ![r] = IF task[r] = "waiting" THEN a ELSE "none"]
           /\ lease' = [lease EXCEPT ![r] = IF a # "hit" THEN 0
                                            ELSE IF task[r] = "waiting" THEN k ELSE 0]
      BY <1>6, Zenon DEF TierAnswers, LateLease
    <3>2. k \in 0..Chain(r) /\ 0 \in 0..Chain(r)
      BY <1>3
    <3>3. PICK n : n = IF a # "hit" THEN 0 ELSE IF task[r] = "waiting" THEN k ELSE 0
      OBVIOUS
    <3>4. n \in 0..Chain(r) /\ lease' = [lease EXCEPT ![r] = n]
      BY <3>1, <3>2, <3>3
    <3> QED
      BY <1>6, <3>1, <3>4 DEF TierAnswers
  <2>2. PICK a \in {"miss", "loading", "failed", "hit"}, n \in 0..Chain(r) :
               /\ query' = [query EXCEPT ![r] = IF task[r] = "waiting" THEN a ELSE "none"]
               /\ lease' = [lease EXCEPT ![r] = n]
    BY <2>1
  <2>3. UNCHANGED <<hold, reserved, resident, guards>>
    BY <2>1 DEF pins
  <2>4. n \in Nat /\ n <= Chain(r)
    BY <1>3
  <2>5. Aside(r)
    BY <2>1, <2>2, <2>3, <2>4, <1>2, <1>3 DEF Aside
  <2>6. Goes(r) /\ Pays(r)
    BY <2>1, <2>3, <1>2 DEF Goes, Pays
  <2> QED
    BY <2>1, <2>3, <2>5, <2>6, ResolvePool
<1>7. CASE QueryDeadline(r)
  <2>1. /\ task[r] \in Busy /\ UNCHANGED <<still, polls, query, lease, load, reserved, resident, guards>>
        /\ Conclude(r, 0)
    BY <1>7 DEF QueryDeadline, Busy
  <2>2. Aside(r) /\ Sends(r)
    BY <2>1, <1>2, <1>3, Concluded DEF Aside
  <2>3. Pays(r)
    BY <2>1, <1>2, <1>4 DEF Pays
  <2> QED
    BY <2>1, <2>2, <2>3, ResolvePool
<1>8. CASE TakeAnswer(r)
  <2>1. PICK fits : fits = (query[r] = "hit" /\ Available >= lease[r] + Entitled)
    OBVIOUS
  <2>2. /\ task[r] = "waiting" /\ UNCHANGED <<still, polls, load, resident, guards>>
        /\ query' = [query EXCEPT ![r] = "none"]
        /\ reserved' = [reserved EXCEPT ![r] = IF fits THEN lease[r] ELSE 0]
        /\ lease' = [lease EXCEPT ![r] = IF fits THEN lease[r] ELSE 0]
        /\ \/ Conclude(r, 0)
           \/ /\ task' = [task EXCEPT ![r] = IF fits THEN "leased" ELSE "paused"]
              /\ UNCHANGED <<form, cached, hold, ready>>
    BY <1>8, <2>1 DEF TakeAnswer
  <2>3. task[r] \in Busy
    BY <2>2 DEF Busy
  <2>4. /\ reserved' \in [Req -> Nat] /\ lease' \in [Req -> Nat] /\ polls' = polls
        /\ query' \in [Req -> {"none", "asked", "miss", "loading", "failed", "hit"}]
        /\ reserved'[r] = (IF fits THEN lease[r] ELSE 0) /\ lease'[r] = IF fits THEN lease[r] ELSE 0
        /\ \A q \in Req \ {r} : reserved'[q] = reserved[q] /\ lease'[q] = lease[q]
    BY <2>2, <1>2
  <2>5. reserved'[r] <= Chain(r) /\ lease'[r] <= Chain(r)
    BY <2>4, <1>3
  <2>6. hold'[r] <= hold[r] => Pays(r)
    <3> SUFFICES ASSUME hold'[r] <= hold[r], hold'[r] \in Nat PROVE Pays(r)
      BY <2>2, <1>2, <1>4, <2>3
    <3>1. hold[r] \in Nat /\ lease[r] \in Nat /\ reserved[r] \in Nat
      BY <1>2
    <3>2. CASE fits
      <4>1. hold'[r] + reserved'[r] <= hold[r] + reserved[r] + lease[r]
        BY <2>4, <3>1, <3>2
      <4> QED
        BY <4>1, <2>1, <2>3, <3>2 DEF Pays
    <3>3. CASE ~fits
      <4>1. reserved'[r] <= reserved[r]
        BY <2>4, <3>1, <3>3
      <4> QED
        BY <4>1 DEF Pays
    <3> QED
      BY <3>2, <3>3
  <2>7. CASE Conclude(r, 0)
    <3>1. Aside(r) /\ Sends(r)
      BY <2>3, <2>4, <2>5, <2>7, <1>2, <1>3, Concluded DEF Aside
    <3>2. Pays(r)
      BY <2>3, <2>6, <2>7, <1>2, <1>4
    <3> QED
      BY <2>2, <3>1, <3>2, ResolvePool
  <2>8. CASE /\ task' = [task EXCEPT ![r] = IF fits THEN "leased" ELSE "paused"]
             /\ UNCHANGED <<form, cached, hold, ready>>
    <3>1. task'[r] \in Busy /\ \A q \in Req \ {r} : task'[q] = task[q]
      BY <2>8, <1>2 DEF Busy
    <3>2. Aside(r)
      BY <2>4, <2>5, <2>8, <3>1, <1>2, <1>3 DEF Aside
    <3>3. Goes(r)
      BY <2>3, <2>8, <3>1 DEF Goes
    <3>4. Pays(r)
      BY <2>6, <2>8, <1>2
    <3> QED
      BY <2>2, <3>2, <3>3, <3>4, ResolvePool
  <2> QED
    BY <2>2, <2>7, <2>8
<1>9. CASE StartLoad(r)
  <2>1. task[r] \in Busy /\ UNCHANGED <<still, polls, query, resident, guards>>
    BY <1>9 DEF StartLoad, Busy
  <2>2. CASE /\ Conclude(r, 0)
             /\ lease' = [lease EXCEPT ![r] = 0] /\ reserved' = [reserved EXCEPT ![r] = 0]
    <3>1. /\ reserved' \in [Req -> Nat] /\ lease' \in [Req -> Nat] /\ reserved'[r] = 0 /\ lease'[r] = 0
          /\ \A q \in Req \ {r} : reserved'[q] = reserved[q] /\ lease'[q] = lease[q]
      BY <2>2, <1>2
    <3>2. Aside(r) /\ Sends(r)
      BY <2>1, <2>2, <3>1, <1>2, <1>3, Concluded DEF Aside
    <3>3. Pays(r)
      BY <2>1, <2>2, <3>1, <1>2, <1>4 DEF Pays
    <3> QED
      BY <2>1, <3>2, <3>3, ResolvePool
  <2>3. CASE /\ task' = [task EXCEPT ![r] = "loading"]
             /\ UNCHANGED <<form, cached, hold, ready, lease, reserved>>
    <3>1. Aside(r)
      BY <2>1, <2>3, <1>2, <1>3 DEF Aside
    <3>2. Goes(r) /\ Pays(r)
      BY <2>1, <2>3, <1>2 DEF Goes, Pays, Busy
    <3> QED
      BY <2>1, <3>1, <3>2, ResolvePool
  <2> QED
    BY <1>9, <2>2, <2>3 DEF StartLoad
<1>10. CASE LoadSettles(r)
  <2>1. /\ UNCHANGED <<still, task, form, cached, polls, query, hold, resident, guards, ready>>
        /\ lease' = [lease EXCEPT ![r] = 0]
        /\ UNCHANGED reserved \/ reserved' = [reserved EXCEPT ![r] = 0]
    BY <1>10 DEF LoadSettles
  <2>2. /\ reserved' \in [Req -> Nat] /\ lease' \in [Req -> Nat] /\ reserved'[r] <= reserved[r] /\ lease'[r] = 0
        /\ \A q \in Req \ {r} : reserved'[q] = reserved[q] /\ lease'[q] = lease[q]
    BY <2>1, <1>2
  <2>3. reserved'[r] <= Chain(r)
    BY <2>2, <1>2, <1>3
  <2>4. Aside(r)
    BY <2>1, <2>2, <2>3, <1>2, <1>3 DEF Aside
  <2>5. Goes(r) /\ Pays(r)
    BY <2>1, <2>2, <1>2 DEF Goes, Pays
  <2> QED
    BY <2>1, <2>4, <2>5, ResolvePool
<1>11. CASE TakeLoad(r)
  <2>1. PICK h : h = IF load[r] = "ok" THEN reserved[r] ELSE 0
    OBVIOUS
  <2>2. /\ task[r] \in Busy /\ UNCHANGED <<still, polls, query, lease, resident, guards>>
        /\ Conclude(r, h) /\ reserved' = [reserved EXCEPT ![r] = 0]
    BY <1>11, <2>1 DEF TakeLoad, Busy
  <2>3. h \in Nat /\ h <= Chain(r) /\ h <= reserved[r]
    BY <2>1, <1>2, <1>3
  <2>4. /\ reserved' \in [Req -> Nat] /\ reserved'[r] = 0
        /\ \A q \in Req \ {r} : reserved'[q] = reserved[q]
    BY <2>2, <1>2
  <2>5. Aside(r) /\ Sends(r)
    BY <2>2, <2>3, <2>4, <1>2, <1>3, Concluded DEF Aside
  <2>6. Pays(r)
    <3>1. hold'[r] <= h /\ hold'[r] \in Nat
      BY <2>2, <2>3, Concluded
    <3>2. hold'[r] + reserved'[r] <= hold[r] + reserved[r]
      BY <3>1, <2>3, <2>4, <1>2
    <3> QED
      BY <3>2, <2>2 DEF Pays
  <2> QED
    BY <2>2, <2>5, <2>6, ResolvePool
<1>12. CASE LoadDeadline(r)
  <2>1. /\ task[r] \in Busy /\ UNCHANGED <<still, polls, query, lease, load, reserved, resident, guards>>
        /\ Conclude(r, 0)
    BY <1>12 DEF LoadDeadline, Busy
  <2>2. Aside(r) /\ Sends(r)
    BY <2>1, <1>2, <1>3, Concluded DEF Aside
  <2>3. Pays(r)
    BY <2>1, <1>2, <1>4 DEF Pays
  <2> QED
    BY <2>1, <2>2, <2>3, ResolvePool
<1>13. CASE SaveLands(r) \/ GuardsDrop(r) \/ WatcherSettles(r)
  <2>1. /\ UNCHANGED <<setup, sent, submit, open, closed, done, task, form, cached, polls, query, lease, load>>
        /\ UNCHANGED <<hold, reserved, resident, ready, pending, inflight, active, deferred, leased>>
        /\ UNCHANGED <<consume, expect, pos, out, matched, span, pc, cand, budget>>
        /\ save' = save \/ save' = [save EXCEPT ![r] = "landed"]
        /\ pin' = pin \/ pin' = [pin EXCEPT ![r] = 0]
        /\ guards' = guards \/ guards' = [guards EXCEPT ![r] = 0]
    BY <1>13 DEF SaveLands, GuardsDrop, WatcherSettles, quiet, clients, tasks, pins, saves, queues,
       slots, seqs, thread
  <2>2. /\ save' \in [Req -> {"none", "copying", "landed"}] /\ pin' \in [Req -> Nat]
        /\ guards' \in [Req -> Nat] /\ \A q \in Req : guards'[q] = guards[q] \/ guards'[q] = 0
    BY <2>1, <1>1 DEF TypeOK
  <2>3. TypeOK'
    BY <2>1, <2>2, <1>1 DEF TypeOK
  <2>4. Places'
    <3>1. \A q \in Req : /\ Early(q)' <=> Early(q)
                         /\ Queued(q)' <=> Queued(q)
                         /\ Fresh(q) => Fresh(q)'
      BY <2>1, <2>2 DEF Early, Queued, Fresh
    <3> QED
      BY <3>1, <2>1, <1>1 DEF Places
  <2>5. Forms'
    BY <2>1, <1>1 DEF Forms, Queued, ZeroCapacity
  <2>6. Admitted'
    <3>1. active \subseteq Req
      BY <1>1, TermsTyped DEF Terms
    <3> QED
      BY <2>1, <2>2, <3>1, <1>1 DEF Admitted, Position, SpanFits, MidPrefill
  <2>7. \A q \in Req : Burden'[q] <= Burden[q]
    <3> SUFFICES ASSUME NEW q \in Req PROVE Burden'[q] <= Burden[q]
      OBVIOUS
    <3>1. guards[q] \in Nat /\ guards'[q] <= guards[q]
      BY <2>2, <1>2
    <3>2. reserved[q] \in Nat /\ hold[q] \in Nat
      BY <1>2
    <3> QED
      BY <3>1, <3>2, <2>1, <2>3, <1>1, Lighter
  <2>8. Covered'
    BY <2>1, <2>3, <2>7, <1>1, CoveredKept DEF Covered
  <2> QED
    BY <2>3, <2>4, <2>5, <2>6, <2>8 DEF PoolInv
<1> QED
  BY <1>5, <1>6, <1>7, <1>8, <1>9, <1>10, <1>11, <1>12, <1>13 DEF Task

-----------------------------------------------------------------------------
(* The engine thread: the queue.                                           *)

\* A step that moves requests between the queue and the thread's hands, answers
\* some and drops holds.
LEMMA QueuePool ==
    ASSUME PoolInv, CopyInv',
           UNCHANGED <<setup, sent, submit, open, closed, task, form, cached, polls, query, lease, load>>,
           UNCHANGED <<reserved, resident, guards, pin, save, ready, inflight, active, deferred, leased>>,
           UNCHANGED <<consume, expect, pos, out, matched, span>>,
           done' \in [Req -> {"no", "rejected", "finished", "dropped", "error", "cut"}], budget' \in Nat,
           pending' \in Seq(Req), Distinct(pending'),
           \A r \in Req : r \in ToSet(pending') \/ r = cand' => r \in ToSet(pending) \/ r = cand,
           \A r \in Req : r \in ToSet(pending') => r # cand',
           hold' \in [Req -> Nat],
           \A r \in Req : \/ hold'[r] = hold[r]
                          \/ hold'[r] = 0 /\ (r \in ToSet(pending') \/ r = cand' => form[r] = "plain"),
           \A r \in Req : hold'[r] # hold[r] => r \in ToSet(pending) \/ r = cand,
           IF pc' = "take" THEN cand' \in Req /\ Cardinality(active) < Slots ELSE cand' = NoReq,
           pc' \in {"drain", "admit", "take", "step", "desync", "exit",
                    "teardown", "flush", "late", "freed", "leaked"},
           pc' \in {"admit", "take"} => pc \in {"admit", "take"}
    PROVE  PoolInv'
<1>1. TypeOK /\ CopyInv /\ Places /\ Forms /\ Admitted /\ Covered
  BY DEF PoolInv
<1>2. ToSet(pending') \subseteq sent
  <2>1. ToSet(pending') \subseteq Req
    <3>1. DOMAIN pending' = 1..Len(pending') /\ \A i \in 1..Len(pending') : pending'[i] \in Req
      BY LenProperties
    <3> QED
      BY <3>1 DEF ToSet
  <2>2. cand \in Req => cand \in sent
    <3> SUFFICES ASSUME cand \in Req, cand \notin sent PROVE FALSE
      OBVIOUS
    <3> QED
      BY <1>1 DEF Places, Early, Queued
  <2>3. ToSet(pending) \subseteq sent
    BY <1>1 DEF TypeOK
  <2> QED
    BY <2>1, <2>2, <2>3
<1>3. TypeOK'
  BY <1>1, <1>2 DEF TypeOK
<1>4. \A r \in Req : /\ Early(r)' <=> Early(r)
                     /\ Queued(r)' => Queued(r)
                     /\ Fresh(r)' <=> Fresh(r)
  BY DEF Early, Queued, Fresh
<1>5. Places'
  <2>1. \A r \in Req : /\ Early(r)' => ~Queued(r)'
                       /\ r \in ToSet(ready') => r \notin ToSet(pending') /\ r # cand'
                       /\ Early(r)' \/ Queued(r)' => Fresh(r)'
    BY <1>1, <1>4 DEF Places
  <2> QED
    BY <2>1, <1>1 DEF Places
<1>6. Forms'
  <2>1. ASSUME NEW r \in Req
        PROVE  /\ lease'[r] <= Chain(r) /\ reserved'[r] <= Chain(r)
               /\ hold'[r] <= Chain(r) /\ cached'[r] <= Chain(r)
    <3>1. hold'[r] = hold[r] \/ hold'[r] = 0
      BY Zenon
    <3>2. /\ lease[r] <= Chain(r) /\ reserved[r] <= Chain(r) /\ hold[r] <= Chain(r)
          /\ cached[r] <= Chain(r) /\ 0 <= Chain(r)
      BY <1>1, LifeFacts DEF Forms
    <3> QED
      BY <3>1, <3>2
  <2>2. ASSUME NEW r \in Req
        PROVE  /\ task'[r] = "none" => form'[r] = "plain"
               /\ Queued(r)' /\ form'[r] = "plain" => ~Native(r)
               /\ Queued(r)' /\ form'[r] = "native" =>
                      Native(r) /\ (Kind[r] = "native" => hold'[r] = Chain(r))
    <3>1. Queued(r)' /\ form[r] = "native" => hold'[r] = hold[r]
      BY <1>1 DEF Queued, Places
    <3> QED
      BY <3>1, <1>1, <1>4 DEF Forms
  <2>3. ASSUME pc' \in {"admit", "take"}, NEW r \in Req, r \in ToSet(pending') \/ r = cand'
        PROVE  ~ZeroCapacity(r)'
    BY <2>3, <1>1 DEF Forms, ZeroCapacity
  <2> QED
    BY <2>1, <2>2, <2>3, <1>1 DEF Forms
<1>7. Admitted'
  BY <1>1 DEF Admitted, Position, SpanFits, MidPrefill
<1>8. Covered'
  <2>1. \A r \in Req : Burden'[r] <= Burden[r]
    <3> SUFFICES ASSUME NEW r \in Req PROVE Burden'[r] <= Burden[r]
      OBVIOUS
    <3>1. hold'[r] = hold[r] \/ hold'[r] = 0
      BY Zenon
    <3>2. guards[r] \in Nat /\ reserved[r] \in Nat /\ hold[r] \in Nat
      BY <1>1 DEF TypeOK
    <3>3. hold'[r] <= hold[r]
      BY <3>1, <3>2
    <3> QED
      BY <3>2, <3>3, <1>1, <1>3, Lighter
  <2> QED
    BY <2>1, <1>1, <1>3, CoveredKept
<1> QED
  BY <1>3, <1>5, <1>6, <1>7, <1>8 DEF PoolInv

\* Admission around the queue, and the ends of the engine.
LEMMA ThreadPool ==
    ASSUME PoolInv, CopyInv',
           \/ DropFront \/ Shed \/ Pick \/ AdmitEnds \/ Defer
           \/ StepDesyncs \/ Fatal \/ FlushLoads \/ FlushSaves
    PROVE  PoolInv'
<1>1. TypeOK /\ CopyInv /\ Places /\ Forms
  BY DEF PoolInv
<1>2. /\ hold \in [Req -> Nat] /\ budget \in Nat
      /\ done \in [Req -> {"no", "rejected", "finished", "dropped", "error", "cut"}]
      /\ pending \in Seq(Req) /\ Distinct(pending) /\ NoReq \notin Req
      /\ \A r \in Req : r \in ToSet(pending) => r # cand
      /\ IF pc = "take" THEN cand \in Req /\ Cardinality(active) < Slots ELSE cand = NoReq
  BY <1>1, EngineAssumption DEF TypeOK, Places
<1>3. /\ Len(pending) \in Nat /\ DOMAIN pending = 1..Len(pending)
      /\ \A i \in 1..Len(pending) : pending[i] \in Req /\ pending[i] \in ToSet(pending)
  BY <1>2, LenProperties DEF ToSet
<1>4. ASSUME pending # <<>> PROVE 1 \in 1..Len(pending) /\ First \in Req /\ First \in ToSet(pending)
  <2>1. 1 \in 1..Len(pending)
    BY <1>2, <1>3, <1>4, EmptySeq
  <2> QED
    BY <2>1, <1>3 DEF First
<1>5. CASE DropFront
  <2>1. /\ pc = "admit" /\ pc' = "admit" /\ pending # <<>> /\ cand' = cand /\ budget' = budget
        /\ hold' = [hold EXCEPT ![First] = 0] /\ pending' = Tail(pending)
        /\ done' = [r \in Req |-> IF r = First THEN (IF Open(1) THEN "rejected" ELSE "dropped") ELSE done[r]]
        /\ UNCHANGED <<setup, sent, submit, open, closed, task, form, cached, polls, query, lease, load>>
        /\ UNCHANGED <<reserved, resident, guards, pin, save, ready, inflight, active, deferred, leased>>
        /\ UNCHANGED <<consume, expect, pos, out, matched, span>>
    BY <1>5 DEF DropFront, Admitting, Answer, afloat, tasks, saves, slots, seqs
  <2>2. /\ pending' \in Seq(Req) /\ Distinct(pending') /\ ToSet(pending') = ToSet(pending) \ {First}
    BY <2>1, <1>2, Dropped DEF First
  <2>3. First \in Req /\ First \in ToSet(pending) /\ cand = NoReq
    BY <2>1, <1>2, <1>4
  <2>4. hold' \in [Req -> Nat] /\ hold'[First] = 0 /\ \A r \in Req : r # First => hold'[r] = hold[r]
    BY <2>1, <2>3, <1>2
  <2>5. done' \in [Req -> {"no", "rejected", "finished", "dropped", "error", "cut"}]
    BY <2>1, <1>2
  <2>6. \A r \in Req : \/ hold'[r] = hold[r]
                       \/ hold'[r] = 0 /\ (r \in ToSet(pending') \/ r = cand' => form[r] = "plain")
    BY <2>1, <2>2, <2>3, <2>4, <1>2
  <2>7. \A r \in Req : hold'[r] # hold[r] => r \in ToSet(pending) \/ r = cand
    BY <2>3, <2>4
  <2>8. \A r \in Req : r \in ToSet(pending') \/ r = cand' => r \in ToSet(pending) \/ r = cand
    BY <2>1, <2>2
  <2>9. \A r \in Req : r \in ToSet(pending') => r # cand'
    BY <2>1, <2>2, <1>2
  <2> QED
    BY <2>1, <2>2, <2>3, <2>4, <2>5, <2>6, <2>7, <2>8, <2>9, <1>2, QueuePool
<1>6. CASE Shed
  <2>1. PICK i : i = Max(Sheddable)
    OBVIOUS
  <2>2. /\ pc = "admit" /\ UNCHANGED <<pc, pending, cand, budget, done>>
        /\ hold' = [hold EXCEPT ![pending[i]] = 0] /\ Sheddable # {}
        /\ UNCHANGED <<setup, sent, submit, open, closed, task, form, cached, polls, query, lease, load>>
        /\ UNCHANGED <<reserved, resident, guards, pin, save, ready, inflight, active, deferred, leased>>
        /\ UNCHANGED <<consume, expect, pos, out, matched, span>>
    BY <1>6, <2>1 DEF Shed, Stalled, Admitting, afloat, tasks, saves, slots, seqs
  <2>3. Sheddable \subseteq 1..Len(pending)
    BY <1>3 DEF Sheddable
  <2>4. i \in Sheddable
    BY <2>1, <2>2, <2>3, <1>3, Ends
  <2>5. pending[i] \in Req /\ pending[i] \in ToSet(pending) /\ form[pending[i]] = "plain"
    BY <2>3, <2>4, <1>3 DEF Sheddable
  <2>6. /\ hold' \in [Req -> Nat] /\ hold'[pending[i]] = 0
        /\ \A r \in Req : r # pending[i] => hold'[r] = hold[r]
    BY <2>2, <2>5, <1>2
  <2>7. \A r \in Req : \/ hold'[r] = hold[r]
                       \/ hold'[r] = 0 /\ (r \in ToSet(pending') \/ r = cand' => form[r] = "plain")
    BY <2>5, <2>6
  <2>8. \A r \in Req : hold'[r] # hold[r] => r \in ToSet(pending) \/ r = cand
    BY <2>5, <2>6
  <2> QED
    BY <2>2, <2>6, <2>7, <2>8, <1>2, QueuePool
<1>7. CASE Pick
  <2>1. PICK i : i = IF Stalled THEN Min(Passable) ELSE 1
    OBVIOUS
  <2>2. /\ pc = "admit" /\ pc' = "take" /\ pending # <<>> /\ Cardinality(active) < Slots
        /\ Stalled => Passable # {}
        /\ cand' = pending[i] /\ pending' = RemoveAt(pending, i) /\ UNCHANGED <<budget, done, hold>>
        /\ UNCHANGED <<setup, sent, submit, open, closed, task, form, cached, polls, query, lease, load>>
        /\ UNCHANGED <<reserved, resident, guards, pin, save, ready, inflight, active, deferred, leased>>
        /\ UNCHANGED <<consume, expect, pos, out, matched, span>>
    BY <1>7, <2>1 DEF Pick, Admitting, afloat, tasks, saves, slots, seqs
  <2>3. Passable \subseteq 1..Len(pending)
    BY <1>3 DEF Passable
  <2>4. i \in 1..Len(pending)
    <3>1. CASE Stalled
      <4>1. Min(Passable) \in Passable
        BY <2>2, <2>3, <3>1, <1>3, Ends
      <4> QED
        BY <4>1, <2>1, <2>3, <3>1
    <3>2. CASE ~Stalled
      BY <2>1, <2>2, <3>2, <1>4
    <3> QED
      BY <3>1, <3>2
  <2>5. /\ pending' \in Seq(Req) /\ Distinct(pending')
        /\ cand' \in ToSet(pending) /\ ToSet(pending') = ToSet(pending) \ {cand'}
    BY <2>2, <2>4, <1>2, Taken
  <2>6. cand' \in Req
    BY <2>2, <2>4, <1>3
  <2>7. hold' \in [Req -> Nat] /\ \A r \in Req : hold'[r] = hold[r]
    BY <2>2, <1>2
  <2> QED
    BY <2>2, <2>5, <2>6, <2>7, <1>2, QueuePool
<1>8. CASE Defer
  <2>1. /\ pc = "take" /\ pc' \in {"drain", "step"} /\ pending' = <<cand>> \o pending /\ cand' = NoReq
        /\ budget' = 0 /\ UNCHANGED <<done, hold>>
        /\ UNCHANGED <<setup, sent, submit, open, closed, task, form, cached, polls, query, lease, load>>
        /\ UNCHANGED <<reserved, resident, guards, pin, save, ready, inflight, active, deferred, leased>>
        /\ UNCHANGED <<consume, expect, pos, out, matched, span>>
    BY <1>8 DEF Defer, afloat, tasks, saves, slots, seqs
  <2>2. cand \in Req /\ cand \notin ToSet(pending)
    BY <2>1, <1>2
  <2>3. <<cand>> \in Seq(Req) /\ ToSet(<<cand>>) = {cand} /\ Distinct(<<cand>>)
    BY <2>2 DEF ToSet, Distinct
  <2>4. /\ pending' \in Seq(Req) /\ Distinct(pending') /\ ToSet(pending') = {cand} \cup ToSet(pending)
    <3>1. pending \in Seq(Req) /\ Distinct(pending)
      BY <1>2
    <3>2. PICK one : one = <<cand>>
      OBVIOUS
    <3>3. one \in Seq(Req) /\ ToSet(one) = {cand} /\ Distinct(one)
      BY <2>3, <3>2
    <3>4. ToSet(one) \cap ToSet(pending) = {}
      BY <2>2, <3>3
    <3>5. /\ one \o pending \in Seq(Req) /\ ToSet(one \o pending) = ToSet(one) \cup ToSet(pending)
          /\ Distinct(one \o pending)
      BY <3>1, <3>3, <3>4, Joined
    <3>6. pending' = one \o pending
      BY <2>1, <3>2
    <3> QED
      BY <3>3, <3>5, <3>6
  <2>5. hold' \in [Req -> Nat] /\ \A r \in Req : hold'[r] = hold[r] /\ r # cand'
    BY <2>1, <1>2
  <2> QED
    BY <2>1, <2>2, <2>4, <2>5, <1>2, QueuePool
<1>9. CASE AdmitEnds \/ StepDesyncs \/ Fatal \/ FlushLoads \/ FlushSaves
  <2>1. /\ UNCHANGED <<pending, cand, hold>> /\ budget' \in {0, budget} /\ pc # "take"
        /\ \/ done' = done
           \/ \E T : done' = [r \in Req |-> IF r \notin sent \/ done[r] # "no" THEN done[r]
                                            ELSE IF r \in T THEN "error" ELSE "cut"]
        /\ pc' \in {"drain", "step", "desync", "exit", "flush", "late", "freed", "leaked"}
        /\ UNCHANGED <<setup, sent, submit, open, closed, task, form, cached, polls, query, lease, load>>
        /\ UNCHANGED <<reserved, resident, guards, pin, save, ready, inflight, active, deferred, leased>>
        /\ UNCHANGED <<consume, expect, pos, out, matched, span>>
    <3>1. CASE AdmitEnds
      BY <3>1 DEF AdmitEnds, afloat, tasks, saves, slots, seqs
    <3>2. CASE StepDesyncs
      BY <3>2 DEF StepDesyncs, still_stepping, clients, tasks, saves, queues
    <3>3. CASE Fatal
      BY <3>3 DEF Fatal, tasks, pins, saves, queues, slots, seqs
    <3>4. CASE FlushLoads \/ FlushSaves
      BY <3>4 DEF FlushLoads, FlushSaves, Disposition, clients, tasks, pins, saves, queues, slots, seqs
    <3> QED
      BY <1>9, <3>1, <3>2, <3>3, <3>4
  <2>2. done' \in [Req -> {"no", "rejected", "finished", "dropped", "error", "cut"}]
    BY <2>1, <1>2
  <2>3. hold' \in [Req -> Nat] /\ \A r \in Req : hold'[r] = hold[r]
    BY <2>1, <1>2
  <2>4. budget' \in Nat
    BY <2>1, <1>2
  <2> QED
    BY <2>1, <2>2, <2>3, <2>4, <1>2, QueuePool
<1> QED
  BY <1>5, <1>6, <1>7, <1>8, <1>9

\* Intake: every request is in one place still, and the natives that need no
\* capacity are gone before admission.
LEMMA IntakePool ==
    ASSUME PoolInv, CopyInv', Intake
    PROVE  PoolInv'
<1>1. TypeOK /\ CopyInv /\ Places /\ Forms /\ Admitted /\ Covered
  BY DEF PoolInv
<1>a. PICK took : took = ToSet(submit) \ {r \in Req : Rejects(r)}
  OBVIOUS
<1>b. PICK spawned : spawned = {r \in took : setup.cache \/ Native(r)}
  OBVIOUS
<1>c. PICK fresh : fresh = Without(submit, Req \ (took \ spawned))
  OBVIOUS
<1>d. PICK queue : queue = pending \o fresh \o ready
  OBVIOUS
<1>e. PICK swept : swept = {r \in ToSet(queue) : leased = {} /\ ZeroCapacity(r)}
  OBVIOUS
<1>2. /\ pc = "drain" /\ submit' = <<>> /\ ready' = <<>>
      /\ task' = [r \in Req |-> IF r \in spawned THEN "begin" ELSE task[r]]
      /\ pending' = Without(queue, swept)
      /\ done' = [r \in Req |-> IF r \in swept THEN "finished"
                                ELSE IF r \in ToSet(submit) \ took THEN "rejected" ELSE done[r]]
      /\ hold' = [r \in Req |-> IF r \in swept THEN 0 ELSE hold[r]]
      /\ budget' = IF leased = {} THEN Minus(Usable, PinnedBlocks) ELSE 0
      /\ pc' \in {"teardown", "admit", "step"}
      /\ pc' = "admit" => leased = {}
      /\ UNCHANGED <<setup, sent, open, closed, form, cached, polls, query, lease, load, reserved, resident>>
      /\ UNCHANGED <<guards, pin, save, active, deferred, leased, consume, expect, pos, out, matched>>
      /\ UNCHANGED <<span, cand>>
  BY <1>a, <1>b, <1>c, <1>d, <1>e DEF Intake, saves, slots, seqs
<1>3. /\ submit \in Seq(Req) /\ ready \in Seq(Req) /\ pending \in Seq(Req)
      /\ Distinct(submit) /\ Distinct(ready) /\ Distinct(pending)
      /\ cand = NoReq /\ NoReq \notin Req /\ ToSet(submit) \subseteq sent /\ sent \subseteq Req
      /\ ToSet(ready) \subseteq sent /\ ToSet(pending) \subseteq sent
  BY <1>1, <1>2, EngineAssumption DEF CopyInv, Shapes, Unstarted, Places, TypeOK
<1>4. /\ took \subseteq ToSet(submit) /\ spawned \subseteq took /\ spawned \subseteq Req
      /\ \A r \in took \ spawned : ~Native(r)
  BY <1>3, <1>a, <1>b
<1>5. fresh \in Seq(Req) /\ ToSet(fresh) = took \ spawned /\ Distinct(fresh)
  <2>1. fresh \in Seq(Req) /\ ToSet(fresh) = ToSet(submit) \ (Req \ (took \ spawned)) /\ Distinct(fresh)
    BY <1>3, <1>c, WithoutFacts
  <2> QED
    BY <2>1, <1>3, <1>4
<1>6. \A r \in ToSet(submit) : /\ r \in Req /\ r \notin ToSet(ready) /\ r \notin ToSet(pending)
                               /\ Fresh(r) /\ task[r] = "none" /\ form[r] = "plain"
  <2> SUFFICES ASSUME NEW r \in ToSet(submit)
               PROVE  /\ r \in Req /\ r \notin ToSet(ready) /\ r \notin ToSet(pending)
                      /\ Fresh(r) /\ task[r] = "none" /\ form[r] = "plain"
    OBVIOUS
  <2>1. r \in Req /\ Early(r)
    BY <1>3 DEF Early
  <2>2. ~Queued(r) /\ Fresh(r)
    BY <2>1, <1>1 DEF Places
  <2>3. task[r] = "none"
    BY <2>1, <1>1 DEF CopyInv, Unstarted
  <2> QED
    BY <2>1, <2>2, <2>3, <1>1 DEF Queued, Forms
<1>7. \A r \in Req : r \in ToSet(ready) => r \notin ToSet(pending)
  BY <1>1 DEF Places
<1>8. /\ queue \in Seq(Req) /\ ToSet(queue) = ToSet(pending) \cup (took \ spawned) \cup ToSet(ready)
      /\ Distinct(queue)
  <2>1. PICK s : s = pending \o fresh
    OBVIOUS
  <2>2. s \in Seq(Req) /\ ToSet(s) = ToSet(pending) \cup ToSet(fresh)
    BY <2>1, <1>3, <1>5, Joined
  <2>3. ToSet(pending) \cap ToSet(fresh) = {}
    BY <1>4, <1>5, <1>6
  <2>4. Distinct(s)
    BY <2>1, <2>3, <1>3, <1>5, Joined
  <2>5. ToSet(s) \cap ToSet(ready) = {}
    BY <2>2, <1>3, <1>4, <1>5, <1>6, <1>7
  <2>6. queue = s \o ready
    BY <2>1, <1>d
  <2> QED
    BY <2>2, <2>4, <2>5, <2>6, <1>3, <1>5, Joined
<1>9. pending' \in Seq(Req) /\ ToSet(pending') = ToSet(queue) \ swept /\ Distinct(pending')
  BY <1>2, <1>8, WithoutFacts
<1>10. <<>> \in Seq(Req) /\ ToSet(<<>>) = {} /\ Distinct(<<>>)
  BY DEF ToSet, Distinct
<1>11. ToSet(queue) \subseteq sent /\ swept \subseteq ToSet(queue)
  BY <1>3, <1>4, <1>8, <1>e
<1>12. /\ hold \in [Req -> Nat] /\ hold' \in [Req -> Nat]
       /\ \A r \in Req : hold'[r] = IF r \in swept THEN 0 ELSE hold[r]
  BY <1>1, <1>2 DEF TypeOK
<1>13. TypeOK'
  <2>1. done' \in [Req -> {"no", "rejected", "finished", "dropped", "error", "cut"}]
    BY <1>1, <1>2 DEF TypeOK
  <2>2. task' \in [Req -> {"none", "begin", "waiting", "paused", "leased", "loading", "sent"}]
    BY DEF CopyInv, Shapes, Busy
  <2>3. budget' \in Nat
    <3>1. Usable \in Nat /\ PinnedBlocks \in Nat
      BY <1>1, TermsTyped, TotalNat DEF Terms, PinnedBlocks, TypeOK
    <3> QED
      BY <3>1, <1>2 DEF Minus
  <2>4. inflight' \in Nat
    <3>1. IsFiniteSet(Running') /\ Running' \subseteq Req
      BY EngineAssumption, FS_Subset DEF Running
    <3>2. Cardinality(Running') \in Nat
      BY <3>1, FS_CardinalityType
    <3>3. Len(ready') = 0
      BY <1>2
    <3>4. inflight' = Cardinality(Running') + Len(ready')
      BY DEF CopyInv, InflightExact
    <3> QED
      BY <3>2, <3>3, <3>4
  <2>5. ToSet(submit') \cup ToSet(ready') \cup ToSet(pending') \subseteq sent
    BY <1>2, <1>9, <1>10, <1>11
  <2> QED
    BY <2>1, <2>2, <2>3, <2>4, <2>5, <1>1, <1>2, <1>12 DEF TypeOK
<1>14. \A r \in Req : Fresh(r)' <=> Fresh(r)
  BY <1>2 DEF Fresh
<1>15. \A r \in Req : Early(r)' <=> (r \notin sent \/ r \in spawned \/ task[r] \in Busy)
  BY <1>2, <1>10 DEF Early, Busy
<1>16. \A r \in Req : Queued(r)' <=> r \in ToSet(queue) \ swept
  BY <1>2, <1>3, <1>9, <1>10 DEF Queued
<1>17. \A r \in ToSet(queue) : /\ r \in Req /\ r \in sent /\ r \notin spawned /\ task[r] \notin Busy /\ Fresh(r)
                               /\ Queued(r) \/ (r \in took \ spawned /\ task[r] = "none")
  <2> SUFFICES ASSUME NEW r \in ToSet(queue)
               PROVE  /\ r \in Req /\ r \in sent /\ r \notin spawned /\ task[r] \notin Busy /\ Fresh(r)
                      /\ Queued(r) \/ (r \in took \ spawned /\ task[r] = "none")
    OBVIOUS
  <2>1. r \in Req /\ r \in sent
    BY <1>3, <1>11
  <2>2. CASE r \in took \ spawned
    BY <2>1, <2>2, <1>4, <1>6 DEF Busy
  <2>3. CASE r \in ToSet(pending) \cup ToSet(ready)
    <3>1. Queued(r) /\ ~Early(r) /\ Fresh(r)
      BY <2>1, <2>3, <1>1 DEF Places, Queued
    <3>2. r \notin ToSet(submit)
      BY <2>3, <1>6
    <3> QED
      BY <2>1, <3>1, <3>2, <1>4 DEF Early
  <2> QED
    BY <2>2, <2>3, <1>8
<1>18. Places'
  <2>1. ASSUME NEW r \in Req
        PROVE  /\ Early(r)' => ~Queued(r)'
               /\ Early(r)' \/ Queued(r)' => Fresh(r)'
    <3>1. Early(r)' => ~Queued(r)'
      BY <1>15, <1>16, <1>17
    <3>2. Early(r)' => Fresh(r)
      BY <1>15, <1>4, <1>6, <1>1 DEF Places, Early
    <3>3. Queued(r)' => Fresh(r)
      BY <1>16, <1>17
    <3> QED
      BY <3>1, <3>2, <3>3, <1>14
  <2>2. \A r \in Req : r \notin ToSet(ready') /\ r # cand'
    BY <1>2, <1>3, <1>10
  <2> QED
    BY <2>1, <2>2, <1>2, <1>3, <1>9, <1>10 DEF Places
<1>19. Forms'
  <2>1. ASSUME NEW r \in Req
        PROVE  /\ lease'[r] <= Chain(r) /\ reserved'[r] <= Chain(r)
               /\ hold'[r] <= Chain(r) /\ cached'[r] <= Chain(r)
    <3>1. /\ lease[r] <= Chain(r) /\ reserved[r] <= Chain(r) /\ hold[r] <= Chain(r)
          /\ cached[r] <= Chain(r) /\ 0 <= Chain(r)
      BY <1>1, LifeFacts DEF Forms
    <3> QED
      BY <3>1, <1>2, <1>12
  <2>2. ASSUME NEW r \in Req
        PROVE  task'[r] = "none" => form'[r] = "plain"
    BY <1>1, <1>2 DEF Forms
  <2>3. ASSUME NEW r \in Req, Queued(r)'
        PROVE  /\ form'[r] = "plain" => ~Native(r)
               /\ form'[r] = "native" => Native(r) /\ (Kind[r] = "native" => hold'[r] = Chain(r))
    <3>1. r \in ToSet(queue) /\ r \notin swept /\ hold'[r] = hold[r] /\ form'[r] = form[r]
      BY <2>3, <1>2, <1>12, <1>16
    <3>2. CASE Queued(r)
      BY <3>1, <3>2, <1>1 DEF Forms
    <3>3. CASE r \in took \ spawned
      <4>1. form[r] = "plain" /\ ~Native(r)
        BY <3>3, <1>4, <1>6
      <4> QED
        BY <3>1, <4>1
    <3> QED
      BY <3>1, <3>2, <3>3, <1>17
  <2>4. ASSUME pc' \in {"admit", "take"}, NEW r \in Req, r \in ToSet(pending') \/ r = cand'
        PROVE  ~ZeroCapacity(r)'
    <3>1. leased = {} /\ r \in ToSet(queue) \ swept
      BY <2>4, <1>2, <1>3, <1>9
    <3>2. ~ZeroCapacity(r)
      BY <3>1, <1>e
    <3> QED
      BY <3>2, <1>2 DEF ZeroCapacity
  <2> QED
    BY <2>1, <2>2, <2>3, <2>4, <1>1, <1>2 DEF Forms
<1>20. Admitted'
  BY <1>1, <1>2 DEF Admitted, Position, SpanFits, MidPrefill
<1>21. Covered'
  <2>1. \A r \in Req : Burden'[r] <= Burden[r]
    <3> SUFFICES ASSUME NEW r \in Req PROVE Burden'[r] <= Burden[r]
      OBVIOUS
    <3>1. guards[r] \in Nat /\ reserved[r] \in Nat /\ hold[r] \in Nat
      BY <1>1 DEF TypeOK
    <3>2. hold'[r] <= hold[r]
      BY <3>1, <1>12
    <3> QED
      BY <3>1, <3>2, <1>1, <1>2, <1>13, Lighter
  <2>2. pc' # "fatal" /\ setup' = setup
    BY <1>2
  <2> QED
    BY <2>1, <2>2, <1>1, <1>13, CoveredKept
<1> QED
  BY <1>13, <1>18, <1>19, <1>20, <1>21 DEF PoolInv

-----------------------------------------------------------------------------
(* The engine thread: admission.                                           *)

\* A request takes its slot with m blocks and what is left of its hold, h: the
\* pool has the n blocks this adds to its burden.
LEMMA AdmitPool ==
    ASSUME PoolInv, CopyInv', pc = "take", NEW r \in Req, r = cand,
           UNCHANGED <<setup, sent, submit, open, closed, done, task, form, cached, polls, query, lease, load>>,
           UNCHANGED <<reserved, guards, pin, save, ready, pending, inflight, deferred, leased>>,
           UNCHANGED <<consume, expect, span, budget>>,
           cand' = NoReq, pc' = "admit", active' = active \cup {r},
           NEW m \in Nat, NEW h \in Nat, NEW n \in Nat,
           resident' = [resident EXCEPT ![r] = m], hold' = [hold EXCEPT ![r] = h],
           matched' \in [Req -> Nat], pos' \in [Req -> Nat], out' \in [Req -> Nat],
           \A q \in Req : q # r => pos'[q] = pos[q] /\ out'[q] = out[q],
           Position(r)', m <= Life(r), h <= Chain(r),
           Life(r) + (IF m = 0 THEN h ELSE Minus(h, FullPages(r))) <= hold[r] + n,
           Available >= Entitled + n
    PROVE  PoolInv'
<1>1. TypeOK /\ CopyInv /\ Places /\ Forms /\ Admitted /\ Covered
  BY DEF PoolInv
<1>2. /\ resident \in [Req -> Nat] /\ hold \in [Req -> Nat] /\ reserved \in [Req -> Nat]
      /\ guards \in [Req -> Nat] /\ NoReq \notin Req
  BY <1>1, EngineAssumption DEF TypeOK
<1>3. /\ resident' \in [Req -> Nat] /\ hold' \in [Req -> Nat] /\ resident'[r] = m /\ hold'[r] = h
      /\ \A q \in Req : q # r => resident'[q] = resident[q] /\ hold'[q] = hold[q]
  BY <1>2
<1>4. /\ Queued(r) /\ ~Early(r) /\ Fresh(r) /\ r \in sent
      /\ r \notin ToSet(ready) /\ r \notin ToSet(pending)
  BY <1>1 DEF Places, Queued, Early
<1>5. active \subseteq Req /\ IsFiniteSet(active) /\ Cardinality(active) \in Nat
  BY <1>1, TermsTyped, EngineAssumption, FS_Subset, FS_CardinalityType DEF Terms
<1>6. TypeOK'
  <2>1. Cardinality(active') <= Slots
    <3>1. Cardinality(active \cup {r}) = Cardinality(active) + 1
      BY <1>4, <1>5, FS_AddElement DEF Fresh
    <3>2. Cardinality(active) < Slots /\ Slots \in Nat
      BY <1>1, EngineAssumption DEF Places
    <3> QED
      BY <3>1, <3>2, <1>5
  <2>2. active' \subseteq sent /\ \A q \in active' : resident'[q] <= Life(q)
    BY <1>1, <1>3, <1>4, <1>5 DEF TypeOK
  <2>3. deferred' \subseteq active'
    BY <1>1 DEF TypeOK
  <2> QED
    BY <2>1, <2>2, <2>3, <1>1, <1>3 DEF TypeOK
<1>7. Places'
  <2>1. ASSUME NEW q \in Req, q # r
        PROVE  /\ Early(q)' <=> Early(q)
               /\ Queued(q)' <=> Queued(q)
               /\ Fresh(q)' <=> Fresh(q)
    BY <2>1, <1>2, <1>3 DEF Early, Queued, Fresh
  <2>2. ~Early(r)' /\ ~Queued(r)'
    BY <1>2, <1>4 DEF Early, Queued
  <2>3. \A q \in Req : /\ Early(q)' => ~Queued(q)'
                       /\ Early(q)' \/ Queued(q)' => Fresh(q)'
    BY <2>1, <2>2, <1>1 DEF Places
  <2>4. \A q \in Req : (q \in ToSet(ready') => q \notin ToSet(pending')) /\ q # cand'
    BY <1>1, <1>2 DEF Places
  <2> QED
    BY <2>3, <2>4, <1>1 DEF Places
<1>8. Forms'
  <2>1. ASSUME NEW q \in Req
        PROVE  /\ lease'[q] <= Chain(q) /\ reserved'[q] <= Chain(q)
               /\ hold'[q] <= Chain(q) /\ cached'[q] <= Chain(q)
    BY <1>1, <1>3 DEF Forms
  <2>2. ASSUME NEW q \in Req, Queued(q)' PROVE Queued(q) /\ hold'[q] = hold[q]
    BY <2>2, <1>2, <1>3, <1>4 DEF Queued
  <2>3. ASSUME NEW q \in Req
        PROVE  /\ task'[q] = "none" => form'[q] = "plain"
               /\ Queued(q)' /\ form'[q] = "plain" => ~Native(q)
               /\ Queued(q)' /\ form'[q] = "native" =>
                      Native(q) /\ (Kind[q] = "native" => hold'[q] = Chain(q))
    BY <2>2, <1>1 DEF Forms
  <2>4. ASSUME NEW q \in Req, q \in ToSet(pending') \/ q = cand' PROVE ~ZeroCapacity(q)'
    BY <2>4, <1>1, <1>2 DEF Forms, ZeroCapacity
  <2> QED
    BY <2>1, <2>3, <2>4, <1>1 DEF Forms
<1>9. Admitted'
  <2> SUFFICES ASSUME NEW q \in active'
               PROVE  guards'[q] = 0 /\ (q \notin deferred' => Position(q)')
    BY DEF Admitted
  <2>1. CASE q = r
    BY <2>1, <1>4 DEF Fresh
  <2>2. CASE q # r
    <3>1. q \in active /\ q \in Req
      BY <2>2, <1>5
    <3>2. guards[q] = 0 /\ (q \notin deferred => Position(q))
      BY <3>1, <1>1 DEF Admitted
    <3>3. pos'[q] = pos[q] /\ out'[q] = out[q]
      BY <2>2, <3>1
    <3> QED
      BY <3>2, <3>3 DEF Position, MidPrefill
  <2> QED
    BY <2>1, <2>2
<1>10. Covered'
  <2>1. ASSUME NEW q \in Req, q # r PROVE Burden'[q] <= Burden[q]
    <3>1. guards[q] \in Nat /\ reserved[q] \in Nat /\ hold[q] \in Nat
      BY <1>2
    <3> QED
      BY <2>1, <3>1, <1>1, <1>3, <1>6, Lighter
  <2>2. Burden'[r] <= Burden[r] + n
    <3>1. Burden[r] = hold[r] + reserved[r] /\ hold[r] \in Nat /\ reserved[r] \in Nat
      BY <1>1, <1>2, <1>4, EarlyBurden
    <3>2. Life(r) \in Nat /\ FullPages(r) \in Nat /\ guards'[r] = 0 /\ r \in active'
      BY <1>4, LifeFacts DEF Fresh
    <3>3. PICK x : x = IF m = 0 THEN h ELSE Minus(h, FullPages(r))
      OBVIOUS
    <3>4. x \in Nat /\ Life(r) + x <= hold[r] + n
      BY <3>2, <3>3 DEF Minus
    <3>5. Pins(r)' = m + reserved[r] + x
      BY <3>1, <3>2, <3>3, <1>3 DEF Pins, Most
    <3>6. Owed(r)' = Life(r) - m
      BY <3>2, <1>3 DEF Owed
    <3>7. Burden'[r] = Owed(r)' + Pins(r)'
      BY DEF Burden
    <3> QED
      BY <3>1, <3>2, <3>4, <3>5, <3>6, <3>7
  <2> QED
    BY <2>1, <2>2, <1>1, <1>6, CoveredTaken
<1> QED
  BY <1>6, <1>7, <1>8, <1>9, <1>10 DEF PoolInv

\* try_admit keeps the promise: a matched prefix, or a restored one whose
\* boundary page is copied.
LEMMA TakePool ==
    ASSUME PoolInv, CopyInv', TakePlain \/ TakeNative
    PROVE  PoolInv'
<1>1. TypeOK /\ CopyInv /\ Places /\ Forms /\ Admitted /\ Covered
  BY DEF PoolInv
<1>2. PICK r : r = cand
  OBVIOUS
<1>3. pc = "take" /\ r \in Req /\ Queued(r) /\ Fresh(r)
  BY <1>1, <1>2 DEF TakePlain, TakeNative, Places, Queued
<1>4. /\ pos \in [Req -> Nat] /\ out \in [Req -> Nat] /\ matched \in [Req -> Nat]
      /\ hold \in [Req -> Nat] /\ cached \in [Req -> Nat] /\ out[r] = 0 /\ hold[r] \in Nat
      /\ hold[r] <= Chain(r) /\ cached[r] <= Chain(r) /\ cached[r] \in Nat
      /\ Page \in Nat \ {0}
  BY <1>1, <1>3, EngineAssumption DEF TypeOK, Fresh, Forms
<1>5. Entitled \in Nat /\ Available \in Int
  BY <1>1, Balanced DEF Balance
<1>6. /\ In[r] \in Nat /\ In[r] # 0 /\ MaxOut[r] \in Nat /\ MaxOut[r] # 0
      /\ Life(r) \in Nat /\ Chain(r) \in Nat /\ FullPages(r) \in Nat
  BY <1>3, LifeFacts
<1>7. CASE TakePlain
  <2>1. /\ Backed(r) /\ form[r] = "plain" /\ hold' = [hold EXCEPT ![r] = 0] /\ active' = active \cup {r}
        /\ cand' = NoReq /\ pc' = "admit"
        /\ UNCHANGED <<setup, sent, submit, open, closed, done, task, form, cached, polls, query, lease, load>>
        /\ UNCHANGED <<reserved, guards, pin, save, ready, pending, inflight, deferred, leased>>
        /\ UNCHANGED <<consume, expect, span, budget, out>>
    BY <1>2, <1>7 DEF TakePlain, clients, tasks, saves, queues
  <2>2. PICK m \in IF hold[r] > 0 THEN {hold[r]} ELSE 0..cached[r] :
              /\ matched' = [matched EXCEPT ![r] = m]
              /\ resident' = [resident EXCEPT ![r] = m]
              /\ pos' = [pos EXCEPT ![r] = m * Page]
    BY <1>2, <1>7 DEF TakePlain
  <2>3. m \in Nat /\ m <= Chain(r) /\ m \in 0..Chain(r)
    BY <1>4, <1>6
  <2>4. ~Native(r) /\ Chain(r) <= Life(r) /\ m * Page < In[r]
    BY <2>1, <2>3, <1>1, <1>3, LifeFacts DEF Forms
  <2>5. m * Page \in Nat
    BY <2>3, <1>4, Scale
  <2>6. /\ matched' \in [Req -> Nat] /\ pos' \in [Req -> Nat] /\ out' \in [Req -> Nat]
        /\ pos'[r] = m * Page /\ \A q \in Req : q # r => pos'[q] = pos[q] /\ out'[q] = out[q]
    BY <2>1, <2>2, <2>3, <2>5, <1>3, <1>4
  <2>7. Position(r)'
    BY <2>1, <2>4, <2>6, <1>4 DEF Position, MidPrefill
  <2>8. PICK n : n = Life(r) - hold[r]
    OBVIOUS
  <2>9. /\ n \in Nat /\ m <= Life(r) /\ 0 \in Nat /\ 0 <= Chain(r)
        /\ Life(r) + (IF m = 0 THEN 0 ELSE Minus(0, FullPages(r))) <= hold[r] + n
    BY <2>3, <2>4, <2>8, <1>4, <1>6 DEF Minus
  <2>10. Available >= Entitled + n
    <3>1. Available + hold[r] >= Entitled + Life(r)
      BY <2>1 DEF Backed, Credit
    <3> QED
      BY <3>1, <2>8, <1>4, <1>5, <1>6
  <2> QED
    BY <2>1, <2>2, <2>3, <2>6, <2>7, <2>9, <2>10, <1>2, <1>3, AdmitPool
<1>8. CASE TakeNative
  <2>1. /\ Backed(r) /\ form[r] = "native" /\ cand' = NoReq
        /\ UNCHANGED <<setup, sent, submit, open, closed, task, form, cached, polls, query, lease, load>>
        /\ UNCHANGED <<reserved, guards, pin, save, ready, pending, inflight, deferred, leased>>
        /\ UNCHANGED <<consume, expect, span, budget>>
    BY <1>2, <1>8 DEF TakeNative, tasks, saves, queues
  <2>2. Native(r) /\ Kind[r] = "native" /\ hold[r] = Chain(r) /\ MaxOut[r] # 1
    <3>1. Native(r) /\ (Kind[r] = "native" => hold[r] = Chain(r)) /\ ~ZeroCapacity(r)
      BY <2>1, <1>1, <1>2, <1>3 DEF Forms
    <3> QED
      BY <2>1, <3>1 DEF ZeroCapacity, Native
  <2>3. PICK b : b = IF In[r] % Page = 0 THEN 0 ELSE 1
    OBVIOUS
  <2>4. b \in {0, 1} /\ Chain(r) = FullPages(r) + b /\ FullPages(r) + 1 <= Life(r)
    BY <2>2, <2>3, <1>3, LifeFacts
  <2>5. CASE r \in closed
    <3>1. /\ done' = [q \in Req |-> IF q = r THEN "dropped" ELSE done[q]]
          /\ hold' = [hold EXCEPT ![r] = 0] /\ pc' = "admit"
          /\ UNCHANGED <<active, resident, matched, pos, out>>
      BY <2>5, <1>2, <1>8 DEF TakeNative, Answer
    <3>2. done' \in [Req -> {"no", "rejected", "finished", "dropped", "error", "cut"}]
      BY <3>1, <1>1 DEF TypeOK
    <3>3. /\ hold' \in [Req -> Nat] /\ hold'[r] = 0 /\ \A q \in Req : q # r => hold'[q] = hold[q]
      BY <3>1, <1>3, <1>4
    <3>4. /\ pending \in Seq(Req) /\ Distinct(pending) /\ budget \in Nat /\ NoReq \notin Req
          /\ r \notin ToSet(pending)
      BY <1>1, <1>2, <1>3, EngineAssumption DEF Places, TypeOK
    <3>5. /\ pending' \in Seq(Req) /\ Distinct(pending') /\ budget' \in Nat /\ ToSet(pending') = ToSet(pending)
      BY <2>1, <3>4
    <3>6. \A q \in Req : /\ q \in ToSet(pending') \/ q = cand' => q \in ToSet(pending) \/ q = cand
                         /\ q \in ToSet(pending') => q # cand'
                         /\ hold'[q] # hold[q] => q \in ToSet(pending) \/ q = cand
                         /\ \/ hold'[q] = hold[q]
                            \/ hold'[q] = 0 /\ (q \in ToSet(pending') \/ q = cand' => form[q] = "plain")
      BY <2>1, <3>3, <3>4, <3>5, <1>2
    <3> QED
      BY <2>1, <3>1, <3>2, <3>3, <3>5, <3>6, <1>3, QueuePool
  <2>6. CASE r \notin closed
    <3>1. /\ active' = active \cup {r} /\ matched' = [matched EXCEPT ![r] = FullPages(r)]
          /\ resident' = [resident EXCEPT ![r] = FullPages(r) + b]
          /\ hold' = [hold EXCEPT ![r] = IF b = 0 THEN 0 ELSE hold[r]]
          /\ pos' = [pos EXCEPT ![r] = In[r]] /\ out' = [out EXCEPT ![r] = 1]
          /\ pc' = (IF Available < b THEN "fatal" ELSE "admit") /\ done' = done
      BY <2>3, <2>6, <1>2, <1>8 DEF TakeNative
    <3>2. PICK h : h = IF b = 0 THEN 0 ELSE hold[r]
      OBVIOUS
    <3>3. PICK n : n = Life(r) - FullPages(r)
      OBVIOUS
    <3>4. /\ n \in Nat /\ n >= 1 /\ h \in Nat /\ h <= Chain(r) /\ FullPages(r) + b \in Nat
          /\ FullPages(r) + b <= Life(r)
      BY <2>2, <2>4, <3>2, <3>3, <1>4, <1>6
    <3>5. Life(r) + (IF FullPages(r) + b = 0 THEN h ELSE Minus(h, FullPages(r))) <= hold[r] + n
      <4>1. CASE b = 0
        BY <2>2, <2>4, <3>2, <3>3, <4>1, <1>6 DEF Minus
      <4>2. CASE b = 1
        BY <2>2, <2>4, <3>2, <3>3, <4>2, <1>6 DEF Minus
      <4> QED
        BY <2>4, <4>1, <4>2
    <3>6. Available >= Entitled + n
      <4>1. Available + FullPages(r) >= Entitled + Life(r)
        BY <2>1 DEF Backed, Credit
      <4> QED
        BY <4>1, <3>3, <1>5, <1>6
    <3>7. pc' = "admit"
      BY <2>4, <3>1, <3>4, <3>6, <1>5
    <3>8. /\ matched' \in [Req -> Nat] /\ pos' \in [Req -> Nat] /\ out' \in [Req -> Nat]
          /\ pos'[r] = In[r] /\ out'[r] = 1
          /\ \A q \in Req : q # r => pos'[q] = pos[q] /\ out'[q] = out[q]
      BY <3>1, <1>3, <1>4, <1>6
    <3>9. Position(r)'
      BY <2>2, <3>8, <1>6 DEF Position, MidPrefill
    <3>10. hold' = [hold EXCEPT ![r] = h]
      BY <3>1, <3>2
    <3> QED
      BY <2>1, <3>1, <3>4, <3>5, <3>6, <3>7, <3>8, <3>9, <3>10, <1>2, <1>3, AdmitPool
  <2> QED
    BY <2>5, <2>6
<1> QED
  BY <1>7, <1>8

-----------------------------------------------------------------------------
(* The engine thread: steps.                                               *)

\* A span draws no more than the lifetime.
LEMMA SpanDraws ==
    ASSUME NEW r \in Req, pos[r] \in Nat, out[r] \in Nat, resident[r] \in Nat, resident[r] <= Life(r),
           Position(r), NEW n \in Nat, n >= 1,
           n <= (IF MidPrefill(r) THEN In[r] - pos[r] ELSE MaxOut[r] - out[r])
    PROVE  /\ Scheduled(r, n) \in Nat /\ resident[r] <= Scheduled(r, n) /\ Scheduled(r, n) <= Life(r)
<1>1. /\ In[r] \in Nat /\ MaxOut[r] \in Nat /\ Life(r) \in Nat /\ In[r] + MaxOut[r] \in Nat
      /\ Ceil(In[r] + MaxOut[r]) <= Life(r) /\ Ceil(In[r] + MaxOut[r]) \in Nat
  <2>1. /\ In[r] \in Nat /\ MaxOut[r] \in Nat /\ Life(r) \in Nat
        /\ Ceil(In[r] + MaxOut[r]) <= Life(r)
    BY LifeFacts
  <2>2. In[r] + MaxOut[r] \in Nat
    BY <2>1
  <2> QED
    BY <2>1, <2>2, CeilFacts
<1>2. PICK x : x = IF MidPrefill(r) THEN Ceil(pos[r] + n)
                   ELSE IF n = 1 THEN (pos[r] + 1) \div Page + 1 ELSE Ceil(pos[r] + 1 + n)
  OBVIOUS
<1>3. x \in Nat /\ x <= Ceil(In[r] + MaxOut[r])
  <2>1. CASE MidPrefill(r)
    <3>1. pos[r] + n \in Nat /\ pos[r] + n <= In[r] + MaxOut[r]
      BY <2>1, <1>1
    <3> QED
      BY <2>1, <3>1, <1>1, <1>2, CeilFacts
  <2>2. CASE ~MidPrefill(r)
    <3>1. pos[r] = In[r] + out[r] - 1 /\ n <= MaxOut[r] - out[r]
      BY <2>2 DEF Position
    <3>2. pos[r] + 1 + n \in Nat /\ pos[r] + 1 + n <= In[r] + MaxOut[r] /\ pos[r] + 1 \in Nat
      BY <3>1, <1>1
    <3>3. Ceil(pos[r] + 1 + n) \in Nat /\ Ceil(pos[r] + 1 + n) <= Ceil(In[r] + MaxOut[r])
      BY <3>2, <1>1, CeilFacts
    <3>4. (pos[r] + 1) \div Page + 1 = Ceil(pos[r] + 1 + 1)
      BY <3>2, CeilFacts
    <3> QED
      BY <2>2, <3>3, <3>4, <1>2
  <2> QED
    BY <2>1, <2>2
<1>4. Scheduled(r, n) = Most(resident[r], x)
  BY <1>2, Zenon DEF Scheduled
<1> QED
  BY <1>1, <1>3, <1>4 DEF Most

\* No schedule call fails: the spans draw what the requests are entitled to.
LEMMA SubmitPool ==
    ASSUME PoolInv, CopyInv', StepSubmit
    PROVE  PoolInv'
<1>1. TypeOK /\ CopyInv /\ Places /\ Forms /\ Admitted /\ Covered
  BY DEF PoolInv
<1>2. /\ pc = "step"
      /\ leased' = (IF MayLease THEN active ELSE {})
      /\ expect' = [r \in Req |-> IF r \in leased' THEN pos[r] + 1 ELSE 0]
      /\ pc' = (IF Total(resident') - Total(resident) > Available THEN "fatal" ELSE "join")
      /\ UNCHANGED <<setup, sent, submit, open, closed, done, task, form, cached, polls, query, lease, load>>
      /\ UNCHANGED <<hold, reserved, guards, pin, save, ready, pending, inflight, active, deferred>>
      /\ UNCHANGED <<pos, out, matched, cand, budget>>
  BY DEF StepSubmit, still_stepping, clients, tasks, saves, queues
<1>3. PICK n \in [Live -> 1..Max({1 + MaxDraft} \cup {In[r] : r \in Req})] :
           /\ \A r \in Live : n[r] \in (IF leased # {} THEN {1} ELSE Spans(r))
           /\ span' = [r \in Req |-> IF r \in Live THEN n[r] ELSE 0]
           /\ resident' = [r \in Req |-> IF r \in Live THEN Scheduled(r, n[r]) ELSE resident[r]]
  BY DEF StepSubmit
<1>4. /\ active \subseteq Req /\ active \subseteq sent /\ Live \subseteq active
      /\ pos \in [Req -> Nat] /\ out \in [Req -> Nat] /\ resident \in [Req -> Nat]
      /\ hold \in [Req -> Nat] /\ reserved \in [Req -> Nat] /\ guards \in [Req -> Nat]
      /\ \A r \in active : resident[r] <= Life(r)
  BY <1>1, TermsTyped DEF TypeOK, Terms, Live
<1>5. ASSUME NEW r \in Live
      PROVE  /\ n[r] \in Nat /\ n[r] >= 1
             /\ n[r] <= (IF MidPrefill(r) THEN In[r] - pos[r] ELSE MaxOut[r] - out[r])
             /\ Scheduled(r, n[r]) \in Nat /\ resident[r] <= Scheduled(r, n[r])
             /\ Scheduled(r, n[r]) <= Life(r)
  <2>1. r \in Req /\ r \in active /\ Position(r) /\ pos[r] \in Nat /\ out[r] \in Nat
    BY <1>1, <1>4 DEF Admitted, Live
  <2>2. In[r] \in Nat /\ MaxOut[r] \in Nat /\ MaxDraft \in Nat
    BY <2>1, LifeFacts, EngineAssumption
  <2>3. n[r] \in {1} \cup Spans(r)
    BY <1>3
  <2>4. CASE MidPrefill(r)
    <3>1. pos[r] < In[r] /\ n[r] \in {1, In[r] - pos[r]}
      BY <2>3, <2>4 DEF Spans, MidPrefill
    <3>2. n[r] \in Nat /\ n[r] >= 1 /\ n[r] <= In[r] - pos[r]
      BY <2>1, <2>2, <3>1
    <3> QED
      BY <2>1, <2>4, <3>2, <1>4, SpanDraws
  <2>5. CASE ~MidPrefill(r)
    <3>1. n[r] = 1 \/ n[r] \in 1..Least(IF setup.drafter THEN 1 + MaxDraft ELSE 1, MaxOut[r] - out[r])
      BY <2>3, <2>5 DEF Spans
    <3>2. out[r] < MaxOut[r]
      BY <2>1, <2>5 DEF Position
    <3>3. PICK d : d = IF setup.drafter THEN 1 + MaxDraft ELSE 1
      OBVIOUS
    <3>4. d \in Nat
      BY <2>2, <3>3
    <3>5. n[r] = 1 \/ n[r] \in 1..Least(d, MaxOut[r] - out[r])
      BY <3>1, <3>3
    <3>6. n[r] \in Nat /\ n[r] >= 1 /\ n[r] <= MaxOut[r] - out[r]
      BY <2>1, <2>2, <3>2, <3>4, <3>5 DEF Least
    <3> QED
      BY <2>1, <2>5, <3>6, <1>4, SpanDraws
  <2> QED
    BY <2>4, <2>5
<1>6. /\ resident' \in [Req -> Nat] /\ span' \in [Req -> Nat]
      /\ \A r \in Req : r \notin Live => resident'[r] = resident[r]
      /\ \A r \in Live : resident'[r] = Scheduled(r, n[r]) /\ span'[r] = n[r]
  BY <1>3, <1>4, <1>5
<1>7. \A r \in active : resident'[r] <= Life(r) /\ resident[r] <= resident'[r] /\ guards[r] = 0
  <2> SUFFICES ASSUME NEW r \in active
               PROVE  resident'[r] <= Life(r) /\ resident[r] <= resident'[r] /\ guards[r] = 0
    OBVIOUS
  <2>1. r \in Req /\ resident[r] \in Nat /\ resident[r] <= Life(r) /\ guards[r] = 0
    BY <1>1, <1>4 DEF Admitted
  <2>2. CASE r \in Live
    BY <2>1, <2>2, <1>5, <1>6
  <2>3. CASE r \notin Live
    BY <2>1, <2>3, <1>6
  <2> QED
    BY <2>2, <2>3
<1>8. pc' = "join"
  <2>1. PICK o : o = [r \in Req |-> Owed(r)]
    OBVIOUS
  <2>2. Terms /\ Balance
    BY <1>1, TermsTyped, Balanced
  <2>3. o \in [Req -> Nat] /\ Entitled = Total(o)
    BY <2>1, <2>2 DEF Terms, Balance
  <2>4. PICK t : t = [r \in Req |-> resident[r] + o[r]]
    OBVIOUS
  <2>5. t \in [Req -> Nat] /\ \A r \in Req : t[r] = resident[r] + o[r]
    BY <2>3, <2>4, <1>4
  <2>6. Total(t) = Total(resident) + Total(o)
    BY <2>3, <2>5, <1>4, TotalSum
  <2>7. \A r \in Req : resident'[r] <= t[r]
    <3> SUFFICES ASSUME NEW r \in Req PROVE resident'[r] <= t[r]
      OBVIOUS
    <3>1. resident[r] \in Nat /\ resident'[r] \in Nat /\ o[r] \in Nat /\ Life(r) \in Nat
      BY <2>3, <1>4, <1>6, LifeFacts
    <3>2. CASE r \in active
      <4>1. o[r] = Life(r) - resident[r] /\ resident'[r] <= Life(r)
        BY <2>1, <3>2, <1>7 DEF Owed
      <4> QED
        BY <4>1, <3>1, <2>5
    <3>3. CASE r \notin active
      <4>1. resident'[r] = resident[r]
        BY <3>3, <1>4, <1>6
      <4> QED
        BY <4>1, <3>1, <2>5
    <3> QED
      BY <3>2, <3>3
  <2>8. Total(resident') <= Total(t)
    BY <2>5, <2>7, <1>6, TotalMono
  <2>9. Total(resident') \in Nat /\ Total(resident) \in Nat /\ Total(t) \in Nat
    BY <2>5, <1>4, <1>6, TotalNat
  <2>10. /\ Available \in Int /\ Entitled \in Nat /\ Total(Burden) \in Nat /\ Usable \in Nat
         /\ Available + Total(Burden) = Usable + Entitled
    BY <2>2 DEF Balance
  <2>11. Total(Burden) <= Usable
    BY <1>1 DEF Covered
  <2>12. Entitled <= Available
    BY <2>10, <2>11
  <2>13. ~(Total(resident') - Total(resident) > Available)
    BY <2>3, <2>6, <2>8, <2>9, <2>10, <2>12
  <2> QED
    BY <2>13, <1>2
<1>9. TypeOK'
  <2>1. expect' \in [Req -> Nat]
    BY <1>2, <1>4
  <2>2. leased' \subseteq sent
    BY <1>2, <1>4
  <2> QED
    BY <2>1, <2>2, <1>1, <1>2, <1>6, <1>7, <1>8 DEF TypeOK
<1>10. \A r \in Req : /\ Early(r)' <=> Early(r)
                      /\ Queued(r)' <=> Queued(r)
                      /\ Fresh(r)' <=> Fresh(r)
  <2> SUFFICES ASSUME NEW r \in Req
               PROVE  (Early(r)' <=> Early(r)) /\ (Queued(r)' <=> Queued(r)) /\ (Fresh(r)' <=> Fresh(r))
    OBVIOUS
  <2>1. r \notin active => resident'[r] = resident[r]
    BY <1>4, <1>6
  <2> QED
    BY <2>1, <1>2 DEF Early, Queued, Fresh
<1>11. Places'
  BY <1>1, <1>2, <1>8, <1>10 DEF Places
<1>12. Forms'
  BY <1>1, <1>2, <1>8, <1>10 DEF Forms
<1>13. Admitted'
  <2> SUFFICES ASSUME NEW r \in active
               PROVE  guards'[r] = 0 /\ (r \notin deferred => Position(r)' /\ SpanFits(r)')
    BY <1>2 DEF Admitted
  <2>1. guards[r] = 0 /\ (r \notin deferred => Position(r))
    BY <1>1 DEF Admitted
  <2>2. ASSUME r \notin deferred PROVE SpanFits(r)'
    <3>1. r \in Live
      BY <2>2 DEF Live
    <3> QED
      BY <3>1, <1>2, <1>5, <1>6 DEF SpanFits, MidPrefill
  <2> QED
    BY <2>1, <2>2, <1>2 DEF Position, MidPrefill
<1>14. Covered'
  <2>1. ASSUME NEW r \in Req PROVE Burden'[r] <= Burden[r]
    <3>1. /\ resident[r] \in Nat /\ resident'[r] \in Nat /\ guards[r] \in Nat /\ reserved[r] \in Nat
          /\ hold[r] \in Nat /\ Life(r) \in Nat /\ FullPages(r) \in Nat
      BY <1>4, <1>6, LifeFacts
    <3>2. CASE r \notin active
      <4>1. resident'[r] = resident[r]
        BY <3>2, <1>4, <1>6
      <4> QED
        BY <3>1, <4>1, <1>1, <1>2, <1>9, Lighter
    <3>3. CASE r \in active
      <4>1. resident'[r] <= Life(r) /\ resident[r] <= resident'[r] /\ guards[r] = 0
        BY <3>3, <1>7
      <4>2. Owed(r) = Life(r) - resident[r] /\ Owed(r)' = Life(r) - resident'[r]
        BY <3>3, <1>2 DEF Owed
      <4>3. PICK x : x = IF resident[r] = 0 THEN hold[r] ELSE Minus(hold[r], FullPages(r))
        OBVIOUS
      <4>4. PICK y : y = IF resident'[r] = 0 THEN hold[r] ELSE Minus(hold[r], FullPages(r))
        OBVIOUS
      <4>5. x \in Nat /\ y \in Nat /\ y <= x
        BY <3>1, <4>1, <4>3, <4>4 DEF Minus
      <4>6. Pins(r) = resident[r] + reserved[r] + x /\ Pins(r)' = resident'[r] + reserved[r] + y
        BY <3>1, <4>1, <4>3, <4>4, <1>2 DEF Pins, Most
      <4>7. Burden[r] = Owed(r) + Pins(r) /\ Burden'[r] = Owed(r)' + Pins(r)'
        BY DEF Burden
      <4> QED
        BY <3>1, <4>2, <4>5, <4>6, <4>7
    <3> QED
      BY <3>2, <3>3
  <2> QED
    BY <2>1, <1>1, <1>2, <1>8, <1>9, CoveredKept
<1> QED
  BY <1>9, <1>11, <1>12, <1>13, <1>14 DEF PoolInv

\* What an outcome leaves of a slot's blocks, and where its sequence is then.
LEMMA OutcomeFacts ==
    ASSUME NEW r \in Req, pos[r] \in Nat, out[r] \in Nat, resident[r] \in Nat, span[r] \in Nat,
           Position(r), SpanFits(r), NEW o \in Outcomes(r)
    PROVE  /\ o.a \in Nat /\ o.e \in Nat
           /\ Assigned(r, o) \in Nat /\ Assigned(r, o) <= resident[r]
           /\ Kept(r, o) \in Nat /\ Kept(r, o) <= resident[r]
           /\ ~Finishes(r, o) =>
                  IF ~Native(r) /\ pos[r] + o.a < In[r] THEN out[r] + o.e = 0
                  ELSE /\ pos[r] + o.a = In[r] + (out[r] + o.e) - 1
                       /\ out[r] + o.e >= 1 /\ out[r] + o.e < MaxOut[r]
<1>1. In[r] \in Nat /\ MaxOut[r] \in Nat /\ Page \in Nat \ {0}
  BY LifeFacts, EngineAssumption
<1>2. \/ MidPrefill(r) /\ pos[r] + span[r] < In[r] /\ o = [a |-> span[r], e |-> 0, eos |-> FALSE]
      \/ MidPrefill(r) /\ ~(pos[r] + span[r] < In[r]) /\ o \in [a : {span[r]}, e : {1}, eos : BOOLEAN]
      \/ ~MidPrefill(r) /\ \E n \in 1..span[r], b \in BOOLEAN : o = [a |-> n, e |-> n, eos |-> b]
  BY DEF Outcomes
<1>3. \/ MidPrefill(r) /\ pos[r] + span[r] < In[r] /\ o.a = span[r] /\ o.e = 0
      \/ MidPrefill(r) /\ ~(pos[r] + span[r] < In[r]) /\ o.a = span[r] /\ o.e = 1
      \/ ~MidPrefill(r) /\ o.a \in 1..span[r] /\ o.e = o.a
  <2>1. CASE MidPrefill(r) /\ pos[r] + span[r] < In[r] /\ o = [a |-> span[r], e |-> 0, eos |-> FALSE]
    BY <2>1
  <2>2. CASE MidPrefill(r) /\ ~(pos[r] + span[r] < In[r]) /\ o \in [a : {span[r]}, e : {1}, eos : BOOLEAN]
    BY <2>2
  <2>3. CASE ~MidPrefill(r) /\ \E n \in 1..span[r], b \in BOOLEAN : o = [a |-> n, e |-> n, eos |-> b]
    BY <2>3
  <2> QED
    BY <1>2, <2>1, <2>2, <2>3
<1>4. o.a \in Nat /\ o.e \in Nat
  BY <1>3
<1>5. Assigned(r, o) \in Nat /\ Assigned(r, o) <= resident[r]
  <2>1. /\ In[r] \div Page \in Nat /\ (pos[r] + 1) \div Page \in Nat
        /\ (pos[r] + o.a + 1) \div Page \in Nat
    <3>1. pos[r] + 1 \in Nat /\ pos[r] + o.a + 1 \in Nat
      BY <1>4
    <3> QED
      BY <3>1, <1>1, CeilFacts
  <2> QED
    BY <2>1 DEF Assigned, Least
<1>6. Kept(r, o) \in Nat /\ Kept(r, o) <= resident[r]
  <2>1. PICK d : d = IF out[r] + o.e >= MaxOut[r] THEN 0 ELSE 1
    OBVIOUS
  <2>2. d \in Nat
    BY <2>1
  <2>3. \/ Kept(r, o) = resident[r]
        \/ Kept(r, o) = Assigned(r, o) + Least(resident[r] - Assigned(r, o), d)
    BY <2>1 DEF Kept
  <2> QED
    BY <2>2, <2>3, <1>5 DEF Least
<1>7. ASSUME ~Finishes(r, o)
      PROVE  IF ~Native(r) /\ pos[r] + o.a < In[r] THEN out[r] + o.e = 0
             ELSE /\ pos[r] + o.a = In[r] + (out[r] + o.e) - 1
                  /\ out[r] + o.e >= 1 /\ out[r] + o.e < MaxOut[r]
  <2>1. o.e > 0 => ~(out[r] + o.e >= MaxOut[r])
    BY <1>7 DEF Finishes
  <2>2. CASE MidPrefill(r) /\ pos[r] + span[r] < In[r] /\ o.a = span[r] /\ o.e = 0
    BY <2>2 DEF Position, MidPrefill
  <2>3. CASE MidPrefill(r) /\ ~(pos[r] + span[r] < In[r]) /\ o.a = span[r] /\ o.e = 1
    <3>1. pos[r] + o.a = In[r] /\ out[r] = 0
      BY <2>3, <1>1 DEF Position, SpanFits
    <3> QED
      BY <2>1, <2>3, <3>1, <1>1
  <2>4. CASE ~MidPrefill(r) /\ o.a \in 1..span[r] /\ o.e = o.a
    <3>1. pos[r] = In[r] + out[r] - 1 /\ out[r] >= 1 /\ o.a >= 1 /\ o.a \in Nat
      BY <2>4 DEF Position
    <3>2. ~(pos[r] + o.a < In[r])
      BY <3>1, <1>1
    <3> QED
      BY <2>1, <2>4, <3>1, <3>2, <1>1
  <2> QED
    BY <1>3, <2>2, <2>3, <2>4
<1> QED
  BY <1>4, <1>5, <1>6, <1>7

\* Applying a step gives blocks back, or moves them to a save, and leaves every
\* sequence where its next span fits.
LEMMA ApplyPool ==
    ASSUME PoolInv, CopyInv', StepApply
    PROVE  PoolInv'
<1>1. TypeOK /\ CopyInv /\ Places /\ Forms /\ Admitted /\ Covered
  BY DEF PoolInv
<1>2. PICK o \in [Live -> UNION {Outcomes(r) : r \in Live}] :
       /\ \A r \in Live : o[r] \in Outcomes(r)
       /\ LET freed == {r \in Live : r \in closed \/ Finishes(r, o[r])}
              count == [r \in Req |-> IF setup.tier /\ r \in freed
                                        THEN Minus(Assigned(r, o[r]), matched[r]) ELSE 0]
              waiting == IF leased = {} THEN deferred ELSE deferred \cup freed
              released == (IF leased = {} THEN freed ELSE {}) \cup (IF consume THEN waiting ELSE {})
              left(f, v) == [r \in Req |-> IF r \in released THEN 0
                                            ELSE IF r \in Live THEN v[r] ELSE f[r]]
          IN /\ done' = [r \in Req |-> IF r \notin freed THEN done[r]
                                       ELSE IF r \in closed THEN "dropped" ELSE "finished"]
             /\ hold' = [r \in Req |-> IF r \in active THEN 0 ELSE hold[r]]
             /\ pos' = left(pos, [r \in Live |-> pos[r] + o[r].a])
             /\ out' = left(out, [r \in Live |-> out[r] + o[r].e])
             /\ resident' = left(resident, [r \in Live |-> Kept(r, o[r])])
             /\ matched' = left(matched, matched)
             /\ pin' = [r \in Req |-> pin[r] + count[r]]
             /\ guards' = [r \in Req |-> guards[r] + count[r]]
             /\ save' = [r \in Req |-> IF count[r] > 0 THEN "copying" ELSE save[r]]
             /\ deferred' = IF consume THEN {} ELSE waiting
             /\ active' = active \ released
  BY Zenon DEF StepApply
<1>a. PICK freed : freed = {r \in Live : r \in closed \/ Finishes(r, o[r])}
  OBVIOUS
<1>b. PICK count : count = [r \in Req |-> IF setup.tier /\ r \in freed
                                           THEN Minus(Assigned(r, o[r]), matched[r]) ELSE 0]
  OBVIOUS
<1>c. PICK waiting : waiting = IF leased = {} THEN deferred ELSE deferred \cup freed
  OBVIOUS
<1>d. PICK released : released = (IF leased = {} THEN freed ELSE {}) \cup (IF consume THEN waiting ELSE {})
  OBVIOUS
<1>3. /\ done' = [r \in Req |-> IF r \notin freed THEN done[r]
                                ELSE IF r \in closed THEN "dropped" ELSE "finished"]
      /\ hold' = [r \in Req |-> IF r \in active THEN 0 ELSE hold[r]]
      /\ pin' = [r \in Req |-> pin[r] + count[r]]
      /\ guards' = [r \in Req |-> guards[r] + count[r]]
      /\ save' = [r \in Req |-> IF count[r] > 0 THEN "copying" ELSE save[r]]
      /\ deferred' = (IF consume THEN {} ELSE waiting)
      /\ active' = active \ released
  BY <1>2, <1>a, <1>b, <1>c, <1>d, Zenon
<1>4. /\ pos' = [r \in Req |-> IF r \in released THEN 0
                               ELSE IF r \in Live THEN [s \in Live |-> pos[s] + o[s].a][r] ELSE pos[r]]
      /\ out' = [r \in Req |-> IF r \in released THEN 0
                               ELSE IF r \in Live THEN [s \in Live |-> out[s] + o[s].e][r] ELSE out[r]]
      /\ resident' = [r \in Req |-> IF r \in released THEN 0
                                    ELSE IF r \in Live THEN [s \in Live |-> Kept(s, o[s])][r] ELSE resident[r]]
      /\ matched' = [r \in Req |-> IF r \in released THEN 0
                                   ELSE IF r \in Live THEN matched[r] ELSE matched[r]]
  BY <1>2, <1>a, <1>b, <1>c, <1>d
<1>5. /\ pc = "join" /\ pc' = "drain" /\ span' = Zero /\ consume' = FALSE
      /\ UNCHANGED <<setup, sent, submit, open, closed, task, form, cached, polls, query, lease, load>>
      /\ UNCHANGED <<reserved, ready, pending, inflight, leased, expect, cand, budget>>
  BY DEF StepApply, tasks, queues
<1>6. /\ active \subseteq Req /\ active \subseteq sent /\ deferred \subseteq active /\ Live = active \ deferred
      /\ pos \in [Req -> Nat] /\ out \in [Req -> Nat] /\ resident \in [Req -> Nat]
      /\ hold \in [Req -> Nat] /\ reserved \in [Req -> Nat] /\ guards \in [Req -> Nat]
      /\ matched \in [Req -> Nat] /\ pin \in [Req -> Nat] /\ span \in [Req -> Nat]
      /\ \A r \in active : resident[r] <= Life(r) /\ guards[r] = 0
  BY <1>1, TermsTyped DEF TypeOK, Terms, Live, Admitted
<1>7. freed \subseteq Live /\ released \subseteq active /\ active' \subseteq active
  BY <1>a, <1>c, <1>d, <1>3, <1>6
<1>8. ASSUME NEW r \in Live
      PROVE  /\ r \in Req /\ r \in active /\ o[r].a \in Nat /\ o[r].e \in Nat
             /\ Assigned(r, o[r]) \in Nat /\ Assigned(r, o[r]) <= resident[r]
             /\ Kept(r, o[r]) \in Nat /\ Kept(r, o[r]) <= resident[r]
             /\ ~Finishes(r, o[r]) =>
                  IF ~Native(r) /\ pos[r] + o[r].a < In[r] THEN out[r] + o[r].e = 0
                  ELSE /\ pos[r] + o[r].a = In[r] + (out[r] + o[r].e) - 1
                       /\ out[r] + o[r].e >= 1 /\ out[r] + o[r].e < MaxOut[r]
  <2>1. r \in Req /\ r \in active /\ Position(r) /\ SpanFits(r)
    BY <1>1, <1>5, <1>6 DEF Admitted
  <2>2. pos[r] \in Nat /\ out[r] \in Nat /\ resident[r] \in Nat /\ span[r] \in Nat
    BY <2>1, <1>6
  <2>3. o[r] \in Outcomes(r)
    BY <1>2
  <2> QED
    BY <2>1, <2>2, <2>3, OutcomeFacts
<1>9. \A r \in Live \ released :
          pos'[r] = pos[r] + o[r].a /\ out'[r] = out[r] + o[r].e /\ resident'[r] = Kept(r, o[r])
  BY <1>4, <1>6
<1>10. \A r \in released : pos'[r] = 0 /\ out'[r] = 0 /\ resident'[r] = 0
  BY <1>4, <1>6, <1>7
<1>11. \A r \in Req : r \notin Live /\ r \notin released =>
           pos'[r] = pos[r] /\ out'[r] = out[r] /\ resident'[r] = resident[r]
  BY <1>4
<1>12. /\ pos' \in [Req -> Nat] /\ out' \in [Req -> Nat] /\ resident' \in [Req -> Nat]
       /\ matched' \in [Req -> Nat] /\ hold' \in [Req -> Nat]
       /\ \A r \in active : hold'[r] = 0
       /\ \A r \in Req : r \notin active => hold'[r] = hold[r]
  <2>1. ASSUME NEW r \in Req PROVE pos'[r] \in Nat /\ out'[r] \in Nat /\ resident'[r] \in Nat
    <3>1. pos[r] \in Nat /\ out[r] \in Nat /\ resident[r] \in Nat
      BY <1>6
    <3>2. CASE r \in released
      BY <3>2, <1>10
    <3>3. CASE r \in Live \ released
      BY <3>1, <3>3, <1>8, <1>9
    <3>4. CASE r \notin Live /\ r \notin released
      BY <3>1, <3>4, <1>11
    <3> QED
      BY <3>2, <3>3, <3>4
  <2>2. matched' \in [Req -> Nat] /\ hold' \in [Req -> Nat]
    BY <1>3, <1>4, <1>6
  <2>3. \E f : pos' = [r \in Req |-> f[r]]
    BY <1>4
  <2>4. \E f : out' = [r \in Req |-> f[r]]
    BY <1>4
  <2>5. \E f : resident' = [r \in Req |-> f[r]]
    BY <1>4
  <2> QED
    BY <2>1, <2>2, <2>3, <2>4, <2>5, <1>3, <1>6
<1>13. ASSUME NEW r \in Req
       PROVE  /\ count[r] \in Nat
              /\ r \notin released => count[r] = 0
              /\ r \in released => count[r] <= resident[r]
  <2>1. CASE setup.tier /\ r \in freed
    <3>1. leased = {} /\ r \in released
      BY <2>1, <1>1, <1>d DEF CopyInv, LeaseAlone
    <3>2. count[r] = Minus(Assigned(r, o[r]), matched[r])
      BY <2>1, <1>b
    <3>3. /\ Assigned(r, o[r]) \in Nat /\ Assigned(r, o[r]) <= resident[r]
          /\ matched[r] \in Nat /\ resident[r] \in Nat
      BY <2>1, <1>6, <1>7, <1>8
    <3> QED
      BY <3>1, <3>2, <3>3 DEF Minus
  <2>2. CASE ~(setup.tier /\ r \in freed)
    <3>1. count[r] = 0 /\ resident[r] \in Nat
      BY <2>2, <1>b, <1>6
    <3> QED
      BY <3>1
  <2> QED
    BY <2>1, <2>2
<1>14. /\ guards' \in [Req -> Nat] /\ pin' \in [Req -> Nat]
       /\ \A r \in Req : guards'[r] = guards[r] + count[r]
  <2>1. \A r \in Req : pin[r] + count[r] \in Nat /\ guards[r] + count[r] \in Nat
    BY <1>6, <1>13
  <2> QED
    BY <2>1, <1>3
<1>15. deferred' \subseteq active'
  BY <1>a, <1>c, <1>d, <1>3, <1>6, <1>7
<1>16. TypeOK'
  <2>1. done' \in [Req -> {"no", "rejected", "finished", "dropped", "error", "cut"}]
    BY <1>1, <1>3 DEF TypeOK
  <2>2. save' \in [Req -> {"none", "copying", "landed"}]
    BY DEF CopyInv, Shapes
  <2>3. span' \in [Req -> Nat]
    BY <1>5 DEF Zero
  <2>4. Cardinality(active') <= Slots
    <3>1. IsFiniteSet(active) /\ Cardinality(active) \in Nat
      BY <1>6, EngineAssumption, FS_Subset, FS_CardinalityType
    <3>2. Cardinality(active') <= Cardinality(active) /\ Cardinality(active') \in Nat
      BY <3>1, <1>7, FS_Subset, FS_CardinalityType
    <3>3. Cardinality(active) <= Slots /\ Slots \in Nat
      BY <1>1, EngineAssumption DEF TypeOK
    <3> QED
      BY <3>1, <3>2, <3>3
  <2>5. ASSUME NEW r \in active' PROVE resident'[r] <= Life(r)
    <3>1. /\ r \in active /\ r \in Req /\ r \notin released /\ resident[r] <= Life(r)
          /\ resident[r] \in Nat /\ Life(r) \in Nat
      BY <1>3, <1>6, <1>7, LifeFacts
    <3>2. CASE r \in Live
      BY <3>1, <3>2, <1>8, <1>9
    <3>3. CASE r \notin Live
      BY <3>1, <3>3, <1>11
    <3> QED
      BY <3>2, <3>3
  <2>6. active' \subseteq sent
    BY <1>6, <1>7
  <2> QED
    BY <2>1, <2>2, <2>3, <2>4, <2>5, <2>6, <1>1, <1>5, <1>12, <1>14, <1>15 DEF TypeOK
<1>17. ASSUME NEW r \in Req
       PROVE  /\ Early(r)' <=> Early(r)
              /\ Queued(r)' <=> Queued(r)
              /\ Fresh(r) => Fresh(r)' /\ r \notin active
  <2>1. Fresh(r) => r \notin active /\ r \notin Live /\ r \notin released
    BY <1>6, <1>7 DEF Fresh
  <2>2. ASSUME Fresh(r) PROVE Fresh(r)'
    <3>1. resident'[r] = resident[r] /\ out'[r] = out[r] /\ guards'[r] = guards[r] + 0 /\ r \notin active'
      BY <2>1, <2>2, <1>7, <1>11, <1>13, <1>14
    <3> QED
      BY <2>2, <3>1 DEF Fresh
  <2> QED
    BY <2>1, <2>2, <1>5 DEF Early, Queued
<1>18. Places'
  <2>1. \A r \in Req : /\ Early(r)' => ~Queued(r)'
                       /\ Early(r)' \/ Queued(r)' => Fresh(r)'
    BY <1>1, <1>17 DEF Places
  <2>2. \A r \in Req : /\ r \in ToSet(ready') => r \notin ToSet(pending') /\ r # cand'
                       /\ r \in ToSet(pending') => r # cand'
    BY <1>1, <1>5 DEF Places
  <2>3. /\ Distinct(submit') /\ Distinct(ready') /\ Distinct(pending') /\ pending' \in Seq(Req)
        /\ pc' # "take" /\ cand' = NoReq
    BY <1>1, <1>5 DEF Places
  <2> QED
    BY <2>1, <2>2, <2>3 DEF Places
<1>19. Forms'
  <2>1. ASSUME NEW r \in Req
        PROVE  /\ lease'[r] <= Chain(r) /\ reserved'[r] <= Chain(r)
               /\ hold'[r] <= Chain(r) /\ cached'[r] <= Chain(r)
    <3>1. /\ lease[r] <= Chain(r) /\ reserved[r] <= Chain(r) /\ hold[r] <= Chain(r)
          /\ cached[r] <= Chain(r) /\ 0 <= Chain(r)
      BY <1>1, LifeFacts DEF Forms
    <3> QED
      BY <3>1, <1>5, <1>12
  <2>2. ASSUME NEW r \in Req, Queued(r)' PROVE Queued(r) /\ hold'[r] = hold[r]
    <3>1. Queued(r) /\ Fresh(r)
      BY <2>2, <1>1, <1>17 DEF Places
    <3> QED
      BY <3>1, <1>12 DEF Fresh
  <2>3. ASSUME NEW r \in Req
        PROVE  /\ task'[r] = "none" => form'[r] = "plain"
               /\ Queued(r)' /\ form'[r] = "plain" => ~Native(r)
               /\ Queued(r)' /\ form'[r] = "native" =>
                      Native(r) /\ (Kind[r] = "native" => hold'[r] = Chain(r))
    BY <2>2, <1>1, <1>5 DEF Forms
  <2> QED
    BY <2>1, <2>3, <1>1, <1>5 DEF Forms
<1>20. Admitted'
  <2> SUFFICES ASSUME NEW r \in active'
               PROVE  guards'[r] = 0 /\ (r \notin deferred' => Position(r)')
    BY <1>5 DEF Admitted
  <2>1. r \in active /\ r \in Req /\ r \notin released
    BY <1>3, <1>6, <1>7
  <2>2. guards'[r] = 0
    BY <2>1, <1>6, <1>13, <1>14
  <2>3. ASSUME r \notin deferred' PROVE Position(r)'
    <3>1. r \in Live /\ r \notin freed
      BY <2>1, <2>3, <1>c, <1>d, <1>3, <1>6
    <3>2. ~Finishes(r, o[r])
      BY <3>1, <1>a
    <3>3. pos'[r] = pos[r] + o[r].a /\ out'[r] = out[r] + o[r].e
      BY <2>1, <3>1, <1>9
    <3> QED
      BY <3>1, <3>2, <3>3, <1>8 DEF Position, MidPrefill
  <2> QED
    BY <2>2, <2>3
<1>21. Covered'
  <2>1. ASSUME NEW r \in Req PROVE Burden'[r] <= Burden[r]
    <3>1. /\ resident[r] \in Nat /\ resident'[r] \in Nat /\ guards[r] \in Nat /\ reserved[r] \in Nat
          /\ hold[r] \in Nat /\ Life(r) \in Nat /\ FullPages(r) \in Nat /\ guards'[r] \in Nat
          /\ reserved' = reserved
      BY <1>5, <1>6, <1>12, <1>14, LifeFacts
    <3>2. CASE r \notin active
      <4>1. /\ r \notin released /\ r \notin Live /\ r \notin active'
        BY <3>2, <1>6, <1>7
      <4>2. resident'[r] = resident[r] /\ hold'[r] = hold[r] /\ guards'[r] = guards[r] + 0
        BY <3>2, <4>1, <1>11, <1>12, <1>13, <1>14
      <4>3. guards'[r] <= guards[r]
        BY <3>1, <4>2
      <4> QED
        BY <3>1, <3>2, <4>1, <4>2, <4>3, <1>1, <1>16, Lighter
    <3>3. CASE r \in active
      <4>1. PICK x : x = IF resident[r] = 0 THEN hold[r] ELSE Minus(hold[r], FullPages(r))
        OBVIOUS
      <4>2. /\ x \in Nat /\ guards[r] = 0 /\ resident[r] <= Life(r) /\ hold'[r] = 0
        BY <3>1, <3>3, <4>1, <1>6, <1>12 DEF Minus
      <4>3. Burden[r] = Owed(r) + Pins(r) /\ Burden'[r] = Owed(r)' + Pins(r)'
        BY DEF Burden
      <4>4. Owed(r) = Life(r) - resident[r] /\ Pins(r) = resident[r] + reserved[r] + x
        BY <3>1, <3>3, <4>1, <4>2 DEF Owed, Pins, Most
      <4>5. Pins(r)' = Most(resident'[r], guards'[r]) + reserved[r]
        BY <3>1, <4>2 DEF Pins, Most, Minus
      <4>6. CASE r \in released
        <5>1. resident'[r] = 0 /\ guards'[r] = count[r] /\ count[r] \in Nat /\ count[r] <= resident[r]
          BY <4>2, <4>6, <1>10, <1>13, <1>14
        <5>2. Owed(r)' = 0
          BY <4>6, <1>3 DEF Owed
        <5> QED
          BY <3>1, <4>2, <4>3, <4>4, <4>5, <5>1, <5>2 DEF Most
      <4>7. CASE r \notin released
        <5>1. guards'[r] = 0
          BY <4>2, <4>7, <1>13, <1>14
        <5>2. resident'[r] <= resident[r]
          <6>1. CASE r \in Live
            BY <6>1, <4>7, <1>8, <1>9
          <6>2. CASE r \notin Live
            BY <3>1, <6>2, <4>7, <1>11
          <6> QED
            BY <6>1, <6>2
        <5>3. Owed(r)' = Life(r) - resident'[r]
          BY <3>3, <4>7, <1>3 DEF Owed
        <5> QED
          BY <3>1, <4>2, <4>3, <4>4, <4>5, <5>1, <5>2, <5>3 DEF Most
      <4> QED
        BY <4>6, <4>7
    <3> QED
      BY <3>2, <3>3
  <2> QED
    BY <2>1, <1>1, <1>5, <1>16, CoveredKept
<1> QED
  BY <1>16, <1>18, <1>19, <1>20, <1>21 DEF PoolInv

-----------------------------------------------------------------------------
(* The theorems.                                                           *)

\* At the start the pool is free and every request is still to be sent.
LEMMA PoolInit == Init => PoolInv
<1> SUFFICES ASSUME Init PROVE PoolInv
  OBVIOUS
<1>1. CopyInv
  BY CopyInit
<1>2. <<>> \in Seq(Req) /\ ToSet(<<>>) = {} /\ Distinct(<<>>)
  BY DEF ToSet, Distinct
<1>3. Zero \in [Req -> Nat] /\ \A r \in Req : Zero[r] = 0
  BY DEF Zero
<1>4. /\ setup \in Setups /\ sent = {} /\ submit = <<>> /\ closed = {} /\ ready = <<>> /\ pending = <<>>
      /\ done = [r \in Req |-> "no"] /\ task = [r \in Req |-> "none"] /\ form = [r \in Req |-> "plain"]
      /\ query = [r \in Req |-> "none"] /\ load = [r \in Req |-> "none"] /\ save = [r \in Req |-> "none"]
      /\ cached = Zero /\ polls = Zero /\ lease = Zero /\ hold = Zero /\ reserved = Zero /\ resident = Zero
      /\ guards = Zero /\ pin = Zero /\ expect = Zero /\ pos = Zero /\ out = Zero /\ matched = Zero
      /\ span = Zero /\ inflight = 0 /\ active = {} /\ deferred = {} /\ leased = {}
      /\ pc = "drain" /\ cand = NoReq /\ budget = 0
  BY DEF Init
<1>5. TypeOK
  <2>1. Cardinality(active) <= Slots
    <3>1. Cardinality(active) = 0 /\ Slots \in Nat
      BY <1>4, FS_EmptySet, EngineAssumption
    <3> QED
      BY <3>1
  <2> QED
    BY <1>2, <1>3, <1>4, <2>1 DEF TypeOK
<1>6. NoReq \notin Req
  BY EngineAssumption
<1>7. Places
  BY <1>2, <1>3, <1>4, <1>6 DEF Places, Early, Queued, Fresh
<1>8. Forms
  <2>1. \A r \in Req : 0 <= Chain(r)
    BY LifeFacts
  <2>2. \A r \in Req : ~Queued(r)
    BY <1>2, <1>4, <1>6 DEF Queued
  <2> QED
    BY <2>1, <2>2, <1>3, <1>4 DEF Forms
<1>9. Admitted
  BY <1>4 DEF Admitted
<1>10. Covered
  <2>1. Burden \in [Req -> Nat] /\ Usable \in Nat
    BY <1>5, TermsTyped DEF Terms
  <2>2. \A r \in Req : Burden[r] = 0
    <3> SUFFICES ASSUME NEW r \in Req PROVE Burden[r] = 0
      OBVIOUS
    <3>1. Fresh(r)
      BY <1>3, <1>4 DEF Fresh
    <3> QED
      <4>1. Burden[r] = hold[r] + reserved[r]
        BY <3>1, <1>5, EarlyBurden
      <4> QED
        BY <4>1, <1>3, <1>4
  <2>3. Units(Burden) = {}
    <3>1. \A r \in Req : 1..Burden[r] = {}
      BY <2>2
    <3> QED
      BY <3>1 DEF Units
  <2>4. Total(Burden) = 0
    BY <2>1, <2>3, TotalNat, FS_EmptySet
  <2> QED
    BY <2>1, <2>4, <1>4 DEF Covered
<1> QED
  BY <1>1, <1>5, <1>7, <1>8, <1>9, <1>10 DEF PoolInv

\* Every step keeps the invariant.
LEMMA PoolNext == PoolInv /\ [Next]_vars => PoolInv'
<1> SUFFICES ASSUME PoolInv, [Next]_vars PROVE PoolInv'
  OBVIOUS
<1>1. CopyInv'
  BY CopyNext DEF PoolInv
<1>2. CASE Engine
  <2>1. CASE \/ DropFront \/ Shed \/ Pick \/ AdmitEnds \/ Defer
             \/ StepDesyncs \/ Fatal \/ FlushLoads \/ FlushSaves
    BY <2>1, <1>1, ThreadPool
  <2>2. CASE TakePlain \/ TakeNative
    BY <2>2, <1>1, TakePool
  <2> QED
    BY <2>1, <2>2, <1>1, <1>2, IntakePool, SubmitPool, ApplyPool DEF Engine
<1>3. CASE Tasks
  BY <1>1, <1>3, TasksPool DEF Tasks
<1>4. CASE HangUp \/ \E r \in Req : Submit(r) \/ Disconnect(r)
  BY <1>1, <1>4, ClientsPool
<1>5. CASE UNCHANGED vars
  <2>1. /\ UNCHANGED <<setup, sent, submit, open, closed, done, task, form, cached, polls, query, lease, load>>
        /\ UNCHANGED <<hold, reserved, resident, guards, pin, save, ready, pending, inflight, active>>
        /\ UNCHANGED <<deferred, leased, consume, expect, pos, out, matched, span, pc, cand, budget>>
    BY <1>5 DEF vars, clients, tasks, pins, saves, queues, slots, seqs, thread
  <2>2. TypeOK' /\ Places' /\ Forms' /\ Admitted'
    BY <2>1 DEF PoolInv, TypeOK, Places, Early, Queued, Fresh, Forms, ZeroCapacity, Admitted, Position,
       SpanFits, MidPrefill
  <2>3. Covered'
    BY <2>1 DEF PoolInv, Covered, Total, Burden, Owed, Pins, Usable
  <2> QED
    BY <2>2, <2>3, <1>1 DEF PoolInv
<1> QED
  BY <1>2, <1>3, <1>4, <1>5 DEF Next

\* The invariant of requests and blocks: a request is in one place, an admitted
\* sequence is where its spans fit, and what is pinned and owed is in the pool.
THEOREM PoolCovered == Spec => []PoolInv
BY PoolInit, PoolNext, PTL DEF Spec

\* Every variable keeps its type, and no sequence outgrows its lifetime.
THEOREM EngineTypes == Spec => []TypeOK
<1>1. PoolInv => TypeOK
  BY DEF PoolInv
<1> QED
  BY PoolCovered, <1>1, PTL

\* admission.rs "honor-or-reject", try_admit: the free pool has what admitted
\* requests may still draw, and no schedule call fails, for every pool, page
\* size, set of requests and behaviour of the tier, its saves and the clients.
THEOREM PromisesBackedHolds == Spec => []PromisesBacked
<1>1. PoolInv => PromisesBacked
  <2> SUFFICES ASSUME PoolInv PROVE PromisesBacked
    OBVIOUS
  <2>1. Balance /\ Covered
    BY Balanced DEF PoolInv
  <2> QED
    BY <2>1 DEF Balance, Covered, PromisesBacked
<1> QED
  BY PoolCovered, <1>1, PTL
================================================================================
