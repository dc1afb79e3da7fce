-------------------------- MODULE K3SchedulerProofs --------------------------
(***************************************************************************)
(* The slots of the K3 schedulers, for any world, gang width, slots,       *)
(* requests and deployments: none is lost or held twice.                   *)
(***************************************************************************)
EXTENDS K3Scheduler, FiniteSetTheorems, SequenceTheorems, WellFoundedInduction, TLAPS

-----------------------------------------------------------------------------
(* Slots.                                                                  *)

\* What a request is while it holds a slot.
Holding == {"posted", "fallback", "prefill", "running"}
HeldBy(r) == {q \in Request : Home[q] = r /\ state[q] \in Holding}

\* q is a request of rank r in the given state.
Hers(r, q, where) == q \in Request /\ Home[q] = r /\ state[q] = where

\* The free slots and the held ones are all the slots.
Slots == \A r \in Rank : IsFiniteSet(HeldBy(r)) /\ free[r] + Cardinality(HeldBy(r)) = MaxBatch

\* Only a running stream has tokens, and it has not reached its length.
Ledger == \A q \in Request : IF state[q] = "running" THEN toks[q] < MaxTokens ELSE toks[q] = 0

\* A queue lists requests of its rank that wait, each once.
Queues ==
    /\ queued \in [Rank -> Seq(Request)]
    /\ \A r \in Rank : \A i \in 1..Len(queued[r]) : Hers(r, queued[r][i], "queued")
    /\ \A r \in Rank : \A i, j \in 1..Len(queued[r]) : i # j => queued[r][i] # queued[r][j]

\* The outstanding post and the cancelled one are requests in those states.
Posts ==
    /\ posted \in [Rank -> [req : Request \cup {NoReq}, seq : Int]]
    /\ fallback \in [Rank -> [req : Request \cup {NoReq}, seq : Int]]
    /\ \A r \in Rank : posted[r] = NoPost \/ Hers(r, posted[r].req, "posted")
    /\ \A r \in Rank : fallback[r] = NoPost \/ Hers(r, fallback[r].req, "fallback")

\* What a rank computes: its own prefill, or the post it left to a superstep.
Works ==
    \A r \in Rank :
        /\ pc[r] = "prefill" => Hers(r, work[r], "prefill")
        /\ pc[r] \in {"whale", "whaleWait"} /\ work[r] # NoReq =>
               Hers(r, work[r], "posted") /\ posted[r] = NoPost

\* Where a rank is while it serves the gang board.
AtBoard == {"gang", "pump", "pumpWait", "cp", "cpWait"}

\* The gang board: a job its owner has not run is the owner's work, within its
\* horizon; the owner has one; what a rank computes is a job it has not run.
Job == [req : Request, entries : [Rank -> Int], done : SUBSET Rank]
BoardTypes ==
    /\ nextId \in Nat /\ horizon \in [Rank -> Int]
    /\ job \in [Rank -> [seq : Int, req : Request \cup {NoReq}]]
    /\ jobs \in [DOMAIN jobs -> Job] /\ DOMAIN jobs \subseteq 0..(nextId - 1)
Owed(i) == Home[jobs[i].req] \notin jobs[i].done
OwnJob ==
    \A i \in DOMAIN jobs : Owed(i) =>
        /\ pc[Home[jobs[i].req]] \in AtBoard \cup {"dead"} /\ work[Home[jobs[i].req]] = jobs[i].req
        /\ state[jobs[i].req] = "prefill" /\ i <= horizon[Home[jobs[i].req]]
OneJob ==
    \A i, j \in DOMAIN jobs :
        Owed(i) /\ Owed(j) /\ Home[jobs[i].req] = Home[jobs[j].req] => i = j
Computing ==
    \A r \in Rank : pc[r] \in {"cp", "cpWait"} =>
        /\ job[r].seq \in DOMAIN jobs /\ job[r].req = jobs[job[r].seq].req
        /\ r \notin jobs[job[r].seq].done
Board == BoardTypes /\ OwnJob /\ OneJob /\ Computing

\* The messages of the rendezvous.
UpBody == [type : {"Request"}, req : Request] \cup [type : {"Ready"}, seq : Nat, count : 0..MaxLaunch]
DownBody == [type : {"Gather"}, seq : Nat, req : Request]
            \cup [type : {"Commit"}, seq : Nat, launch : Nat] \cup [type : {"Cancel"}, seq : Nat]
Report == [m : UpBody, due : Nat]
Letter == [m : DownBody, due : Nat]
Whale == [seq : Nat, req : Request]
Agreed == [seq : Nat, req : Request, launch : Nat]
Sequencer == [next : Nat, floor : Int, gathering : Whale \cup {None},
              replies : SUBSET [rank : Rank, count : 0..MaxLaunch], queue : Seq(Request)]

HubTypes ==
    /\ seqr \in Sequencer /\ seqr.floor >= -1
    /\ up \in [Rank -> Seq(Report)] /\ down \in [Rank -> Seq(Letter)]
    /\ armed \in [Rank -> SUBSET Whale] /\ committed \in [Rank -> Seq(Agreed)]

\* The lane and the kinds do not change.
Deployed == lane \in {"whale", "cp"} /\ kind \in [Request -> Kind]

\* Where a scheduler thread can be.
Place == {"top", "whale", "whaleWait", "admit", "admitHeld", "prefill", "gang",
          "pump", "pumpWait", "cp", "cpWait", "decodeWait", "dead"}

SlotInv == TypeOK /\ Deployed /\ Slots /\ Ledger /\ Queues /\ Posts /\ Works /\ Board /\ HubTypes
-----------------------------------------------------------------------------
(* Numbers.                                                                *)

\* A non-empty set of natural numbers has a least element.
LEMMA LeastNumber ==
    ASSUME NEW T, T \subseteq Nat, T # {}
    PROVE  \E x \in T : \A y \in T : x <= y
<1> PICK R : R = {ss \in Nat \X Nat : ss[1] < ss[2]}
  OBVIOUS
<1>1. IsWellFoundedOn(R, Nat)
  BY NatLessThanWellFounded DEF OpToRel
<1>2. PICK x \in T : \A y \in T : ~ (<<y, x>> \in R)
  BY <1>1, WFMin, Zenon
<1>3. \A y \in T : ~ (y < x)
  BY <1>2
<1> QED
  BY <1>3

\* Max of a non-empty set of integers with an upper bound.
LEMMA MaxFacts ==
    ASSUME NEW S, S \subseteq Int, S # {}, NEW n \in Int, \A x \in S : x <= n
    PROVE  Max(S) \in S /\ \A x \in S : x <= Max(S)
<1>1. PICK T : T = {n - x : x \in S}
  OBVIOUS
<1>2. T \subseteq Nat /\ T # {}
  <2>1. \A x \in S : x \in Int /\ n - x \in Nat
    OBVIOUS
  <2>2. \A y \in T : y \in Nat
    BY <1>1, <2>1
  <2>3. PICK x \in S : TRUE
    OBVIOUS
  <2>4. n - x \in T
    BY <1>1, <2>3
  <2> QED
    BY <2>2, <2>4
<1>3. PICK y \in T : \A z \in T : y <= z
  BY <1>2, LeastNumber
<1>4. PICK x \in S : y = n - x
  BY <1>1
<1>5. \A z \in S : n - z \in T
  BY <1>1
<1>6. \A z \in S : x >= z
  BY <1>3, <1>4, <1>5
<1>7. \E u \in S : \A z \in S : u >= z
  BY <1>6
<1>8. PICK u : u = Max(S)
  OBVIOUS
<1>9. u \in S /\ \A z \in S : u >= z
  BY <1>7, <1>8, Zenon DEF Max
<1> QED
  BY <1>8, <1>9

\* Min of a non-empty set of natural numbers.
LEMMA MinFacts ==
    ASSUME NEW S, S \subseteq Nat, S # {}
    PROVE  Min(S) \in S /\ \A x \in S : Min(S) <= x
<1>1. \E u \in S : \A z \in S : u =< z
  BY LeastNumber
<1>2. PICK u : u = Min(S)
  OBVIOUS
<1>3. u \in S /\ \A z \in S : u =< z
  BY <1>1, <1>2, Zenon DEF Min
<1> QED
  BY <1>2, <1>3

\* Ranks are natural numbers, and there is one.
LEMMA RankFacts == Rank \subseteq Nat /\ 0 \in Rank /\ IsFiniteSet(Rank)
  BY K3Assumption, FS_Interval DEF Rank

\* The clock is the highest launch count.
LEMMA NowFacts ==
    ASSUME count \in [Rank -> 0..MaxLaunch]
    PROVE  /\ Now \in Nat /\ \A r \in Rank : count[r] <= Now
           /\ \E r \in Rank : Now = count[r]
<1>1. PICK S : S = {count[r] : r \in Rank}
  OBVIOUS
<1>2. S \subseteq Int /\ S # {} /\ MaxLaunch \in Int /\ \A x \in S : x <= MaxLaunch /\ x \in Nat
  BY <1>1, RankFacts, K3Assumption
<1>3. Max(S) \in S /\ \A x \in S : x <= Max(S)
  BY <1>2, MaxFacts
<1>4. Now = Max(S)
  BY <1>1 DEF Now
<1> QED
  BY <1>1, <1>2, <1>3, <1>4

\* A gang is made of ranks and holds its poster.
LEMMA GangFacts ==
    ASSUME NEW r \in Rank
    PROVE  Gang(r) \subseteq Rank /\ r \in Gang(r)
<1>1. /\ World \in Nat /\ World >= 1 /\ Width \in Nat /\ Width >= 2 /\ Width <= World
      /\ Tray \in Nat /\ Tray >= 1 /\ r \in Nat /\ r < World
  BY K3Assumption DEF Rank
<1>2. PICK base : base = IF Width >= Tray THEN (r \div Tray) * Tray ELSE r
  OBVIOUS
<1>3. base \in Nat /\ base <= r /\ r < base + Width
  <2>1. CASE Width >= Tray
    <3>1. /\ r \div Tray \in Nat /\ r % Tray \in 0..(Tray - 1)
          /\ r = Tray * (r \div Tray) + (r % Tray)
      BY <1>1
    <3>2. PICK k \in Nat : k = r \div Tray
      BY <3>1
    <3>3. k * Tray \in Nat /\ k * Tray = Tray * k
      BY <3>2, <1>1
    <3> QED
      BY <1>1, <1>2, <2>1, <3>1, <3>2, <3>3
  <2>2. CASE ~ (Width >= Tray)
    BY <1>1, <1>2, <2>2
  <2> QED
    BY <2>1, <2>2
<1>4. PICK start : start = Min({base, World - Width})
  OBVIOUS
<1>5. start \in {base, World - Width} /\ start <= base /\ start <= World - Width
  <2>1. {base, World - Width} \subseteq Nat
    BY <1>1, <1>3
  <2> QED
    BY <2>1, <1>4, MinFacts
<1>6. Gang(r) = start..(start + Width - 1)
  BY <1>2, <1>4, Zenon DEF Gang
<1> QED
  BY <1>1, <1>3, <1>5, <1>6 DEF Rank

-----------------------------------------------------------------------------
(* Mail.                                                                   *)

Outbound == [to : SUBSET Rank, m : DownBody]

\* One place of the routing, and a table of its first n.
MailStep(r, out, k, i) ==
    IF i = 0 THEN <<>>
    ELSE IF r \in out[i].to THEN Append(k[i - 1], Stamp(out[i].m)) ELSE k[i - 1]
MailTable(r, out, k, n) == k = [i \in 0..n |-> MailStep(r, out, k, i)]

\* There is such a table for every length.
LEMMA MailTabled ==
    ASSUME NEW r, NEW out, NEW n \in Nat
    PROVE  \E k : MailTable(r, out, k, n)
<1> PICK T : T = {m \in Nat : ~ \E k : MailTable(r, out, k, m)}
  OBVIOUS
<1> SUFFICES ASSUME T # {} PROVE FALSE
  OBVIOUS
<1>1. PICK m \in T : \A y \in T : m <= y
  BY LeastNumber
<1>2. CASE m = 0
  <2>1. PICK k : k = [i \in 0..0 |-> <<>>]
    OBVIOUS
  <2>2. \A i \in 0..0 : i = 0
    OBVIOUS
  <2>3. MailTable(r, out, k, 0)
    BY <2>1, <2>2 DEF MailTable, MailStep
  <2> QED
    BY <1>1, <1>2, <2>3
<1>3. CASE m # 0
  <2>1. m \in Nat /\ m - 1 \in Nat /\ m - 1 \notin T
    BY <1>1, <1>3
  <2>2. PICK k : MailTable(r, out, k, m - 1)
    BY <2>1
  <2>3. PICK g : g = [i \in 0..m |-> IF i = m THEN MailStep(r, out, k, m) ELSE k[i]]
    OBVIOUS
  <2>4. \A i \in 0..(m - 1) : k[i] = MailStep(r, out, k, i)
    BY <2>2 DEF MailTable
  <2>5. \A i \in 0..(m - 1) : g[i] = k[i]
    BY <2>1, <2>3
  <2>6. ASSUME NEW i \in 0..m PROVE g[i] = MailStep(r, out, g, i)
    <3>1. i # 0 => i - 1 \in 0..(m - 1) /\ g[i - 1] = k[i - 1]
      BY <2>1, <2>5
    <3>2. MailStep(r, out, g, i) = MailStep(r, out, k, i)
      BY <3>1 DEF MailStep
    <3>3. CASE i = m
      BY <2>3, <3>2, <3>3
    <3>4. CASE i # m
      <4>1. i \in 0..(m - 1)
        BY <2>1, <3>4
      <4> QED
        BY <2>4, <2>5, <3>2, <4>1
    <3> QED
      BY <3>3, <3>4
  <2>7. MailTable(r, out, g, m)
    BY <2>3, <2>6 DEF MailTable
  <2> QED
    BY <1>1, <2>7
<1> QED
  BY <1>2, <1>3

\* The letters of a list of outbound messages are stamped copies of those
\* addressed to r, in their order.
Copies(r, out, mail, n) ==
    /\ mail \in Seq(Letter)
    /\ \E f \in [1..Len(mail) -> 1..n] :
           /\ \A i \in 1..Len(mail) : mail[i] = Stamp(out[f[i]].m) /\ r \in out[f[i]].to
           /\ \A i, j \in 1..Len(mail) : i < j => f[i] < f[j]

\* Routing makes such copies.
LEMMA MailFacts ==
    ASSUME NEW r, NEW out \in Seq(Outbound), Now \in Nat
    PROVE  Copies(r, out, Mail(r, out), Len(out))
<1>0. PICK L \in Nat : L = Len(out) /\ \A i \in 1..L : out[i] \in Outbound
  BY LenProperties
<1>1. PICK k : k = CHOOSE g : MailTable(r, out, g, L)
  OBVIOUS
<1>2. MailTable(r, out, k, L)
  BY <1>1, MailTabled
<1>3. Mail(r, out) = k[L]
  BY <1>0, <1>1 DEF Mail, MailTable, MailStep
<1>4. \A i \in 0..L : k[i] = MailStep(r, out, k, i)
  BY <1>2 DEF MailTable
<1>5. Copies(r, out, k[0], 0)
  <2>1. k[0] = <<>>
    BY <1>4, <1>0 DEF MailStep
  <2>2. <<>> \in Seq(Letter) /\ Len(<<>>) = 0
    OBVIOUS
  <2>3. PICK f : f = [i \in 1..0 |-> 1]
    OBVIOUS
  <2>4. f \in [1..0 -> 1..0] /\ \A i \in 1..0 : FALSE
    BY <2>3
  <2> QED
    BY <2>1, <2>2, <2>4 DEF Copies
<1>6. ASSUME NEW n \in 1..L, Copies(r, out, k[n - 1], n - 1) PROVE Copies(r, out, k[n], n)
  <2>1. n \in Nat /\ n - 1 \in Nat /\ out[n] \in Outbound /\ k[n] = MailStep(r, out, k, n) /\ n # 0
    BY <1>0, <1>4
  <2>2. PICK s : s = k[n - 1]
    OBVIOUS
  <2>3. s \in Seq(Letter) /\ Len(s) \in Nat
    BY <1>6, <2>2, LenProperties DEF Copies
  <2>4. PICK f \in [1..Len(s) -> 1..(n - 1)] :
           /\ \A i \in 1..Len(s) : s[i] = Stamp(out[f[i]].m) /\ r \in out[f[i]].to
           /\ \A i, j \in 1..Len(s) : i < j => f[i] < f[j]
    BY <1>6, <2>2 DEF Copies
  <2>5. \A i \in 1..Len(s) : f[i] \in Nat /\ f[i] <= n - 1 /\ f[i] < n /\ f[i] \in 1..n
    BY <2>1, <2>4
  <2>6. CASE r \notin out[n].to
    <3>1. k[n] = s
      BY <2>1, <2>2, <2>6 DEF MailStep
    <3>2. f \in [1..Len(s) -> 1..n]
      BY <2>4, <2>5
    <3> QED
      BY <2>3, <2>4, <3>1, <3>2 DEF Copies
  <2>7. CASE r \in out[n].to
    <3>1. k[n] = Append(s, Stamp(out[n].m))
      BY <2>1, <2>2, <2>7 DEF MailStep
    <3>2. Stamp(out[n].m) \in Letter
      BY <2>1, K3Assumption DEF Stamp, Outbound, Letter
    <3>3. PICK t : t = Append(s, Stamp(out[n].m))
      OBVIOUS
    <3>4. /\ t \in Seq(Letter) /\ Len(t) = Len(s) + 1 /\ t[Len(s) + 1] = Stamp(out[n].m)
          /\ \A i \in 1..Len(s) : t[i] = s[i]
      BY <2>3, <3>2, <3>3, AppendProperties
    <3>5. PICK g : g = [i \in 1..(Len(s) + 1) |-> IF i = Len(s) + 1 THEN n ELSE f[i]]
      OBVIOUS
    <3>6. \A i \in 1..(Len(s) + 1) : i = Len(s) + 1 \/ (i \in 1..Len(s) /\ i # Len(s) + 1)
      BY <2>3
    <3>7. g[Len(s) + 1] = n /\ \A i \in 1..Len(s) : g[i] = f[i]
      BY <2>3, <3>5
    <3>8. g \in [1..Len(t) -> 1..n]
      BY <2>1, <2>5, <3>4, <3>5, <3>6
    <3>9. ASSUME NEW i \in 1..Len(t)
          PROVE  t[i] = Stamp(out[g[i]].m) /\ r \in out[g[i]].to
      BY <2>4, <2>7, <3>4, <3>6, <3>7
    <3>10. ASSUME NEW i \in 1..Len(t), NEW j \in 1..Len(t), i < j PROVE g[i] < g[j]
      <4>1. i \in 1..Len(s)
        BY <2>3, <3>4, <3>10
      <4>2. CASE j = Len(s) + 1
        BY <2>5, <3>7, <4>1, <4>2
      <4>3. CASE j # Len(s) + 1
        BY <2>4, <3>4, <3>6, <3>7, <3>10, <4>1, <4>3
      <4> QED
        BY <4>2, <4>3
    <3> QED
      BY <3>1, <3>3, <3>4, <3>8, <3>9, <3>10 DEF Copies
  <2> QED
    BY <2>6, <2>7
<1>7. PICK T : T = {n \in 0..L : ~ Copies(r, out, k[n], n)}
  OBVIOUS
<1>8. ASSUME T # {} PROVE FALSE
  <2>1. T \subseteq Nat
    BY <1>0, <1>7
  <2>2. PICK n \in T : \A y \in T : n <= y
    BY <1>8, <2>1, LeastNumber
  <2>3. n \in 0..L /\ ~ Copies(r, out, k[n], n)
    BY <1>7
  <2>4. n # 0
    BY <2>3, <1>5
  <2>5. n \in 1..L /\ n - 1 \in 0..L /\ ~ (n <= n - 1)
    BY <2>3, <2>4, <1>0
  <2>6. Copies(r, out, k[n - 1], n - 1)
    BY <2>2, <2>5, <1>7
  <2> QED
    BY <2>3, <2>5, <2>6, <1>6
<1>9. L \in 0..L
  BY <1>0
<1> QED
  BY <1>0, <1>3, <1>7, <1>8, <1>9

-----------------------------------------------------------------------------
(* The sequencer's queue.                                                  *)

\* The first n queued requests get the next n sequence numbers: each is refused,
\* or it is the last of them and is gathered.
Refusal(s, k) ==
    [to |-> {Home[s.queue[k]]}, m |-> [type |-> "Cancel", seq |-> s.next + k - 1]]
Gather(s, k) ==
    [to |-> Gang(Home[s.queue[k]]),
     m |-> [type |-> "Gather", seq |-> s.next + k - 1, req |-> s.queue[k]]]
Pops(s, g, n) ==
    /\ g.s \in Sequencer /\ g.out \in Seq(Outbound) /\ Len(g.out) = n
    /\ g.s.next = s.next + n /\ g.s.floor = s.floor
    /\ Len(g.s.queue) = Len(s.queue) - n
    /\ \A i \in 1..(Len(s.queue) - n) : g.s.queue[i] = s.queue[i + n]
    /\ s.gathering # None => n = 0
    /\ \/ /\ g.s.gathering = s.gathering /\ g.s.replies = s.replies
          /\ \A k \in 1..n : g.out[k] = Refusal(s, k)
       \/ /\ n >= 1 /\ s.gathering = None /\ g.s.replies = {}
          /\ g.s.gathering = [seq |-> s.next + n - 1, req |-> s.queue[n]]
          /\ \A k \in 1..(n - 1) : g.out[k] = Refusal(s, k)
          /\ g.out[n] = Gather(s, n)

\* A numbered request is in a gang's list of messages.
LEMMA OutboundFacts ==
    ASSUME NEW s \in Sequencer, NEW k \in 1..Len(s.queue)
    PROVE  Refusal(s, k) \in Outbound /\ Gather(s, k) \in Outbound
<1>1. s.queue \in Seq(Request) /\ s.next \in Nat /\ s.queue[k] \in Request /\ k \in Nat /\ k >= 1
  BY LenProperties DEF Sequencer
<1>2. Home[s.queue[k]] \in Rank /\ s.next + k - 1 \in Nat
  BY <1>1, K3Assumption
<1>3. Gang(Home[s.queue[k]]) \subseteq Rank
  BY <1>2, GangFacts
<1> QED
  BY <1>1, <1>2, <1>3 DEF Refusal, Gather, Outbound, DownBody

\* The fields of a sequencer, and replacing some of them.
LEMMA SequencerFields ==
    ASSUME NEW s
    PROVE  /\ s \in Sequencer =>
                  /\ s.next \in Nat /\ s.floor \in Int /\ s.gathering \in Whale \cup {None}
                  /\ s.replies \in SUBSET [rank : Rank, count : 0..MaxLaunch] /\ s.queue \in Seq(Request)
           /\ \A n, f, g, r, q :
                  /\ n \in Nat /\ f \in Int /\ g \in Whale \cup {None}
                  /\ r \in SUBSET [rank : Rank, count : 0..MaxLaunch] /\ q \in Seq(Request)
                  => [next |-> n, floor |-> f, gathering |-> g, replies |-> r, queue |-> q] \in Sequencer
<1>1. PICK A : A = Whale \cup {None}
  OBVIOUS
<1>2. PICK B : B = SUBSET [rank : Rank, count : 0..MaxLaunch]
  OBVIOUS
<1>3. PICK Q : Q = Seq(Request)
  OBVIOUS
<1>4. Sequencer = [next : Nat, floor : Int, gathering : A, replies : B, queue : Q]
  BY <1>1, <1>2, <1>3 DEF Sequencer
<1> QED
  BY <1>1, <1>2, <1>3, <1>4

\* start_next_gather pops the head of the queue like that.
LEMMA GatherFacts ==
    ASSUME NEW s \in Sequencer
    PROVE  \E n \in 0..Len(s.queue) : Pops(s, StartNextGather(s), n)
<1>1. PICK L \in Nat : L = Len(s.queue) /\ s.queue \in Seq(Request)
  BY LenProperties DEF Sequencer
<1>2. PICK open : open = {i \in 1..Len(s.queue) : kind[s.queue[i]] # "refused"}
  OBVIOUS
<1>3. PICK drop : drop = IF s.gathering # None THEN 0
                         ELSE IF open = {} THEN Len(s.queue) ELSE Min(open) - 1
  OBVIOUS
<1>4. open # {} => Min(open) \in open
  <2>1. open \subseteq Nat
    BY <1>1, <1>2
  <2> QED
    BY <2>1, MinFacts
<1>5. drop \in 0..L /\ (s.gathering = None /\ open # {} => drop + 1 \in 1..L)
  BY <1>1, <1>2, <1>3, <1>4
<1>6. PICK refusals : refusals = [i \in 1..drop |->
            [to |-> {Home[s.queue[i]]}, m |-> [type |-> "Cancel", seq |-> s.next + i - 1]]]
  OBVIOUS
<1>7. /\ refusals \in Seq(Outbound) /\ Len(refusals) = drop
      /\ \A k \in 1..drop : refusals[k] = Refusal(s, k)
  <2>1. \A k \in 1..drop : refusals[k] = Refusal(s, k)
    BY <1>6 DEF Refusal
  <2>2. \A k \in 1..drop : Refusal(s, k) \in Outbound
    BY <1>1, <1>5, OutboundFacts
  <2>3. refusals \in [1..drop -> Outbound] /\ drop \in Nat
    <3>1. refusals = [i \in 1..drop |-> Refusal(s, i)]
      BY <1>6, Zenon DEF Refusal
    <3> QED
      BY <3>1, <1>5, <2>2
  <2> QED
    BY <2>1, <2>3
<1>8. CASE s.gathering # None \/ open = {}
  <2>1. PICK rest : rest = SubSeq(s.queue, drop + 1, Len(s.queue))
    OBVIOUS
  <2>2. /\ rest \in Seq(Request) /\ Len(rest) = L - drop
        /\ \A i \in 1..(L - drop) : rest[i] = s.queue[i + drop]
    BY <1>1, <1>5, <2>1
  <2>3. PICK t : t = [s EXCEPT !.next = s.next + drop, !.queue = rest]
    OBVIOUS
  <2>4. /\ t \in Sequencer /\ t.next = s.next + drop /\ t.queue = rest
        /\ t.floor = s.floor /\ t.gathering = s.gathering /\ t.replies = s.replies
    <3>1. s.next + drop \in Nat
      BY <1>5, SequencerFields
    <3>2. t = [next |-> s.next + drop, floor |-> s.floor, gathering |-> s.gathering,
               replies |-> s.replies, queue |-> rest]
      BY <2>3 DEF Sequencer
    <3> QED
      BY <3>1, <3>2, <2>2, SequencerFields
  <2>5. PICK g : g = StartNextGather(s)
    OBVIOUS
  <2>6. g = [s |-> t, out |-> refusals]
    BY <1>2, <1>3, <1>6, <1>8, <2>1, <2>3, <2>5, Zenon DEF StartNextGather
  <2>7. g.s = t /\ g.out = refusals
    BY <2>6
  <2>8. s.gathering # None => drop = 0
    BY <1>3
  <2>9. Pops(s, g, drop)
    BY <1>1, <1>7, <2>2, <2>4, <2>7, <2>8 DEF Pops
  <2> QED
    BY <1>1, <1>5, <2>5, <2>9
<1>9. CASE s.gathering = None /\ open # {}
  <2>0. drop + 1 \in 1..L /\ drop \in Nat
    BY <1>5, <1>9
  <2>1. PICK rest : rest = SubSeq(s.queue, drop + 2, Len(s.queue))
    OBVIOUS
  <2>2. /\ rest \in Seq(Request) /\ Len(rest) = L - (drop + 1)
        /\ \A i \in 1..(L - (drop + 1)) : rest[i] = s.queue[i + (drop + 1)]
    BY <1>1, <2>0, <2>1
  <2>3. PICK d : d = [seq |-> s.next + drop, req |-> s.queue[drop + 1]]
    OBVIOUS
  <2>4. d \in Whale
    BY <1>1, <2>0, <2>3, LenProperties DEF Whale, Sequencer
  <2>5. PICK t : t = [s EXCEPT !.next = s.next + drop + 1, !.queue = rest, !.gathering = d,
                               !.replies = {}]
    OBVIOUS
  <2>6. /\ t \in Sequencer /\ t.next = s.next + drop + 1 /\ t.queue = rest
        /\ t.floor = s.floor /\ t.gathering = d /\ t.replies = {}
    <3>1. s.next + drop + 1 \in Nat
      BY <2>0, SequencerFields
    <3>2. t = [next |-> s.next + drop + 1, floor |-> s.floor, gathering |-> d,
               replies |-> {}, queue |-> rest]
      BY <2>5 DEF Sequencer
    <3> QED
      BY <3>1, <3>2, <2>2, <2>4, SequencerFields
  <2>7. PICK last : last = [to |-> Gang(Home[d.req]),
                            m |-> [type |-> "Gather", seq |-> d.seq, req |-> d.req]]
    OBVIOUS
  <2>8. last = Gather(s, drop + 1) /\ last \in Outbound
    <3>1. s.next + (drop + 1) - 1 = s.next + drop
      BY <2>0 DEF Sequencer
    <3>2. last = Gather(s, drop + 1)
      BY <2>3, <2>7, <3>1 DEF Gather
    <3> QED
      BY <3>2, <1>1, <2>0, OutboundFacts
  <2>9. PICK out : out = Append(refusals, last)
    OBVIOUS
  <2>10. /\ out \in Seq(Outbound) /\ Len(out) = drop + 1 /\ out[drop + 1] = last
         /\ \A k \in 1..drop : out[k] = Refusal(s, k)
    BY <1>7, <2>0, <2>8, <2>9, AppendProperties
  <2>11. PICK g : g = StartNextGather(s)
    OBVIOUS
  <2>12. g = [s |-> t, out |-> out]
    <3>1. ~ (s.gathering # None \/ open = {})
      BY <1>9
    <3>2. g = [s |-> [s EXCEPT !.next = @ + drop + 1, !.queue = SubSeq(@, drop + 2, Len(@)),
                                  !.gathering = d, !.replies = {}],
                  out |-> Append(refusals, [to |-> Gang(Home[d.req]),
                                            m |-> [type |-> "Gather", seq |-> d.seq, req |-> d.req]])]
      BY <3>1, <1>2, <1>3, <1>6, <2>3, <2>11, Zenon DEF StartNextGather
    <3> QED
      BY <3>2, <2>1, <2>5, <2>7, <2>9
  <2>13. g.s = t /\ g.out = out
    BY <2>12
  <2>14. PICK n : n = drop + 1
    OBVIOUS
  <2>15. /\ n \in 0..L /\ n >= 1 /\ n - 1 = drop /\ s.next + n - 1 = s.next + drop
         /\ s.next + n = s.next + drop + 1
    BY <2>0, <2>14, <1>1 DEF Sequencer
  <2>16. Pops(s, g, n)
    BY <1>1, <1>9, <2>2, <2>3, <2>6, <2>8, <2>10, <2>13, <2>14, <2>15 DEF Pops
  <2> QED
    BY <1>1, <2>11, <2>15, <2>16
<1> QED
  BY <1>8, <1>9

-----------------------------------------------------------------------------
(* Slots.                                                                  *)

\* No slot changes hands.
LEMMA SlotsKept ==
    ASSUME Slots, UNCHANGED free,
           \A q \in Request : state'[q] \in Holding <=> state[q] \in Holding
    PROVE  Slots'
<1>1. \A r \in Rank : HeldBy(r)' = HeldBy(r)
  BY DEF HeldBy
<1> QED
  BY <1>1 DEF Slots

\* A request takes a slot of its rank.
LEMMA SlotTaken ==
    ASSUME TypeOK, Slots, NEW r \in Rank, NEW q \in Request, Home[q] = r, free[r] > 0,
           state[q] \notin Holding, NEW where \in Holding,
           state' = [state EXCEPT ![q] = where], free' = [free EXCEPT ![r] = @ - 1]
    PROVE  Slots' /\ free' \in [Rank -> 0..MaxBatch]
<1>1. state \in [Request -> {"new", "queued", "posted", "fallback", "prefill", "running"} \cup Over]
  BY DEF TypeOK
<1>2. HeldBy(r)' = HeldBy(r) \cup {q} /\ q \notin HeldBy(r)
  BY <1>1 DEF HeldBy
<1>3. \A p \in Rank : p # r => HeldBy(p)' = HeldBy(p)
  BY <1>1 DEF HeldBy
<1>4. PICK H : H = HeldBy(r)
  OBVIOUS
<1>5. IsFiniteSet(H) /\ Cardinality(H) \in Nat /\ free[r] + Cardinality(H) = MaxBatch
  BY <1>4, FS_CardinalityType DEF Slots
<1>6. IsFiniteSet(H \cup {q}) /\ Cardinality(H \cup {q}) = Cardinality(H) + 1
  BY <1>2, <1>4, <1>5, FS_AddElement
<1>7. free \in [Rank -> 0..MaxBatch] /\ MaxBatch \in Nat
  BY K3Assumption DEF TypeOK
<1>8. free'[r] = free[r] - 1 /\ \A p \in Rank : p # r => free'[p] = free[p]
  BY <1>7
<1>9. free' \in [Rank -> 0..MaxBatch]
  BY <1>7, <1>5
<1>10. ASSUME NEW p \in Rank
       PROVE  IsFiniteSet(HeldBy(p)') /\ free'[p] + Cardinality(HeldBy(p)') = MaxBatch
  <2>1. CASE p = r
    <3>1. HeldBy(p)' = H \cup {q}
      BY <1>2, <1>4, <2>1
    <3>2. (free[r] - 1) + (Cardinality(H) + 1) = MaxBatch
      BY <1>5, <1>7
    <3> QED
      BY <3>1, <3>2, <1>6, <1>8, <2>1
  <2>2. CASE p # r
    BY <1>3, <1>8, <2>2 DEF Slots
  <2> QED
    BY <2>1, <2>2
<1> QED
  BY <1>9, <1>10 DEF Slots

\* The requests of S give their slots of r back.
LEMMA SlotsReturned ==
    ASSUME TypeOK, Slots, NEW r \in Rank, NEW S, S \subseteq HeldBy(r),
           free' = [free EXCEPT ![r] = @ + Cardinality(S)],
           \A q \in Request : state'[q] \in Holding <=> state[q] \in Holding /\ q \notin S
    PROVE  Slots' /\ free' \in [Rank -> 0..MaxBatch]
<1>1. HeldBy(r)' = HeldBy(r) \ S
  BY DEF HeldBy
<1>2. \A p \in Rank : p # r => HeldBy(p)' = HeldBy(p)
  BY DEF HeldBy
<1>3. PICK H : H = HeldBy(r)
  OBVIOUS
<1>4. IsFiniteSet(H) /\ Cardinality(H) \in Nat /\ free[r] + Cardinality(H) = MaxBatch
  BY <1>3, FS_CardinalityType DEF Slots
<1>5. IsFiniteSet(S) /\ IsFiniteSet(H \ S) /\ Cardinality(S) \in Nat /\ Cardinality(H \ S) \in Nat
  BY <1>3, <1>4, FS_Subset, FS_CardinalityType
<1>6. Cardinality(H \ S) = Cardinality(H) - Cardinality(S)
  <2>1. Cardinality(H \ S) = Cardinality(H) - Cardinality(H \cap S)
    BY <1>4, FS_Difference
  <2>2. H \cap S = S
    BY <1>3
  <2> QED
    BY <2>1, <2>2
<1>7. free \in [Rank -> 0..MaxBatch] /\ MaxBatch \in Nat
  BY K3Assumption DEF TypeOK
<1>8. free'[r] = free[r] + Cardinality(S) /\ \A p \in Rank : p # r => free'[p] = free[p]
  BY <1>7
<1>9. free[r] + Cardinality(S) \in 0..MaxBatch
  <2>1. Cardinality(H) - Cardinality(S) >= 0 /\ free[r] \in Nat
    BY <1>5, <1>6, <1>7
  <2> QED
    BY <2>1, <1>4, <1>5, <1>7
<1>10. free' \in [Rank -> 0..MaxBatch]
  BY <1>7, <1>9
<1>11. ASSUME NEW p \in Rank
       PROVE  IsFiniteSet(HeldBy(p)') /\ free'[p] + Cardinality(HeldBy(p)') = MaxBatch
  <2>1. CASE p = r
    <3>1. HeldBy(p)' = H \ S
      BY <1>1, <1>3, <2>1
    <3>2. (free[r] + Cardinality(S)) + (Cardinality(H) - Cardinality(S)) = MaxBatch
      BY <1>4, <1>5, <1>7
    <3> QED
      BY <3>1, <3>2, <1>5, <1>6, <1>8, <2>1
  <2>2. CASE p # r
    BY <1>2, <1>8, <2>2 DEF Slots
  <2> QED
    BY <2>1, <2>2
<1> QED
  BY <1>10, <1>11 DEF Slots

\* Queued requests stay queued.
LEMMA QueuesKept ==
    ASSUME Queues, UNCHANGED queued, \A q \in Request : state[q] = "queued" => state'[q] = "queued"
    PROVE  Queues'
<1>1. ASSUME NEW r \in Rank, NEW i \in 1..Len(queued[r]) PROVE Hers(r, queued[r][i], "queued")'
  <2>1. Hers(r, queued[r][i], "queued")
    BY DEF Queues
  <2>2. PICK q : q = queued[r][i]
    OBVIOUS
  <2>3. q \in Request /\ Home[q] = r /\ state'[q] = "queued"
    BY <2>1, <2>2 DEF Hers
  <2>4. queued'[r][i] = q
    BY <2>2
  <2> QED
    BY <2>3, <2>4 DEF Hers
<1>2. /\ queued' \in [Rank -> Seq(Request)]
      /\ \A r \in Rank : \A i, j \in 1..Len(queued[r]) : i # j => queued[r][i] # queued[r][j]
  BY DEF Queues
<1> QED
  BY <1>1, <1>2 DEF Queues

-----------------------------------------------------------------------------
(* Steps that answer nobody and take no slot.                              *)

\* The batch is as it was.
LEMMA BatchKept ==
    ASSUME SlotInv, UNCHANGED batch
    PROVE  Slots' /\ Ledger' /\ Queues'
<1>1. \A r : HeldBy(r)' = HeldBy(r)
  BY DEF HeldBy, batch
<1> QED
  BY <1>1 DEF SlotInv, Slots, Ledger, Queues, batch, Hers

\* serve and the top of a step.
LEMMA StepStartSlots ==
    ASSUME SlotInv, NEW r \in Rank, StepStart(r)
    PROVE  SlotInv'
<1> USE DEF StepStart, Goto, board, post, hub, member, batch, const
<1>1. Slots' /\ Ledger' /\ Queues'
  BY BatchKept
<1>2. TypeOK' /\ Deployed'
  BY DEF SlotInv, TypeOK, Deployed, Over
<1>3. Posts' /\ HubTypes'
  BY DEF SlotInv, Posts, HubTypes, Hers
<1>4. Works'
  BY DEF SlotInv, Works, TypeOK, Hers
<1>5. horizon' \in [Rank -> Int]
  <2>1. CASE DOMAIN jobs # {}
    <3>1. DOMAIN jobs \subseteq 0..(nextId - 1) /\ nextId \in Nat /\ horizon \in [Rank -> Int]
      BY DEF SlotInv, Board, BoardTypes, OwnJob, OneJob, Computing, Owed
    <3>2. Max(DOMAIN jobs) \in DOMAIN jobs
      BY <2>1, <3>1, MaxFacts
    <3> QED
      BY <2>1, <3>1, <3>2
  <2> QED
    BY <2>1 DEF SlotInv, Board, BoardTypes, OwnJob, OneJob, Computing, Owed
<1>6. \A i \in DOMAIN jobs : Owed(i) => Home[jobs[i].req] # r
  BY DEF SlotInv, Board, OwnJob, Owed, AtBoard
<1>7. \A p \in Rank : p # r => pc'[p] = pc[p] /\ horizon'[p] = horizon[p]
  BY DEF SlotInv, TypeOK, Board, BoardTypes
<1>8. \A i \in DOMAIN jobs : Home[jobs[i].req] \in Rank
  BY K3Assumption DEF SlotInv, Board, BoardTypes, Job
<1>9. pc'[r] \notin {"cp", "cpWait"}
  BY DEF SlotInv, TypeOK
<1>10. Board'
  BY <1>5, <1>6, <1>7, <1>8, <1>9 DEF SlotInv, Board, BoardTypes, OwnJob, OneJob, Computing, Owed
<1> QED
  BY <1>1, <1>2, <1>3, <1>4, <1>10 DEF SlotInv

\* A launch is within the bound.
LEMMA LaunchFacts ==
    ASSUME TypeOK, NEW r \in Rank, Launch(r)
    PROVE  count' \in [Rank -> 0..MaxLaunch]
  BY K3Assumption DEF TypeOK, Launch

\* A launch whose thread then waits.
LEMMA LaunchSlots ==
    ASSUME SlotInv, NEW r \in Rank, WhaleLaunch(r) \/ PumpLaunch(r) \/ CpLaunch(r) \/ PumpReturn(r)
    PROVE  SlotInv'
<1> USE DEF WhaleLaunch, PumpLaunch, CpLaunch, PumpReturn, Goto, board, post, hub, member, batch, const
<1>1. Slots' /\ Ledger' /\ Queues'
  BY BatchKept
<1>2. count' \in [Rank -> 0..MaxLaunch]
  BY LaunchFacts DEF SlotInv, TypeOK
<1>3. TypeOK' /\ Deployed'
  BY <1>2 DEF SlotInv, TypeOK, Deployed, Over
<1>4. Posts' /\ HubTypes'
  BY DEF SlotInv, Posts, HubTypes, Hers
<1>5. Works'
  BY DEF SlotInv, Works, TypeOK, Hers
<1>6. \A p \in Rank : /\ pc[p] \in AtBoard \cup {"dead"} => pc'[p] \in AtBoard \cup {"dead"}
                      /\ pc'[p] \in {"cp", "cpWait"} => pc[p] \in {"cp", "cpWait"}
  BY DEF SlotInv, TypeOK, AtBoard
<1>7. \A i \in DOMAIN jobs : Home[jobs[i].req] \in Rank
  BY K3Assumption DEF SlotInv, Board, BoardTypes, Job
<1>8. Board'
  BY <1>6, <1>7 DEF SlotInv, Board, BoardTypes, OwnJob, OneJob, Computing, Owed
<1> QED
  BY <1>1, <1>3, <1>4, <1>5, <1>8 DEF SlotInv

\* One chunk of a local prefill.
LEMMA PrefillLaunchSlots ==
    ASSUME SlotInv, NEW r \in Rank, PrefillLaunch(r)
    PROVE  SlotInv'
<1> USE DEF PrefillLaunch, Goto, board, post, hub, member, batch, const
<1>1. Slots' /\ Ledger' /\ Queues'
  BY BatchKept
<1>2. count' \in [Rank -> 0..MaxLaunch]
  BY LaunchFacts DEF SlotInv
<1>3. left' \in [Rank -> 0..PrefillLaunches]
  BY K3Assumption DEF SlotInv, TypeOK
<1>4. TypeOK' /\ Deployed'
  BY <1>2, <1>3 DEF SlotInv, TypeOK, Deployed, Over
<1>5. Posts' /\ HubTypes' /\ Works' /\ Board'
  BY SMTT(40) DEF SlotInv, Posts, HubTypes, Hers, Works, Board, BoardTypes, OwnJob, OneJob, Computing, Owed
<1> QED
  BY <1>1, <1>4, <1>5 DEF SlotInv

\* An abort, or a step beyond the bound.
LEMMA AbortSlots ==
    ASSUME SlotInv, (\E q \in Request : Abort(q)) \/ UNCHANGED vars
    PROVE  SlotInv'
<1> USE DEF Abort, vars, board, post, hub, member, batch, const
<1>1. Slots' /\ Ledger' /\ Queues'
  BY BatchKept
<1>2. TypeOK' /\ Deployed'
  BY DEF SlotInv, TypeOK, Deployed, Over
<1>3. Posts' /\ HubTypes' /\ Works' /\ Board'
  <2>1. UNCHANGED <<seqr, up, down, armed, committed, posted, fallback, state, pc, work>>
    BY Zenon
  <2>2. UNCHANGED <<jobs, nextId, horizon, job>>
    BY Zenon
  <2> QED
    BY <2>1, <2>2 DEF SlotInv, Posts, HubTypes, Hers, Works, Board, BoardTypes, OwnJob, OneJob, Computing, Owed
<1> QED
  BY <1>1, <1>2, <1>3 DEF SlotInv

\* One pass over the gang board.
LEMMA GangPassSlots ==
    ASSUME SlotInv, NEW r \in Rank, GangPass(r)
    PROVE  SlotInv'
<1>0. /\ pc[r] = "gang" /\ UNCHANGED batch /\ UNCHANGED <<lane, kind, count, aborted, work, left>>
      /\ UNCHANGED <<seqr, up, down, armed, committed, posted, fallback, nextId, horizon, fatal>>
  BY DEF GangPass, hub, member, post, const
<1>1. Slots' /\ Ledger' /\ Queues'
  BY <1>0, BatchKept
<1>2. /\ nextId \in Nat /\ horizon \in [Rank -> Int] /\ DOMAIN jobs \subseteq 0..(nextId - 1)
      /\ job \in [Rank -> [seq : Int, req : Request \cup {NoReq}]] /\ jobs \in [DOMAIN jobs -> Job]
  BY DEF SlotInv, Board, BoardTypes
<1>3. Pending(r) \subseteq DOMAIN jobs /\ Pending(r) \subseteq Nat
  BY <1>2 DEF Pending
<1>4. PICK at : at = Min(Pending(r))
  OBVIOUS
<1>5. PICK here : here = [jobs[at].entries EXCEPT ![r] = count[r]]
  OBVIOUS
<1>6. count \in [Rank -> Int] /\ pc \in [Rank -> Place]
  BY DEF SlotInv, TypeOK, Place
<1>7. \A i \in DOMAIN jobs : Home[jobs[i].req] \in Rank /\ jobs[i].req \in Request
  BY <1>2, K3Assumption DEF Job
<1>8. OwnJob /\ OneJob /\ Computing
  BY DEF SlotInv, Board
<1>9. Posts' /\ HubTypes'
  BY <1>0 DEF SlotInv, Posts, HubTypes, Hers, batch
<1>10. CASE Pending(r) = {}
  <2>1. pc' = [pc EXCEPT ![r] = "admit"] /\ UNCHANGED <<jobs, job, entered>>
    BY <1>10 DEF GangPass, Goto
  <2>2. TypeOK' /\ Deployed'
    BY <1>0, <1>6, <2>1 DEF SlotInv, TypeOK, Deployed, Over, batch, Place
  <2>3. pc'[r] = "admit" /\ \A p \in Rank : p # r => pc'[p] = pc[p]
    BY <2>1, <1>6
  <2>4. Works'
    BY <1>0, <2>3 DEF SlotInv, Works, Hers, batch
  <2>5. \A i \in DOMAIN jobs : Owed(i) => Home[jobs[i].req] # r
    BY <1>8, <1>10 DEF Pending, OwnJob, Owed
  <2>6. OwnJob' /\ OneJob' /\ Computing'
    BY <1>0, <1>7, <1>8, <2>1, <2>3, <2>5 DEF OwnJob, OneJob, Computing, Owed, batch
  <2>7. BoardTypes'
    BY <1>0, <1>2, <2>1 DEF BoardTypes
  <2> QED
    BY <1>1, <1>9, <2>2, <2>4, <2>6, <2>7 DEF SlotInv, Board
<1>11. CASE Pending(r) # {}
  <2>1. at \in DOMAIN jobs /\ at \in Nat /\ r \notin jobs[at].done
    <3>1. at \in Pending(r)
      BY <1>3, <1>4, <1>11, MinFacts
    <3> QED
      BY <3>1, <1>3 DEF Pending
  <2>2. \/ /\ jobs' = [jobs EXCEPT ![at].entries = here] /\ pc' = [pc EXCEPT ![r] = "cp"]
           /\ job' = [job EXCEPT ![r] = [seq |-> at, req |-> jobs[at].req]]
        \/ /\ jobs' = [jobs EXCEPT ![at].entries = [here EXCEPT ![r] = count[r] + 1]]
           /\ pc' = [pc EXCEPT ![r] = "pump"] /\ UNCHANGED job
    BY <1>4, <1>5, <1>11 DEF GangPass, Goto
  <2>3. jobs[at] \in Job
    BY <1>2, <2>1
  <2>4. here \in [Rank -> Int] /\ [here EXCEPT ![r] = count[r] + 1] \in [Rank -> Int]
    BY <1>5, <1>6, <2>3 DEF Job
  <2>5. PICK ent \in [Rank -> Int] : jobs' = [jobs EXCEPT ![at].entries = ent]
    BY <2>2, <2>4
  <2>6. /\ DOMAIN jobs' = DOMAIN jobs /\ jobs' \in [DOMAIN jobs -> Job]
        /\ \A i \in DOMAIN jobs : jobs'[i].req = jobs[i].req /\ jobs'[i].done = jobs[i].done
    BY <1>2, <2>3, <2>5 DEF Job
  <2>7. pc'[r] \in {"cp", "pump"} /\ pc' \in [Rank -> Place] /\ \A p \in Rank : p # r => pc'[p] = pc[p]
    BY <1>6, <2>2 DEF Place
  <2>8. /\ job' \in [Rank -> [seq : Int, req : Request \cup {NoReq}]]
        /\ \A p \in Rank : p # r => job'[p] = job[p]
        /\ pc'[r] = "cp" => job'[r].seq = at /\ job'[r].req = jobs[at].req
    <3>1. [seq |-> at, req |-> jobs[at].req] \in [seq : Int, req : Request \cup {NoReq}]
      BY <2>1, <1>7
    <3>2. CASE pc' = [pc EXCEPT ![r] = "cp"] /\ job' = [job EXCEPT ![r] = [seq |-> at, req |-> jobs[at].req]]
      BY <1>2, <3>1, <3>2
    <3>3. CASE pc' = [pc EXCEPT ![r] = "pump"] /\ UNCHANGED job
      BY <1>2, <1>6, <3>3
    <3> QED
      BY <2>2, <3>2, <3>3
  <2>9. TypeOK' /\ Deployed'
    BY <1>0, <2>7 DEF SlotInv, TypeOK, Deployed, Over, batch, Place
  <2>10. Works'
    BY <1>0, <2>7 DEF SlotInv, Works, Hers, batch
  <2>11. \A i \in DOMAIN jobs : Owed(i)' <=> Owed(i)
    BY <2>6 DEF Owed
  <2>12. \A p \in Rank : pc[p] \in AtBoard \cup {"dead"} => pc'[p] \in AtBoard \cup {"dead"}
    BY <2>7 DEF AtBoard
  <2>13. OwnJob'
    BY <1>0, <1>7, <1>8, <2>6, <2>11, <2>12 DEF OwnJob, batch
  <2>14. OneJob'
    BY <1>8, <2>6, <2>11 DEF OneJob
  <2>15. Computing'
    BY <1>8, <2>1, <2>6, <2>7, <2>8 DEF Computing
  <2>16. BoardTypes'
    BY <1>0, <1>2, <2>6, <2>8 DEF BoardTypes
  <2> QED
    BY <1>1, <1>9, <2>9, <2>10, <2>13, <2>14, <2>15, <2>16 DEF SlotInv, Board
<1> QED
  BY <1>10, <1>11

-----------------------------------------------------------------------------
(* The hub keeps its types.                                                *)

\* The launch of a commit is ahead of every reply and of the last superstep.
LEMMA CommitFacts ==
    ASSUME NEW s \in Sequencer, s.floor >= -1
    PROVE  /\ CommitLaunch(s) \in Nat /\ CommitLaunch(s) > s.floor
           /\ \A e \in s.replies : CommitLaunch(s) >= e.count + Slack
<1>1. PICK S : S = {e.count + Slack : e \in s.replies} \cup {s.floor + 1}
  OBVIOUS
<1>2. /\ s.floor \in Int /\ Slack \in Nat /\ MaxLaunch \in Nat
      /\ \A e \in s.replies : e.count \in Nat /\ e.count <= MaxLaunch
  <2>1. s.floor \in Int /\ s.replies \in SUBSET [rank : Rank, count : 0..MaxLaunch]
    BY SequencerFields
  <2> QED
    BY <2>1, K3Assumption
<1>3. PICK n \in Int : n >= MaxLaunch + Slack /\ n >= s.floor + 1
  <2>1. MaxLaunch + Slack + s.floor + 1 \in Int
    BY <1>2
  <2>2. MaxLaunch + Slack + s.floor + 1 >= MaxLaunch + Slack /\ MaxLaunch + Slack + s.floor + 1 >= s.floor + 1
    BY <1>2
  <2> QED
    BY <2>1, <2>2
<1>4. \A x \in S : x \in Nat /\ x <= n
  BY <1>1, <1>2, <1>3
<1>5. S \subseteq Int /\ S # {}
  BY <1>1, <1>4
<1>6. Max(S) \in S /\ \A x \in S : x <= Max(S)
  BY <1>4, <1>5, MaxFacts
<1>7. CommitLaunch(s) = Max(S)
  BY <1>1 DEF CommitLaunch
<1>8. s.floor + 1 \in S /\ \A e \in s.replies : e.count + Slack \in S
  BY <1>1
<1> QED
  BY <1>2, <1>4, <1>6, <1>7, <1>8

\* Delivery appends letters to the links.
LEMMA DeliverTypes ==
    ASSUME NEW links \in [Rank -> Seq(Letter)], NEW out \in Seq(Outbound), Now \in Nat
    PROVE  Deliver(links, out) \in [Rank -> Seq(Letter)]
<1>1. \A r \in Rank : Mail(r, out) \in Seq(Letter)
  BY MailFacts DEF Copies
<1>2. \A r \in Rank : links[r] \o Mail(r, out) \in Seq(Letter)
  BY <1>1, ConcatProperties
<1> QED
  BY <1>2 DEF Deliver

\* A sequencer whose gathering ended, in a commit or without one.
Idle(s, f) == [next |-> s.next, floor |-> f, gathering |-> None, replies |-> {}, queue |-> s.queue]

LEMMA Ended ==
    ASSUME NEW s \in Sequencer, NEW f
    PROVE  /\ [s EXCEPT !.gathering = None, !.replies = {}, !.floor = f] = Idle(s, f)
           /\ [s EXCEPT !.gathering = None, !.replies = {}] = Idle(s, s.floor)
<1>1. PICK t : t = [s EXCEPT !.gathering = None, !.replies = {}, !.floor = f]
  OBVIOUS
<1>2. PICK u : u = [s EXCEPT !.gathering = None, !.replies = {}]
  OBVIOUS
<1>3. t = Idle(s, f)
  BY <1>1 DEF Sequencer, Idle
<1>4. u = Idle(s, s.floor)
  BY <1>2 DEF Sequencer, Idle
<1> QED
  BY <1>1, <1>2, <1>3, <1>4

\* It is a sequencer that gathers nothing.
LEMMA IdleFacts ==
    ASSUME NEW s \in Sequencer, NEW f \in Int
    PROVE  /\ Idle(s, f) \in Sequencer /\ Idle(s, f).gathering = None /\ Idle(s, f).replies = {}
           /\ Idle(s, f).floor = f /\ Idle(s, f).next = s.next /\ Idle(s, f).queue = s.queue
<1>1. PICK A : A = Whale \cup {None}
  OBVIOUS
<1>2. PICK B : B = SUBSET [rank : Rank, count : 0..MaxLaunch]
  OBVIOUS
<1>3. PICK Q : Q = Seq(Request)
  OBVIOUS
<1>4. Sequencer = [next : Nat, floor : Int, gathering : A, replies : B, queue : Q]
  BY <1>1, <1>2, <1>3 DEF Sequencer
<1>5. s.next \in Nat /\ s.queue \in Q
  BY <1>3, SequencerFields
<1>6. None \in A /\ {} \in B
  BY <1>1, <1>2
<1> QED
  BY <1>4, <1>5, <1>6 DEF Idle

\* The gang's message in front of what start_next_gather sends.
LEMMA FrontTypes ==
    ASSUME NEW r \in Rank, NEW m \in DownBody, NEW out \in Seq(Outbound)
    PROVE  <<[to |-> Gang(r), m |-> m]>> \o out \in Seq(Outbound)
<1>1. [to |-> Gang(r), m |-> m] \in Outbound
  BY GangFacts DEF Outbound
<1>2. <<[to |-> Gang(r), m |-> m]>> \in Seq(Outbound)
  BY <1>1
<1> QED
  BY <1>2, ConcatProperties

\* A whale in the sequencer's hands belongs to a rank.
LEMMA GatheringHome ==
    ASSUME HubTypes, seqr.gathering # None
    PROVE  /\ seqr.gathering \in Whale /\ seqr.gathering.seq \in Nat
           /\ seqr.gathering.req \in Request /\ Home[seqr.gathering.req] \in Rank
<1>1. seqr.gathering \in Whale
  BY SequencerFields DEF HubTypes
<1> QED
  BY <1>1, K3Assumption DEF Whale

\* One message to the sequencer.
LEMMA SequencerHub ==
    ASSUME SlotInv, NEW r \in Rank, SequencerStep(r)
    PROVE  HubTypes'
<1>1. HubTypes /\ Now \in Nat
  BY NowFacts DEF SlotInv, TypeOK
<1>2. /\ up[r] # <<>> /\ up' = [up EXCEPT ![r] = Tail(@)] /\ UNCHANGED <<armed, committed>>
  BY DEF SequencerStep, member
<1>3. up[r] \in Seq(Report) /\ up' \in [Rank -> Seq(Report)] /\ Head(up[r]) \in Report
  BY <1>1, <1>2, HeadTailProperties DEF HubTypes
<1>4. PICK m \in UpBody : m = Head(up[r]).m
  BY <1>3 DEF Report
<1>5. seqr \in Sequencer /\ down \in [Rank -> Seq(Letter)] /\ seqr.floor >= -1
  BY <1>1 DEF HubTypes
<1>6. CASE m.type = "Request"
  <2>1. m.req \in Request
    BY <1>6 DEF UpBody
  <2>2. PICK s : s = [seqr EXCEPT !.queue = Append(@, m.req)]
    OBVIOUS
  <2>3. s = [next |-> seqr.next, floor |-> seqr.floor, gathering |-> seqr.gathering,
             replies |-> seqr.replies, queue |-> Append(seqr.queue, m.req)]
    BY <2>2, <1>5 DEF Sequencer
  <2>4. s \in Sequencer
    BY <2>1, <2>3, <1>5, SequencerFields, AppendProperties
  <2>5. PICK g : g = StartNextGather(s)
    OBVIOUS
  <2>6. PICK n \in 0..Len(s.queue) : Pops(s, g, n)
    BY <2>4, <2>5, GatherFacts
  <2>7. seqr' = g.s /\ down' = Deliver(down, g.out)
    BY <1>4, <1>6, <2>2, <2>5 DEF SequencerStep, Ask
  <2>8. g.s \in Sequencer /\ g.s.floor = seqr.floor /\ g.out \in Seq(Outbound)
    BY <2>3, <2>6 DEF Pops
  <2>9. down' \in [Rank -> Seq(Letter)]
    BY <1>1, <1>5, <2>7, <2>8, DeliverTypes
  <2> QED
    BY <1>1, <1>2, <1>3, <1>5, <2>7, <2>8, <2>9 DEF HubTypes
<1>7. CASE m.type # "Request"
  <2>1. m.seq \in Nat /\ m.count \in 0..MaxLaunch /\ Reply(r, m)
    BY <1>4, <1>7 DEF SequencerStep, UpBody
  <2>2. CASE UNCHANGED <<seqr, down>>
    BY <1>1, <1>2, <1>3, <2>2 DEF HubTypes
  <2>3. CASE ~ UNCHANGED <<seqr, down>>
    <3>1. seqr.gathering # None
      BY <2>1, <2>3 DEF Reply
    <3>2. PICK s : s = [seqr EXCEPT !.replies = @ \cup {[rank |-> r, count |-> m.count]}]
      OBVIOUS
    <3>3. s = [next |-> seqr.next, floor |-> seqr.floor, gathering |-> seqr.gathering,
               replies |-> seqr.replies \cup {[rank |-> r, count |-> m.count]}, queue |-> seqr.queue]
      BY <3>2, <1>5 DEF Sequencer
    <3>4. s \in Sequencer /\ s.floor = seqr.floor
      <4>1. [rank |-> r, count |-> m.count] \in [rank : Rank, count : 0..MaxLaunch]
        BY <2>1
      <4>2. seqr.replies \cup {[rank |-> r, count |-> m.count]} \in SUBSET [rank : Rank, count : 0..MaxLaunch]
        BY <4>1, <1>5, SequencerFields
      <4> QED
        BY <3>3, <4>2, <1>5, SequencerFields
    <3>5. PICK launch : launch = CommitLaunch(s)
      OBVIOUS
    <3>6. launch \in Nat
      BY <3>4, <3>5, <1>5, CommitFacts
    <3>7. PICK t : t = [s EXCEPT !.gathering = None, !.replies = {}, !.floor = launch]
      OBVIOUS
    <3>8. t \in Sequencer /\ t.floor = launch
      <4>1. launch \in Int
        BY <3>6
      <4>2. t = Idle(s, launch)
        BY <3>4, <3>7, Ended
      <4> QED
        BY <3>4, <4>1, <4>2, IdleFacts
    <3>9. PICK g : g = StartNextGather(t)
      OBVIOUS
    <3>10. PICK n \in 0..Len(t.queue) : Pops(t, g, n)
      BY <3>8, <3>9, GatherFacts
    <3>11. g.s \in Sequencer /\ g.s.floor = launch /\ g.out \in Seq(Outbound)
      BY <3>8, <3>10 DEF Pops
    <3>12. PICK b : b = [type |-> "Commit", seq |-> seqr.gathering.seq, launch |-> launch]
      OBVIOUS
    <3>13. b \in DownBody
      BY <3>1, <3>6, <3>12, <1>1, GatheringHome DEF DownBody
    <3>14. \/ seqr' = s /\ UNCHANGED down
           \/ /\ seqr' = g.s
              /\ down' = Deliver(down, <<[to |-> Gang(Home[seqr.gathering.req]), m |-> b]>> \o g.out)
      BY <2>1, <2>3, <3>1, <3>2, <3>5, <3>7, <3>9, <3>12 DEF Reply
    <3>15. CASE seqr' = s /\ UNCHANGED down
      BY <3>4, <3>15, <1>1, <1>2, <1>3, <1>5 DEF HubTypes
    <3>16. CASE /\ seqr' = g.s
                /\ down' = Deliver(down, <<[to |-> Gang(Home[seqr.gathering.req]), m |-> b]>> \o g.out)
      <4>1. <<[to |-> Gang(Home[seqr.gathering.req]), m |-> b]>> \o g.out \in Seq(Outbound)
        BY <3>1, <3>11, <3>13, <1>1, GatheringHome, FrontTypes
      <4>2. down' \in [Rank -> Seq(Letter)]
        BY <1>1, <1>5, <3>16, <4>1, DeliverTypes
      <4>3. seqr'.floor >= -1
        BY <3>6, <3>11, <3>16
      <4> QED
        BY <1>1, <1>2, <1>3, <3>11, <3>16, <4>2, <4>3 DEF HubTypes
    <3> QED
      BY <3>14, <3>15, <3>16
  <2> QED
    BY <2>2, <2>3
<1> QED
  BY <1>6, <1>7

\* A gather that timed out.
LEMMA TimeoutHub ==
    ASSUME SlotInv, GatherTimeout
    PROVE  HubTypes'
<1>1. HubTypes /\ Now \in Nat
  BY NowFacts DEF SlotInv, TypeOK
<1>2. seqr.gathering # None /\ UNCHANGED <<up, armed, committed>>
  BY DEF GatherTimeout, member
<1>3. seqr \in Sequencer /\ down \in [Rank -> Seq(Letter)] /\ seqr.floor >= -1 /\ seqr.floor \in Int
  BY <1>1, SequencerFields DEF HubTypes
<1>4. PICK t : t = [seqr EXCEPT !.gathering = None, !.replies = {}]
  OBVIOUS
<1>5. t \in Sequencer /\ t.floor = seqr.floor
  <2>1. t = Idle(seqr, seqr.floor)
    BY <1>3, <1>4, Ended
  <2> QED
    BY <1>3, <2>1, IdleFacts
<1>6. PICK g : g = StartNextGather(t)
  OBVIOUS
<1>7. PICK n \in 0..Len(t.queue) : Pops(t, g, n)
  BY <1>5, <1>6, GatherFacts
<1>8. g.s \in Sequencer /\ g.s.floor = seqr.floor /\ g.out \in Seq(Outbound)
  BY <1>5, <1>7 DEF Pops
<1>9. PICK b : b = [type |-> "Cancel", seq |-> seqr.gathering.seq]
  OBVIOUS
<1>10. b \in DownBody
  BY <1>1, <1>2, <1>9, GatheringHome DEF DownBody
<1>11. /\ seqr' = g.s
       /\ down' = Deliver(down, <<[to |-> Gang(Home[seqr.gathering.req]), m |-> b]>> \o g.out)
  BY <1>4, <1>6, <1>9 DEF GatherTimeout
<1>12. <<[to |-> Gang(Home[seqr.gathering.req]), m |-> b]>> \o g.out \in Seq(Outbound)
  BY <1>1, <1>2, <1>8, <1>10, GatheringHome, FrontTypes
<1>13. down' \in [Rank -> Seq(Letter)]
  BY <1>1, <1>3, <1>11, <1>12, DeliverTypes
<1> QED
  BY <1>1, <1>2, <1>3, <1>8, <1>11, <1>13 DEF HubTypes

\* A thread that moves on or dies leaves the requests alone.
LEMMA ThreadMoved ==
    ASSUME SlotInv, UNCHANGED <<batch, aborted, work, left, posted, fallback, jobs, nextId, horizon, job>>,
           UNCHANGED <<lane, kind, count>>, pc' \in [Rank -> Place], fatal' \subseteq Rank,
           \A p \in Rank : pc'[p] = pc[p] \/ pc'[p] = "dead"
    PROVE  TypeOK' /\ Deployed' /\ Slots' /\ Ledger' /\ Queues' /\ Posts' /\ Works' /\ Board'
<1>1. Slots' /\ Ledger' /\ Queues'
  BY BatchKept
<1>2. TypeOK' /\ Deployed'
  BY DEF SlotInv, TypeOK, Deployed, Over, batch, Place
<1>3. Posts' /\ Works'
  BY DEF SlotInv, Posts, Works, Hers, batch
<1>4. \A i \in DOMAIN jobs : Home[jobs[i].req] \in Rank
  BY K3Assumption DEF SlotInv, Board, BoardTypes, Job
<1>5. OwnJob' /\ OneJob' /\ Computing' /\ BoardTypes'
  BY <1>4 DEF SlotInv, Board, BoardTypes, OwnJob, OneJob, Computing, Owed, batch, AtBoard
<1> QED
  BY <1>1, <1>2, <1>3, <1>5 DEF Board

\* The sequencer's steps.
LEMMA SequencerSlots ==
    ASSUME SlotInv, NEW r \in Rank, SequencerStep(r)
    PROVE  SlotInv'
<1>1. HubTypes'
  BY SequencerHub
<1>2. /\ UNCHANGED <<batch, aborted, work, left, posted, fallback, jobs, nextId, horizon, job>>
      /\ UNCHANGED <<lane, kind, count>>
  BY DEF SequencerStep, const, post, board
<1>3. UNCHANGED <<fatal, pc>> \/ Fail(r)
  BY DEF SequencerStep, Ask, Reply
<1>4. pc \in [Rank -> Place] /\ fatal \subseteq Rank
  BY DEF SlotInv, TypeOK, Place
<1>5. /\ pc' \in [Rank -> Place] /\ fatal' \subseteq Rank
      /\ \A p \in Rank : pc'[p] = pc[p] \/ pc'[p] = "dead"
  BY <1>3, <1>4 DEF Fail, Goto, Place
<1> QED
  BY <1>1, <1>2, <1>5, ThreadMoved DEF SlotInv

\* A gather that times out.
LEMMA TimeoutSlots ==
    ASSUME SlotInv, GatherTimeout
    PROVE  SlotInv'
<1>1. HubTypes'
  BY TimeoutHub
<1>2. /\ UNCHANGED <<batch, aborted, work, left, posted, fallback, jobs, nextId, horizon, job>>
      /\ UNCHANGED <<lane, kind, count>> /\ UNCHANGED <<fatal, pc>>
  BY DEF GatherTimeout, const, post, board
<1>3. pc \in [Rank -> Place] /\ fatal \subseteq Rank
  BY DEF SlotInv, TypeOK, Place
<1> QED
  BY <1>1, <1>2, <1>3, ThreadMoved DEF SlotInv

\* What a member's mailbox holds.
LEMMA FirstLetter ==
    ASSUME HubTypes, NEW r \in Rank, down[r] # <<>>
    PROVE  /\ down[r] \in Seq(Letter) /\ Head(down[r]) \in Letter /\ Head(down[r]).m \in DownBody
           /\ Tail(down[r]) \in Seq(Letter) /\ Head(down[r]) = down[r][1] /\ Len(down[r]) \in Nat \ {0}
           /\ Len(Tail(down[r])) = Len(down[r]) - 1
           /\ \A i \in 1..(Len(down[r]) - 1) : Tail(down[r])[i] = down[r][i + 1]
<1>1. down[r] \in Seq(Letter)
  BY DEF HubTypes
<1>2. Head(down[r]) \in Letter /\ Tail(down[r]) \in Seq(Letter) /\ Len(down[r]) \in Nat \ {0}
  BY <1>1, HeadTailProperties, LenProperties, EmptySeq
<1>3. Head(down[r]) = down[r][1]
  BY <1>1
<1> QED
  BY <1>1, <1>2, <1>3, HeadTailProperties DEF Letter

\* A gather is answered.
LEMMA TakeGatherSlots ==
    ASSUME SlotInv, NEW r \in Rank, ServeMessage(r), Head(down[r]).m.type = "Gather"
    PROVE  SlotInv'
<1>1. PICK m \in DownBody : m = Head(down[r]).m
  BY FirstLetter DEF SlotInv, ServeMessage
<1>2. m.type = "Gather" /\ m.seq \in Nat /\ m.req \in Request
  BY <1>1 DEF DownBody
<1>3. TakeGather(r, m) /\ down' = [down EXCEPT ![r] = Tail(@)] /\ down[r] # <<>>
  BY <1>1, <1>2 DEF ServeMessage
<1>4. /\ UNCHANGED <<lane, kind, count, toks, queued, free, aborted, work, left, seqr>>
      /\ UNCHANGED <<jobs, nextId, horizon, job, pc, fatal, committed, fallback, state>>
  BY <1>3 DEF ServeMessage, TakeGather, const, board
<1>5. Now \in Nat /\ count[r] \in 0..MaxLaunch
  BY NowFacts DEF SlotInv, TypeOK
<1>6. PICK n : n = Stamp([type |-> "Ready", seq |-> m.seq, count |-> count[r]])
  OBVIOUS
<1>7. n \in Report
  BY <1>2, <1>5, <1>6, K3Assumption DEF Stamp, Report, UpBody
<1>8. up' = [up EXCEPT ![r] = Append(@, n)]
  BY <1>3, <1>6 DEF TakeGather
<1>9. PICK d \in Whale : d = [seq |-> m.seq, req |-> m.req]
  BY <1>2 DEF Whale
<1>10. armed' = [armed EXCEPT ![r] = @ \cup {d}]
  BY <1>3, <1>9 DEF TakeGather
<1>11. HubTypes'
  <2>1. HubTypes
    BY DEF SlotInv
  <2>2. up' \in [Rank -> Seq(Report)]
    BY <1>7, <1>8, <2>1, AppendProperties DEF HubTypes
  <2>3. down' \in [Rank -> Seq(Letter)]
    BY <1>3, <2>1, FirstLetter DEF HubTypes
  <2>4. armed' \in [Rank -> SUBSET Whale]
    BY <1>9, <1>10, <2>1 DEF HubTypes
  <2> QED
    BY <1>4, <2>1, <2>2, <2>3, <2>4 DEF HubTypes
<1>12. Slots' /\ Ledger' /\ Queues'
  BY <1>4, BatchKept DEF batch
<1>13. TypeOK' /\ Deployed'
  BY <1>4 DEF SlotInv, TypeOK, Deployed
<1>14. /\ posted' \in [Rank -> [req : Request \cup {NoReq}, seq : Int]]
       /\ \A p \in Rank : /\ posted'[p].req = posted[p].req
                          /\ posted[p] = NoPost => posted'[p] = NoPost
  <2>1. posted \in [Rank -> [req : Request \cup {NoReq}, seq : Int]]
    BY DEF SlotInv, Posts
  <2>2. posted' = [posted EXCEPT ![r] = IF posted[r].req = m.req /\ Home[m.req] = r
                                        THEN [posted[r] EXCEPT !.seq = m.seq] ELSE posted[r]]
    BY <1>3 DEF TakeGather
  <2>3. PICK x : x = IF posted[r].req = m.req /\ Home[m.req] = r
                     THEN [posted[r] EXCEPT !.seq = m.seq] ELSE posted[r]
    OBVIOUS
  <2>4. x \in [req : Request \cup {NoReq}, seq : Int] /\ x.req = posted[r].req
    BY <1>2, <2>1, <2>3
  <2>5. posted[r] = NoPost => x = NoPost
    BY <1>2, <2>3, K3Assumption DEF NoPost
  <2> QED
    BY <2>1, <2>2, <2>3, <2>4, <2>5
<1>15. Posts'
  BY <1>4, <1>14 DEF SlotInv, Posts, Hers
<1>16. Works'
  BY <1>4, <1>14 DEF SlotInv, Works, Hers
<1>17. Board'
  BY <1>4 DEF SlotInv, Board, BoardTypes, OwnJob, OneJob, Computing, Owed
<1> QED
  BY <1>11, <1>12, <1>13, <1>15, <1>16, <1>17 DEF SlotInv

\* A commit joins the committed whales, or is engine-fatal.
LEMMA TakeCommitSlots ==
    ASSUME SlotInv, NEW r \in Rank, ServeMessage(r), Head(down[r]).m.type = "Commit"
    PROVE  SlotInv'
<1>1. PICK m \in DownBody : m = Head(down[r]).m
  BY FirstLetter DEF SlotInv, ServeMessage
<1>2. m.type = "Commit" /\ m.seq \in Nat /\ m.launch \in Nat
  BY <1>1 DEF DownBody
<1>3. TakeCommit(r, m) /\ down' = [down EXCEPT ![r] = Tail(@)] /\ down[r] # <<>>
  BY <1>1, <1>2 DEF ServeMessage
<1>4. /\ UNCHANGED <<batch, aborted, work, left, posted, fallback, jobs, nextId, horizon, job>>
      /\ UNCHANGED <<lane, kind, count>> /\ UNCHANGED <<seqr, up>>
  BY <1>3 DEF ServeMessage, TakeCommit, const, board, batch
<1>5. UNCHANGED <<fatal, pc>> \/ Fail(r)
  BY <1>3 DEF TakeCommit
<1>6. pc \in [Rank -> Place] /\ fatal \subseteq Rank
  BY DEF SlotInv, TypeOK, Place
<1>7. /\ pc' \in [Rank -> Place] /\ fatal' \subseteq Rank
      /\ \A p \in Rank : pc'[p] = pc[p] \/ pc'[p] = "dead"
  BY <1>5, <1>6 DEF Fail, Goto, Place
<1>8. HubTypes'
  <2>1. HubTypes
    BY DEF SlotInv
  <2>2. down' \in [Rank -> Seq(Letter)]
    BY <1>3, <2>1, FirstLetter DEF HubTypes
  <2>3. \/ UNCHANGED <<armed, committed>>
        \/ \E d \in armed[r] : /\ armed' = [armed EXCEPT ![r] = @ \ {d}]
                               /\ committed' = [committed EXCEPT ![r] = Append(@,
                                      [seq |-> m.seq, req |-> d.req, launch |-> m.launch])]
    BY <1>3 DEF TakeCommit, member
  <2>4. CASE UNCHANGED <<armed, committed>>
    BY <1>4, <2>1, <2>2, <2>4 DEF HubTypes
  <2>5. ASSUME NEW d \in armed[r], armed' = [armed EXCEPT ![r] = @ \ {d}],
               committed' = [committed EXCEPT ![r] = Append(@,
                                      [seq |-> m.seq, req |-> d.req, launch |-> m.launch])]
        PROVE  HubTypes'
    <3>1. d \in Whale /\ armed' \in [Rank -> SUBSET Whale]
      BY <2>1, <2>5 DEF HubTypes
    <3>2. PICK c \in Agreed : c = [seq |-> m.seq, req |-> d.req, launch |-> m.launch]
      BY <1>2, <3>1 DEF Whale, Agreed
    <3>3. committed' \in [Rank -> Seq(Agreed)]
      BY <2>1, <2>5, <3>2, AppendProperties DEF HubTypes
    <3> QED
      BY <1>4, <2>1, <2>2, <3>1, <3>3 DEF HubTypes
  <2> QED
    BY <2>3, <2>4, <2>5
<1> QED
  BY <1>4, <1>7, <1>8, ThreadMoved DEF SlotInv

\* A cancel of the own post makes it a fallback; it keeps its slot.
LEMMA TakeCancelSlots ==
    ASSUME SlotInv, NEW r \in Rank, ServeMessage(r), Head(down[r]).m.type = "Cancel"
    PROVE  SlotInv'
<1>1. PICK m \in DownBody : m = Head(down[r]).m
  BY FirstLetter DEF SlotInv, ServeMessage
<1>2. TakeCancel(r, m) /\ down' = [down EXCEPT ![r] = Tail(@)] /\ down[r] # <<>> /\ pc[r] = "top"
  BY <1>1 DEF ServeMessage
<1>3. /\ UNCHANGED <<toks, queued, free, aborted, work, left, jobs, nextId, horizon, job>>
      /\ UNCHANGED <<lane, kind, count>> /\ UNCHANGED <<seqr, up, committed, pc, fatal>>
  BY <1>2 DEF ServeMessage, TakeCancel, const, board
<1>4. armed' = [armed EXCEPT ![r] = {d \in @ : d.seq # m.seq}]
  BY <1>2 DEF TakeCancel
<1>5. HubTypes'
  <2>1. HubTypes
    BY DEF SlotInv
  <2>2. down' \in [Rank -> Seq(Letter)]
    BY <1>2, <2>1, FirstLetter DEF HubTypes
  <2>3. armed' \in [Rank -> SUBSET Whale]
    BY <1>4, <2>1 DEF HubTypes
  <2> QED
    BY <1>3, <2>1, <2>2, <2>3 DEF HubTypes
<1>6. CASE UNCHANGED <<posted, fallback, state>>
  <2>1. UNCHANGED batch
    BY <1>3, <1>6 DEF batch
  <2>2. pc \in [Rank -> Place] /\ fatal \subseteq Rank
    BY DEF SlotInv, TypeOK, Place
  <2> QED
    BY <1>3, <1>5, <1>6, <2>1, <2>2, ThreadMoved DEF SlotInv
<1>7. CASE ~ UNCHANGED <<posted, fallback, state>>
  <2>1. PICK q : q = posted[r].req
    OBVIOUS
  <2>2. /\ posted[r] # NoPost /\ fallback' = [fallback EXCEPT ![r] = posted[r]]
        /\ posted' = [posted EXCEPT ![r] = NoPost] /\ state' = [state EXCEPT ![q] = "fallback"]
    BY <1>2, <1>7, <2>1 DEF TakeCancel, Refused
  <2>3. Hers(r, q, "posted")
    BY <2>1, <2>2 DEF SlotInv, Posts
  <2>4. /\ state \in [Request -> {"new", "queued", "posted", "fallback", "prefill", "running"} \cup Over]
        /\ posted \in [Rank -> [req : Request \cup {NoReq}, seq : Int]]
        /\ fallback \in [Rank -> [req : Request \cup {NoReq}, seq : Int]]
    BY DEF SlotInv, TypeOK, Posts
  <2>5. state'[q] = "fallback" /\ \A x \in Request : x # q => state'[x] = state[x]
    BY <2>2, <2>3, <2>4 DEF Hers
  <2>6. TypeOK' /\ Deployed'
    BY <1>3, <2>2, <2>4 DEF SlotInv, TypeOK, Deployed
  <2>7. Slots'
    <3>1. \A x \in Request : state'[x] \in Holding <=> state[x] \in Holding
      BY <2>3, <2>5 DEF Hers, Holding
    <3> QED
      BY <1>3, <3>1, SlotsKept DEF SlotInv
  <2>8. Ledger'
    BY <1>3, <2>3, <2>5 DEF SlotInv, Ledger, Hers
  <2>9. Queues'
    <3>1. \A x \in Request : state[x] = "queued" => state'[x] = "queued"
      BY <2>3, <2>5 DEF Hers
    <3> QED
      BY <1>3, <3>1, QueuesKept DEF SlotInv
  <2>10. NoPost \in [req : Request \cup {NoReq}, seq : Int]
    BY DEF NoPost
  <2>11. /\ posted' \in [Rank -> [req : Request \cup {NoReq}, seq : Int]]
         /\ fallback' \in [Rank -> [req : Request \cup {NoReq}, seq : Int]]
         /\ posted'[r] = NoPost /\ fallback'[r] = posted[r]
         /\ \A p \in Rank : p # r => posted'[p] = posted[p] /\ fallback'[p] = fallback[p]
    BY <2>2, <2>4, <2>10
  <2>12. Posts'
    <3>0. \A x \in Request : Home[x] # r => state'[x] = state[x]
      BY <2>3, <2>5 DEF Hers
    <3>1. \A p \in Rank : p # r =>
              /\ posted[p] = NoPost \/ (/\ posted[p].req \in Request /\ Home[posted[p].req] = p
                                        /\ state'[posted[p].req] = "posted")
              /\ fallback[p] = NoPost \/ (/\ fallback[p].req \in Request /\ Home[fallback[p].req] = p
                                          /\ state'[fallback[p].req] = "fallback")
      BY <3>0 DEF SlotInv, Posts, Hers
    <3>2. fallback'[r].req = q /\ q \in Request /\ Home[q] = r /\ state'[q] = "fallback"
      BY <2>1, <2>3, <2>5, <2>11 DEF Hers
    <3>3. ASSUME NEW p \in Rank
          PROVE  /\ posted'[p] = NoPost \/ Hers(p, posted[p].req, "posted")'
                 /\ fallback'[p] = NoPost \/ Hers(p, fallback[p].req, "fallback")'
      <4>1. CASE p = r
        BY <2>11, <3>2, <4>1 DEF Hers
      <4>2. CASE p # r
        BY <2>11, <3>1, <4>2 DEF Hers
      <4> QED
        BY <4>1, <4>2
    <3> QED
      BY <2>11, <3>3 DEF Posts
  <2>13. Works'
    <3>1. ASSUME NEW p \in Rank, p # r, work[p] \in Request, Home[work[p]] = p
          PROVE  state'[work[p]] = state[work[p]] /\ posted'[p] = posted[p]
      BY <2>3, <2>5, <2>11, <3>1 DEF Hers
    <3>2. Works
      BY DEF SlotInv
    <3> QED
      BY <1>2, <1>3, <3>1, <3>2 DEF Works, Hers
  <2>14. OwnJob' /\ OneJob' /\ Computing' /\ BoardTypes'
    <3>1. \A i \in DOMAIN jobs : jobs[i].req \in Request
      BY DEF SlotInv, Board, BoardTypes, Job
    <3> QED
      BY <1>3, <2>3, <2>5, <3>1 DEF SlotInv, Board, BoardTypes, OwnJob, OneJob, Computing, Owed, Hers
  <2> QED
    BY <1>5, <2>6, <2>7, <2>8, <2>9, <2>12, <2>13, <2>14 DEF SlotInv, Board
<1> QED
  BY <1>6, <1>7

\* Reading the mailbox.
LEMMA ServeMessageSlots ==
    ASSUME SlotInv, NEW r \in Rank, ServeMessage(r)
    PROVE  SlotInv'
<1>1. Head(down[r]).m \in DownBody
  BY FirstLetter DEF SlotInv, ServeMessage
<1>2. Head(down[r]).m.type \in {"Gather", "Commit", "Cancel"}
  BY <1>1 DEF DownBody
<1> QED
  BY <1>2, TakeGatherSlots, TakeCommitSlots, TakeCancelSlots

-----------------------------------------------------------------------------
(* Steps of one rank that move its requests.                               *)

States == {"new", "queued", "posted", "fallback", "prefill", "running"} \cup Over

\* Only requests of r change.
Only(r) == \A q \in Request : Home[q] # r => state'[q] = state[q]

\* The posts of the other ranks are as they were.
LEMMA PostsAt ==
    ASSUME Posts, NEW r \in Rank, Only(r),
           posted' \in [Rank -> [req : Request \cup {NoReq}, seq : Int]],
           fallback' \in [Rank -> [req : Request \cup {NoReq}, seq : Int]],
           \A p \in Rank : p # r => posted'[p] = posted[p] /\ fallback'[p] = fallback[p],
           posted'[r] = NoPost \/ (/\ posted'[r].req \in Request /\ Home[posted'[r].req] = r
                                   /\ state'[posted'[r].req] = "posted"),
           fallback'[r] = NoPost \/ (/\ fallback'[r].req \in Request /\ Home[fallback'[r].req] = r
                                     /\ state'[fallback'[r].req] = "fallback")
    PROVE  Posts'
<1>1. ASSUME NEW p \in Rank, p # r
      PROVE  /\ posted'[p] = NoPost \/ (/\ posted'[p].req \in Request /\ Home[posted'[p].req] = p
                                        /\ state'[posted'[p].req] = "posted")
             /\ fallback'[p] = NoPost \/ (/\ fallback'[p].req \in Request /\ Home[fallback'[p].req] = p
                                          /\ state'[fallback'[p].req] = "fallback")
  <2>1. posted'[p] = posted[p] /\ fallback'[p] = fallback[p]
    BY <1>1
  <2> QED
    BY <1>1, <2>1 DEF Posts, Hers, Only
<1> QED
  BY <1>1 DEF Posts, Hers

\* So is their work.
LEMMA WorksAt ==
    ASSUME Works, NEW r \in Rank, Only(r),
           \A p \in Rank : p # r => pc'[p] = pc[p] /\ work'[p] = work[p] /\ posted'[p] = posted[p],
           pc'[r] = "prefill" => /\ work'[r] \in Request /\ Home[work'[r]] = r
                                 /\ state'[work'[r]] = "prefill",
           pc'[r] \in {"whale", "whaleWait"} /\ work'[r] # NoReq =>
               /\ work'[r] \in Request /\ Home[work'[r]] = r /\ state'[work'[r]] = "posted"
               /\ posted'[r] = NoPost
    PROVE  Works'
<1>1. ASSUME NEW p \in Rank, p # r
      PROVE  /\ pc'[p] = "prefill" => /\ work'[p] \in Request /\ Home[work'[p]] = p
                                      /\ state'[work'[p]] = "prefill"
             /\ pc'[p] \in {"whale", "whaleWait"} /\ work'[p] # NoReq =>
                    /\ work'[p] \in Request /\ Home[work'[p]] = p /\ state'[work'[p]] = "posted"
                    /\ posted'[p] = NoPost
  <2>1. pc'[p] = pc[p] /\ work'[p] = work[p] /\ posted'[p] = posted[p]
    BY <1>1
  <2> QED
    BY <1>1, <2>1 DEF Works, Hers, Only
<1> QED
  BY <1>1 DEF Works, Hers

\* A rank that is not at the board has no job to run there.
LEMMA BoardAt ==
    ASSUME Board, NEW r \in Rank, Only(r), pc[r] \notin AtBoard \cup {"dead"},
           pc'[r] \notin {"cp", "cpWait"}, UNCHANGED <<jobs, nextId, horizon>>,
           job' \in [Rank -> [seq : Int, req : Request \cup {NoReq}]],
           \A p \in Rank : p # r => pc'[p] = pc[p] /\ work'[p] = work[p] /\ job'[p] = job[p]
    PROVE  Board'
<1>1. \A i \in DOMAIN jobs : jobs[i].req \in Request /\ Home[jobs[i].req] \in Rank
  BY K3Assumption DEF Board, BoardTypes, Job
<1>2. BoardTypes'
  BY DEF Board, BoardTypes
<1>3. OwnJob'
  <2> SUFFICES ASSUME NEW i \in DOMAIN jobs, Owed(i)
               PROVE  /\ pc'[Home[jobs[i].req]] \in AtBoard \cup {"dead"}
                      /\ work'[Home[jobs[i].req]] = jobs[i].req
                      /\ state'[jobs[i].req] = "prefill" /\ i <= horizon[Home[jobs[i].req]]
    BY DEF OwnJob, Owed
  <2>1. PICK p \in Rank : p = Home[jobs[i].req]
    BY <1>1
  <2>2. /\ pc[p] \in AtBoard \cup {"dead"} /\ work[p] = jobs[i].req
        /\ state[jobs[i].req] = "prefill" /\ i <= horizon[p]
    BY <2>1 DEF Board, OwnJob
  <2>3. p # r
    BY <2>2
  <2>4. pc'[p] = pc[p] /\ work'[p] = work[p] /\ state'[jobs[i].req] = state[jobs[i].req]
    BY <1>1, <2>1, <2>3 DEF Only
  <2> QED
    BY <2>1, <2>2, <2>4
<1>4. OneJob'
  BY DEF Board, OneJob, Owed
<1>5. Computing'
  <2> SUFFICES ASSUME NEW p \in Rank, pc'[p] \in {"cp", "cpWait"}
               PROVE  /\ job'[p].seq \in DOMAIN jobs /\ job'[p].req = jobs[job'[p].seq].req
                      /\ p \notin jobs[job'[p].seq].done
    BY DEF Computing
  <2>1. p # r
    OBVIOUS
  <2>2. pc'[p] = pc[p] /\ job'[p] = job[p]
    BY <2>1
  <2> QED
    BY <2>2 DEF Board, Computing
<1> QED
  BY <1>2, <1>3, <1>4, <1>5 DEF Board

\* What a step that answers the requests of S does to the batch.
Answered(r, S) ==
    /\ Slots' /\ Ledger' /\ free' \in [Rank -> 0..MaxBatch]
    /\ toks' \in [Request -> 0..MaxTokens] /\ state' \in [Request -> States]
    /\ \A q \in Request : q \notin S => state'[q] = state[q]
    /\ \A q \in S : state'[q] \in Over \cup {"running"}

\* The streams of S end; those of G gain a token each.
LEMMA Closing ==
    ASSUME TypeOK, Slots, Ledger, NEW r \in Rank, NEW S, S \subseteq HeldBy(r),
           NEW G, G \subseteq Running(r), \A q \in G \ S : toks[q] + 1 < MaxTokens,
           Close(r, S, G), FinishOrRetire(S) \/ FailAll(S)
    PROVE  Answered(r, S) /\ \A q \in S : state'[q] \in Over
<1>1. state \in [Request -> States] /\ toks \in [Request -> 0..MaxTokens] /\ MaxTokens \in Nat
  BY K3Assumption DEF TypeOK, States
<1>2. S \subseteq Request
  BY DEF HeldBy
<1>3. /\ state' \in [Request -> States] /\ \A q \in Request : q \notin S => state'[q] = state[q]
      /\ \A q \in S : state'[q] \in Over
  BY <1>1, <1>2 DEF FinishOrRetire, FailAll, States, Over
<1>4. \A q \in Request : state'[q] \in Holding <=> state[q] \in Holding /\ q \notin S
  BY <1>2, <1>3 DEF Over, Holding
<1>5. free' = [free EXCEPT ![r] = @ + Cardinality(S)]
  BY DEF Close
<1>6. Slots' /\ free' \in [Rank -> 0..MaxBatch]
  BY <1>4, <1>5, SlotsReturned
<1>7. toks' = [q \in Request |-> IF q \in S THEN 0 ELSE IF q \in G THEN toks[q] + 1 ELSE toks[q]]
  BY DEF Close
<1>8. ASSUME NEW q \in Request
      PROVE  /\ toks'[q] \in 0..MaxTokens
             /\ IF state'[q] = "running" THEN toks'[q] < MaxTokens ELSE toks'[q] = 0
  <2>0. toks[q] \in 0..MaxTokens /\ (IF state[q] = "running" THEN toks[q] < MaxTokens ELSE toks[q] = 0)
    BY <1>1 DEF Ledger
  <2>1. CASE q \in S
    BY <1>1, <1>3, <1>7, <2>1 DEF Over
  <2>2. CASE q \notin S /\ q \in G
    <3>1. toks'[q] = toks[q] + 1 /\ toks[q] + 1 < MaxTokens
      BY <1>7, <2>2
    <3>2. state'[q] = "running"
      BY <1>3, <2>2 DEF Running
    <3> QED
      BY <1>1, <2>0, <3>1, <3>2
  <2>3. CASE q \notin S /\ q \notin G
    BY <1>3, <1>7, <2>0, <2>3
  <2> QED
    BY <2>1, <2>2, <2>3
<1>9. Ledger' /\ toks' \in [Request -> 0..MaxTokens]
  BY <1>7, <1>8 DEF Ledger
<1> QED
  BY <1>3, <1>6, <1>9 DEF Answered

\* The first token ends a stream or lets it run.
LEMMA FirstToken ==
    ASSUME TypeOK, Slots, Ledger, NEW r \in Rank, NEW q \in Request, Home[q] = r,
           state[q] \in Holding \ {"running"}, CommitFirstToken(r, q)
    PROVE  Answered(r, {q})
<1>1. {q} \subseteq HeldBy(r)
  BY DEF HeldBy
<1>2. CASE FinishOrRetire({q}) /\ Close(r, {q}, {})
  BY <1>1, <1>2, Closing
<1>3. CASE MaxTokens > 1 /\ state' = [state EXCEPT ![q] = "running"] /\ Close(r, {}, {q})
  <2>1. state \in [Request -> States] /\ toks \in [Request -> 0..MaxTokens] /\ MaxTokens \in Nat
    BY K3Assumption DEF TypeOK, States
  <2>2. /\ state' \in [Request -> States] /\ \A x \in Request : x # q => state'[x] = state[x]
        /\ state'[q] = "running"
    BY <1>3, <2>1 DEF States
  <2>3. \A x \in Request : state'[x] \in Holding <=> state[x] \in Holding /\ x \notin {}
    BY <2>2 DEF Holding
  <2>4. free' = [free EXCEPT ![r] = @ + Cardinality({})]
    BY <1>3 DEF Close
  <2>5. Slots' /\ free' \in [Rank -> 0..MaxBatch]
    <3>1. PICK S : S = {}
      OBVIOUS
    <3>2. /\ S \subseteq HeldBy(r) /\ free' = [free EXCEPT ![r] = @ + Cardinality(S)]
          /\ \A x \in Request : state'[x] \in Holding <=> state[x] \in Holding /\ x \notin S
      BY <2>3, <2>4, <3>1
    <3> QED
      BY <3>2, SlotsReturned
  <2>6. toks' = [x \in Request |-> IF x \in {} THEN 0 ELSE IF x \in {q} THEN toks[x] + 1 ELSE toks[x]]
    BY <1>3 DEF Close
  <2>7. toks[q] = 0
    BY DEF Ledger
  <2>8. ASSUME NEW x \in Request
        PROVE  /\ toks'[x] \in 0..MaxTokens
               /\ IF state'[x] = "running" THEN toks'[x] < MaxTokens ELSE toks'[x] = 0
    <3>1. CASE x = q
      <4>1. toks'[x] = 1
        BY <2>6, <2>7, <3>1
      <4> QED
        BY <1>3, <2>1, <2>2, <3>1, <4>1
    <3>2. CASE x # q
      <4>1. toks'[x] = toks[x] /\ state'[x] = state[x]
        BY <2>2, <2>6, <3>2
      <4> QED
        BY <2>1, <4>1 DEF Ledger
    <3> QED
      BY <3>1, <3>2
  <2>9. Ledger' /\ toks' \in [Request -> 0..MaxTokens]
    BY <2>6, <2>8 DEF Ledger
  <2> QED
    BY <2>2, <2>5, <2>9 DEF Answered
<1> QED
  BY <1>2, <1>3 DEF CommitFirstToken

\* The head of a queue waits at its rank.
LEMMA HeadFacts ==
    ASSUME Queues, NEW r \in Rank, queued[r] # <<>>
    PROVE  /\ Head(queued[r]) \in Request /\ Home[Head(queued[r])] = r
           /\ state[Head(queued[r])] = "queued"
<1>1. queued[r] \in Seq(Request)
  BY DEF Queues
<1>2. Len(queued[r]) \in Nat /\ Len(queued[r]) > 0 /\ Head(queued[r]) = queued[r][1]
  BY <1>1
<1>3. 1 \in 1..Len(queued[r])
  BY <1>2
<1> QED
  BY <1>2, <1>3 DEF Queues, Hers

\* The head leaves the queue; nobody behind it stops waiting.
LEMMA QueuePopped ==
    ASSUME Queues, NEW r \in Rank, queued[r] # <<>>, Pop(r),
           \A x \in Request : x # Head(queued[r]) /\ state[x] = "queued" => state'[x] = "queued"
    PROVE  Queues'
<1>1. queued \in [Rank -> Seq(Request)]
  BY DEF Queues
<1>2. PICK s \in Seq(Request) : s = queued[r]
  BY <1>1
<1>3. PICK t : t = Tail(s)
  OBVIOUS
<1>4. s # <<>>
  BY <1>2
<1>5. /\ t \in Seq(Request) /\ Len(s) \in Nat /\ Len(t) = Len(s) - 1
      /\ \A i \in 1..Len(t) : i + 1 \in 1..Len(s) /\ t[i] = s[i + 1] /\ i + 1 # 1
  BY <1>3, <1>4, HeadTailProperties
<1>6. Head(s) = s[1] /\ 1 \in 1..Len(s)
  BY <1>4, <1>5, HeadTailProperties
<1>7. queued' = [queued EXCEPT ![r] = t]
  BY <1>2, <1>3 DEF Pop
<1>8. queued'[r] = t /\ \A p \in Rank : p # r => queued'[p] = queued[p]
  BY <1>1, <1>7
<1>9. queued' \in [Rank -> Seq(Request)]
  BY <1>1, <1>5, <1>7
<1>10. \A i, j \in 1..Len(s) : i # j => s[i] # s[j]
  BY <1>2 DEF Queues
<1>11. \A p \in Rank : \A i \in 1..Len(queued[p]) :
           queued[p][i] \in Request /\ Home[queued[p][i]] = p /\ state[queued[p][i]] = "queued"
  BY DEF Queues, Hers
<1>12. \A i \in 1..Len(t) : t[i] \in Request /\ Home[t[i]] = r /\ state'[t[i]] = "queued"
  <2> SUFFICES ASSUME NEW i \in 1..Len(t)
               PROVE  t[i] \in Request /\ Home[t[i]] = r /\ state'[t[i]] = "queued"
    OBVIOUS
  <2>1. PICK k \in 1..Len(s) : k = i + 1 /\ t[i] = s[k] /\ k # 1
    BY <1>5
  <2>2. s[k] # Head(queued[r])
    BY <1>2, <1>6, <1>10, <2>1
  <2> QED
    BY <1>2, <1>11, <2>1, <2>2
<1>13. \A p \in Rank : p # r => \A i \in 1..Len(queued[p]) : state'[queued[p][i]] = "queued"
  <2> SUFFICES ASSUME NEW p \in Rank, p # r, NEW i \in 1..Len(queued[p])
               PROVE  state'[queued[p][i]] = "queued"
    OBVIOUS
  <2>1. Home[Head(queued[r])] = r
    BY HeadFacts
  <2>2. queued[p][i] # Head(queued[r])
    BY <1>11, <2>1
  <2> QED
    BY <1>11, <2>2
<1>14. \A i, j \in 1..Len(t) : i # j => t[i] # t[j]
  <2> SUFFICES ASSUME NEW i \in 1..Len(t), NEW j \in 1..Len(t), i # j PROVE t[i] # t[j]
    OBVIOUS
  <2>1. i + 1 \in 1..Len(s) /\ j + 1 \in 1..Len(s) /\ i + 1 # j + 1
    BY <1>5
  <2> QED
    BY <1>5, <1>10, <2>1
<1>15. ASSUME NEW p \in Rank
       PROVE  /\ \A i \in 1..Len(queued'[p]) :
                     /\ queued'[p][i] \in Request /\ Home[queued'[p][i]] = p
                     /\ state'[queued'[p][i]] = "queued"
              /\ \A i, j \in 1..Len(queued'[p]) : i # j => queued'[p][i] # queued'[p][j]
  <2>1. CASE p = r
    BY <1>8, <1>12, <1>14, <2>1
  <2>2. CASE p # r
    <3>1. queued'[p] = queued[p]
      BY <1>8, <2>2
    <3>2. \A i, j \in 1..Len(queued[p]) : i # j => queued[p][i] # queued[p][j]
      BY DEF Queues
    <3> QED
      BY <1>11, <1>13, <2>2, <3>1, <3>2
  <2> QED
    BY <2>1, <2>2
<1> QED
  BY <1>9, <1>15 DEF Queues, Hers

\* A request joins the queue of its rank.
LEMMA QueueJoined ==
    ASSUME SlotInv, NEW q \in Request, Submit(q)
    PROVE  Queues'
<1>1. queued \in [Rank -> Seq(Request)] /\ state \in [Request -> States] /\ Home \in [Request -> Rank]
  BY K3Assumption DEF SlotInv, Queues, TypeOK, States
<1>2. PICK r \in Rank : r = Home[q]
  BY <1>1
<1>3. PICK s \in Seq(Request) : s = queued[r]
  BY <1>1
<1>4. PICK t : t = Append(s, q)
  OBVIOUS
<1>5. /\ t \in Seq(Request) /\ Len(s) \in Nat /\ Len(t) = Len(s) + 1 /\ t[Len(s) + 1] = q
      /\ \A i \in 1..Len(s) : t[i] = s[i]
  BY <1>4, AppendProperties
<1>6. queued' = [queued EXCEPT ![r] = t]
  BY <1>2, <1>3, <1>4 DEF Submit
<1>7. queued'[r] = t /\ \A p \in Rank : p # r => queued'[p] = queued[p]
  BY <1>1, <1>6
<1>8. queued' \in [Rank -> Seq(Request)]
  BY <1>1, <1>5, <1>6
<1>9. state[q] = "new" /\ state'[q] = "queued" /\ \A x \in Request : x # q => state'[x] = state[x]
  BY <1>1 DEF Submit
<1>10. \A p \in Rank : \A i \in 1..Len(queued[p]) :
           queued[p][i] \in Request /\ Home[queued[p][i]] = p /\ state[queued[p][i]] = "queued"
  BY DEF SlotInv, Queues, Hers
<1>11. \A p \in Rank : \A i \in 1..Len(queued[p]) : queued[p][i] # q /\ state'[queued[p][i]] = "queued"
  BY <1>9, <1>10
<1>12. \A p \in Rank : \A i, j \in 1..Len(queued[p]) : i # j => queued[p][i] # queued[p][j]
  BY DEF SlotInv, Queues
<1>13. \A i \in 1..Len(t) : t[i] \in Request /\ Home[t[i]] = r /\ state'[t[i]] = "queued"
  <2> SUFFICES ASSUME NEW i \in 1..Len(t)
               PROVE  t[i] \in Request /\ Home[t[i]] = r /\ state'[t[i]] = "queued"
    OBVIOUS
  <2>1. CASE i = Len(s) + 1
    BY <1>2, <1>5, <1>9, <2>1
  <2>2. CASE i # Len(s) + 1
    <3>1. i \in 1..Len(s) /\ t[i] = s[i]
      BY <1>5, <2>2
    <3> QED
      BY <1>3, <1>10, <1>11, <3>1
  <2> QED
    BY <2>1, <2>2
<1>14. \A i, j \in 1..Len(t) : i # j => t[i] # t[j]
  <2>1. \A i \in 1..Len(t) : i = Len(s) + 1 \/ i \in 1..Len(s)
    BY <1>5
  <2>2. \A i \in 1..Len(s) : t[i] # q
    BY <1>3, <1>5, <1>11
  <2>3. \A i, j \in 1..Len(s) : i # j => t[i] # t[j]
    BY <1>3, <1>5, <1>12
  <2> QED
    BY <1>5, <2>1, <2>2, <2>3
<1>15. ASSUME NEW p \in Rank
       PROVE  /\ \A i \in 1..Len(queued'[p]) :
                     /\ queued'[p][i] \in Request /\ Home[queued'[p][i]] = p
                     /\ state'[queued'[p][i]] = "queued"
              /\ \A i, j \in 1..Len(queued'[p]) : i # j => queued'[p][i] # queued'[p][j]
  <2>1. CASE p = r
    BY <1>7, <1>13, <1>14, <2>1
  <2>2. CASE p # r
    <3>1. queued'[p] = queued[p]
      BY <1>7, <2>2
    <3> QED
      BY <1>10, <1>11, <1>12, <3>1
  <2> QED
    BY <2>1, <2>2
<1> QED
  BY <1>8, <1>15 DEF Queues, Hers

\* A rank enters the superstep its first committed whale names.
LEMMA ServeEnterSlots ==
    ASSUME SlotInv, NEW r \in Rank, ServeEnter(r)
    PROVE  SlotInv'
<1>0. /\ pc[r] = "top" /\ committed[r] # <<>> /\ UNCHANGED batch
      /\ UNCHANGED <<lane, kind, count, aborted, left, seqr, up, down, armed, fallback, jobs, nextId, horizon>>
  BY DEF ServeEnter, AtLaunch, const, hub
<1>1. /\ pc \in [Rank -> Place] /\ fatal \subseteq Rank /\ work \in [Rank -> Request \cup {NoReq}]
      /\ HubTypes /\ Posts /\ committed \in [Rank -> Seq(Agreed)]
      /\ posted \in [Rank -> [req : Request \cup {NoReq}, seq : Int]]
      /\ job \in [Rank -> [seq : Int, req : Request \cup {NoReq}]]
  BY DEF SlotInv, TypeOK, Place, HubTypes, Posts, Board, BoardTypes
<1>2. PICK w : w = Head(committed[r])
  OBVIOUS
<1>3. w \in Agreed /\ w.req \in Request /\ w.seq \in Nat
  <2>1. committed[r] \in Seq(Agreed)
    BY <1>1
  <2>2. w \in Agreed
    BY <1>0, <1>2, <2>1, HeadTailProperties
  <2> QED
    BY <2>2 DEF Agreed
<1>4. CASE Fail(r) /\ UNCHANGED <<committed, posted, work, job, entered>>
  <2>1. /\ pc' \in [Rank -> Place] /\ fatal' \subseteq Rank
        /\ \A p \in Rank : pc'[p] = pc[p] \/ pc'[p] = "dead"
    BY <1>1, <1>4 DEF Fail, Goto, Place
  <2>2. HubTypes'
    BY <1>0, <1>1, <1>4 DEF HubTypes
  <2> QED
    BY <1>0, <1>4, <2>1, <2>2, ThreadMoved DEF SlotInv
<1>5. CASE ~ (Fail(r) /\ UNCHANGED <<committed, posted, work, job, entered>>)
  <2>1. /\ Home[w.req] = r => posted[r].req = w.req
        /\ committed' = [committed EXCEPT ![r] = Tail(@)]
        /\ posted' = IF Home[w.req] = r THEN [posted EXCEPT ![r] = NoPost] ELSE posted
        /\ work' = [work EXCEPT ![r] = IF Home[w.req] = r THEN w.req ELSE NoReq]
        /\ job' = [job EXCEPT ![r] = [seq |-> w.seq, req |-> w.req]]
        /\ pc' = [pc EXCEPT ![r] = "whale"] /\ UNCHANGED fatal
    BY <1>2, <1>5 DEF ServeEnter, EnterWhale, Goto
  <2>2. Tail(committed[r]) \in Seq(Agreed)
    BY <1>0, <1>1, HeadTailProperties
  <2>3. HubTypes'
    BY <1>0, <1>1, <2>1, <2>2 DEF HubTypes
  <2>4. Slots' /\ Ledger' /\ Queues'
    BY <1>0, BatchKept
  <2>5. work' \in [Rank -> Request \cup {NoReq}] /\ pc' \in [Rank -> Place]
    BY <1>1, <1>3, <2>1 DEF Place
  <2>6. TypeOK' /\ Deployed'
    BY <1>0, <2>1, <2>5 DEF SlotInv, TypeOK, Deployed, Over, batch, Place
  <2>7. Only(r)
    BY <1>0 DEF Only, batch
  <2>8. NoPost \in [req : Request \cup {NoReq}, seq : Int] /\ NoPost.req = NoReq
    BY DEF NoPost
  <2>9. /\ posted' \in [Rank -> [req : Request \cup {NoReq}, seq : Int]]
        /\ \A p \in Rank : p # r => posted'[p] = posted[p]
        /\ posted'[r] = IF Home[w.req] = r THEN NoPost ELSE posted[r]
    BY <1>1, <2>1, <2>8
  <2>10. Home[w.req] = r => posted[r] # NoPost /\ state[w.req] = "posted"
    BY <1>1, <1>3, <2>1, <2>8, K3Assumption DEF Posts, Hers
  <2>11. /\ posted[r] = NoPost \/ (/\ posted[r].req \in Request /\ Home[posted[r].req] = r
                                   /\ state'[posted[r].req] = "posted")
         /\ fallback[r] = NoPost \/ (/\ fallback[r].req \in Request /\ Home[fallback[r].req] = r
                                     /\ state'[fallback[r].req] = "fallback")
    BY <1>0, <1>1 DEF Posts, Hers, batch
  <2>12. Posts'
    <3>1. /\ fallback' \in [Rank -> [req : Request \cup {NoReq}, seq : Int]] /\ fallback'[r] = fallback[r]
          /\ \A p \in Rank : fallback'[p] = fallback[p]
      BY <1>0, <1>1 DEF Posts
    <3>2. posted'[r] = NoPost \/ posted'[r] = posted[r]
      BY <2>9
    <3> QED
      BY <1>1, <2>7, <2>9, <2>11, <3>1, <3>2, PostsAt
  <2>13. /\ pc'[r] = "whale" /\ work'[r] = IF Home[w.req] = r THEN w.req ELSE NoReq
         /\ job'[r] = [seq |-> w.seq, req |-> w.req]
         /\ \A p \in Rank : p # r => pc'[p] = pc[p] /\ work'[p] = work[p] /\ job'[p] = job[p]
    BY <1>1, <2>1
  <2>14. Works'
    <3>1. work'[r] # NoReq => /\ work'[r] \in Request /\ Home[work'[r]] = r
                              /\ state'[work'[r]] = "posted" /\ posted'[r] = NoPost
      BY <1>0, <1>3, <2>9, <2>10, <2>13 DEF batch
    <3>2. Works
      BY DEF SlotInv
    <3> QED
      BY <2>7, <2>9, <2>13, <3>1, <3>2, WorksAt
  <2>15. Board'
    <3>1. [seq |-> w.seq, req |-> w.req] \in [seq : Int, req : Request \cup {NoReq}]
      BY <1>3
    <3>2. job' \in [Rank -> [seq : Int, req : Request \cup {NoReq}]]
      BY <1>1, <2>1, <3>1
    <3>3. Board /\ pc[r] \notin AtBoard \cup {"dead"} /\ pc'[r] \notin {"cp", "cpWait"}
      BY <1>0, <2>13 DEF SlotInv, AtBoard
    <3> QED
      BY <1>0, <2>7, <2>13, <3>2, <3>3, BoardAt
  <2> QED
    BY <2>3, <2>4, <2>6, <2>12, <2>14, <2>15 DEF SlotInv
<1> QED
  BY <1>4, <1>5

\* A request that ended or runs is neither queued, posted nor to be prefilled.
LEMMA AnsweredQueues ==
    ASSUME SlotInv, NEW r \in Rank, NEW S, S \subseteq HeldBy(r), Answered(r, S), UNCHANGED queued
    PROVE  Queues' /\ Only(r)
<1>1. \A q \in Request : state[q] = "queued" => q \notin S
  BY DEF HeldBy, Holding
<1>2. \A q \in Request : state[q] = "queued" => state'[q] = "queued"
  BY <1>1 DEF Answered
<1>3. \A q \in Request : Home[q] # r => q \notin S
  BY DEF HeldBy
<1> QED
  BY <1>2, <1>3, QueuesKept DEF SlotInv, Answered, Only

\* The end of a superstep: the owner's first token.
LEMMA WhaleReturnSlots ==
    ASSUME SlotInv, NEW r \in Rank, WhaleReturn(r)
    PROVE  SlotInv'
<1>0. /\ pc[r] = "whaleWait" /\ pc' = [pc EXCEPT ![r] = "top"] /\ job' = [job EXCEPT ![r] = None]
      /\ work' = [work EXCEPT ![r] = NoReq] /\ UNCHANGED queued
      /\ UNCHANGED <<lane, kind, count, aborted, left, seqr, up, down, armed, committed, posted>>
      /\ UNCHANGED <<fallback, jobs, nextId, horizon, fatal>>
  BY DEF WhaleReturn, Goto, const, hub, member, post, batch
<1>1. /\ pc \in [Rank -> Place] /\ work \in [Rank -> Request \cup {NoReq}]
      /\ state \in [Request -> States] /\ toks \in [Request -> 0..MaxTokens] /\ free \in [Rank -> 0..MaxBatch]
      /\ HubTypes /\ Posts /\ Works /\ Board /\ TypeOK /\ Slots /\ Ledger
      /\ job \in [Rank -> [seq : Int, req : Request \cup {NoReq}]]
  BY DEF SlotInv, TypeOK, Place, States, Board, BoardTypes
<1>2. HubTypes' /\ Deployed'
  BY <1>0, <1>1 DEF HubTypes, SlotInv, Deployed
<1>3. PICK S : S = IF work[r] = NoReq THEN {} ELSE {work[r]}
  OBVIOUS
<1>4. /\ S \subseteq HeldBy(r)
      /\ work[r] # NoReq => /\ work[r] \in Request /\ Home[work[r]] = r /\ state[work[r]] = "posted"
                            /\ posted[r] = NoPost
  BY <1>0, <1>1, <1>3 DEF Works, Hers, HeldBy, Holding
<1>5. Answered(r, S)
  <2>1. CASE work[r] = NoReq
    <3>1. UNCHANGED batch /\ S = {}
      BY <1>3, <2>1 DEF WhaleReturn
    <3>2. Slots' /\ Ledger' /\ UNCHANGED <<state, toks, free>>
      BY <3>1, BatchKept DEF batch
    <3> QED
      BY <1>1, <3>1, <3>2 DEF Answered
  <2>2. CASE work[r] # NoReq
    <3>1. PICK q \in Request : q = work[r]
      BY <1>4, <2>2
    <3>2. S = {q} /\ Home[q] = r /\ state[q] \in Holding \ {"running"}
      BY <1>3, <1>4, <2>2, <3>1 DEF Holding
    <3>3. \/ FinishOrRetire({q}) /\ Close(r, {q}, {})
          \/ CommitFirstToken(r, q)
      BY <2>2, <3>1 DEF WhaleReturn
    <3>4. CASE FinishOrRetire({q}) /\ Close(r, {q}, {})
      BY <1>1, <1>4, <3>2, <3>4, Closing
    <3>5. CASE CommitFirstToken(r, q)
      BY <1>1, <3>2, <3>5, FirstToken
    <3> QED
      BY <3>2, <3>3, <3>4, <3>5
  <2> QED
    BY <2>1, <2>2
<1>6. Queues' /\ Only(r)
  BY <1>0, <1>4, <1>5, AnsweredQueues
<1>7. /\ pc'[r] = "top" /\ work'[r] = NoReq /\ pc' \in [Rank -> Place]
      /\ work' \in [Rank -> Request \cup {NoReq}]
      /\ \A p \in Rank : p # r => pc'[p] = pc[p] /\ work'[p] = work[p] /\ job'[p] = job[p]
  BY <1>0, <1>1 DEF Place
<1>8. job' \in [Rank -> [seq : Int, req : Request \cup {NoReq}]]
  <2>1. None \in [seq : Int, req : Request \cup {NoReq}]
    BY DEF None
  <2> QED
    BY <1>0, <1>1, <2>1
<1>9. TypeOK'
  BY <1>0, <1>5, <1>7 DEF SlotInv, TypeOK, Answered, States, Place
<1>10. Posts'
  <2>1. \A q \in S : q = work[r] /\ work[r] # NoReq
    BY <1>3
  <2>2. posted[r] = NoPost \/ (/\ posted[r].req \in Request /\ Home[posted[r].req] = r
                                   /\ state'[posted[r].req] = "posted")
    BY <1>1, <1>4, <1>5, <2>1 DEF Posts, Hers, Answered
  <2>3. fallback[r] = NoPost \/ (/\ fallback[r].req \in Request /\ Home[fallback[r].req] = r
                                     /\ state'[fallback[r].req] = "fallback")
    <3>1. \A q \in Request : state[q] = "fallback" => q \notin S
      BY <1>4, <2>1
    <3> QED
      BY <1>1, <1>5, <3>1 DEF Posts, Hers, Answered
  <2>4. /\ posted' \in [Rank -> [req : Request \cup {NoReq}, seq : Int]]
        /\ fallback' \in [Rank -> [req : Request \cup {NoReq}, seq : Int]]
        /\ \A p \in Rank : posted'[p] = posted[p] /\ fallback'[p] = fallback[p]
    BY <1>0, <1>1 DEF Posts
  <2> QED
    BY <1>1, <1>6, <2>2, <2>3, <2>4, PostsAt
<1>11. Works'
  <2>1. \A p \in Rank : posted'[p] = posted[p]
    BY <1>0
  <2> QED
    BY <1>1, <1>6, <1>7, <2>1, WorksAt
<1>12. Board'
  <2>1. pc[r] \notin AtBoard \cup {"dead"} /\ pc'[r] \notin {"cp", "cpWait"}
    BY <1>0, <1>7 DEF AtBoard
  <2> QED
    BY <1>0, <1>1, <1>6, <1>7, <1>8, <2>1, BoardAt
<1> QED
  BY <1>2, <1>5, <1>6, <1>9, <1>10, <1>11, <1>12 DEF SlotInv, Answered

\* A step that answers requests of S, which are neither posted nor cancelled
\* ones, and leaves the lanes alone.
LEMMA AnsweredKept ==
    ASSUME SlotInv, NEW r \in Rank, NEW S, S \subseteq HeldBy(r), Answered(r, S), UNCHANGED queued,
           \A q \in S : state[q] \in {"prefill", "running"},
           UNCHANGED <<lane, kind, aborted, left, seqr, up, down, armed, committed, posted>>,
           UNCHANGED <<fallback, jobs, nextId, horizon, job, fatal>>,
           pc[r] \notin AtBoard \cup {"dead"}, pc' \in [Rank -> Place],
           pc'[r] \in {"top", "admit", "decodeWait"},
           \A p \in Rank : p # r => pc'[p] = pc[p] /\ work'[p] = work[p],
           work' \in [Rank -> Request \cup {NoReq}], count' \in [Rank -> 0..MaxLaunch]
    PROVE  SlotInv'
<1>1. Queues' /\ Only(r)
  BY AnsweredQueues
<1>2. HubTypes' /\ Deployed'
  BY DEF HubTypes, SlotInv, Deployed
<1>3. TypeOK'
  BY DEF SlotInv, TypeOK, Answered, States, Place
<1>4. Posts /\ Works /\ Board
  BY DEF SlotInv
<1>5. \A q \in Request : state[q] \in {"posted", "fallback"} => state'[q] = state[q]
  BY DEF Answered
<1>6. Posts'
  <2>1. /\ posted' \in [Rank -> [req : Request \cup {NoReq}, seq : Int]]
        /\ fallback' \in [Rank -> [req : Request \cup {NoReq}, seq : Int]]
        /\ \A p \in Rank : posted'[p] = posted[p] /\ fallback'[p] = fallback[p]
    BY <1>4 DEF Posts
  <2>2. /\ posted[r] = NoPost \/ (/\ posted[r].req \in Request /\ Home[posted[r].req] = r
                                   /\ state'[posted[r].req] = "posted")
        /\ fallback[r] = NoPost \/ (/\ fallback[r].req \in Request /\ Home[fallback[r].req] = r
                                     /\ state'[fallback[r].req] = "fallback")
    BY <1>4, <1>5 DEF Posts, Hers
  <2> QED
    BY <1>1, <1>4, <2>1, <2>2, PostsAt
<1>7. Works'
  <2>1. \A p \in Rank : posted'[p] = posted[p]
    OBVIOUS
  <2>2. pc'[r] # "prefill" /\ pc'[r] \notin {"whale", "whaleWait"}
    OBVIOUS
  <2> QED
    BY <1>1, <1>4, <2>1, <2>2, WorksAt
<1>8. Board'
  <2>1. job' \in [Rank -> [seq : Int, req : Request \cup {NoReq}]]
    BY <1>4 DEF Board, BoardTypes
  <2>2. \A p \in Rank : job'[p] = job[p]
    OBVIOUS
  <2>3. pc'[r] \notin {"cp", "cpWait"}
    OBVIOUS
  <2> QED
    BY <1>1, <1>4, <2>1, <2>2, <2>3, BoardAt
<1> QED
  BY <1>1, <1>2, <1>3, <1>6, <1>7, <1>8 DEF SlotInv, Answered

\* The end of a local prefill.
LEMMA PrefillReturnSlots ==
    ASSUME SlotInv, NEW r \in Rank, PrefillReturn(r)
    PROVE  SlotInv'
<1>0. /\ pc[r] = "prefill" /\ pc' = [pc EXCEPT ![r] = "admit"] /\ UNCHANGED queued
      /\ work' = [work EXCEPT ![r] = NoReq]
      /\ UNCHANGED <<lane, kind, count, aborted, left, seqr, up, down, armed, committed, posted>>
      /\ UNCHANGED <<fallback, jobs, nextId, horizon, job, fatal>>
  BY DEF PrefillReturn, Goto, const, hub, member, post, board
<1>1. /\ pc \in [Rank -> Place] /\ work \in [Rank -> Request \cup {NoReq}] /\ count \in [Rank -> 0..MaxLaunch]
      /\ TypeOK /\ Slots /\ Ledger /\ Works
  BY DEF SlotInv, TypeOK, Place
<1>2. PICK q : q = work[r]
  OBVIOUS
<1>3. q \in Request /\ Home[q] = r /\ state[q] = "prefill"
  BY <1>0, <1>1, <1>2 DEF Works, Hers
<1>4. {q} \subseteq HeldBy(r) /\ state[q] \in Holding \ {"running"}
  BY <1>3 DEF HeldBy, Holding
<1>5. Answered(r, {q})
  <2>1. CASE CommitFirstToken(r, q)
    BY <1>1, <1>3, <1>4, <2>1, FirstToken
  <2>2. CASE FailAll({q}) /\ Close(r, {q}, {})
    BY <1>1, <1>4, <2>2, Closing
  <2> QED
    BY <1>2, <2>1, <2>2 DEF PrefillReturn
<1>6. /\ pc[r] \notin AtBoard \cup {"dead"} /\ pc' \in [Rank -> Place] /\ pc'[r] = "admit"
      /\ \A p \in Rank : p # r => pc'[p] = pc[p] /\ work'[p] = work[p]
      /\ work' \in [Rank -> Request \cup {NoReq}] /\ count' \in [Rank -> 0..MaxLaunch]
  BY <1>0, <1>1 DEF AtBoard, Place
<1>7. \A x \in {q} : state[x] \in {"prefill", "running"}
  BY <1>3
<1> QED
  BY <1>0, <1>4, <1>5, <1>6, <1>7, AnsweredKept

\* retire_aborted and the decode launch.
LEMMA DecodeLaunchSlots ==
    ASSUME SlotInv, NEW r \in Rank, DecodeLaunch(r)
    PROVE  SlotInv'
<1>0. /\ pc[r] \in {"admit", "admitHeld"} /\ pc' = [pc EXCEPT ![r] = "decodeWait"] /\ UNCHANGED queued
      /\ UNCHANGED <<lane, kind, work, aborted, left, seqr, up, down, armed, committed, posted>>
      /\ UNCHANGED <<fallback, jobs, nextId, horizon, job, fatal>>
  BY DEF DecodeLaunch, AdmitDone, Goto, const, hub, member, post, board
<1>1. /\ pc \in [Rank -> Place] /\ work \in [Rank -> Request \cup {NoReq}]
      /\ TypeOK /\ Slots /\ Ledger
  BY DEF SlotInv, TypeOK, Place
<1>2. PICK S : S = Running(r) \cap aborted
  OBVIOUS
<1>3. S \subseteq HeldBy(r) /\ \A q \in S : state[q] \in {"prefill", "running"}
  BY <1>2 DEF Running, HeldBy, Holding
<1>4. Answered(r, S)
  <2>1. FinishOrRetire(S) /\ Close(r, S, {})
    BY <1>2 DEF DecodeLaunch
  <2> QED
    BY <1>1, <1>3, <2>1, Closing
<1>5. count' \in [Rank -> 0..MaxLaunch]
  BY <1>1, LaunchFacts DEF DecodeLaunch
<1>6. /\ pc[r] \notin AtBoard \cup {"dead"} /\ pc' \in [Rank -> Place] /\ pc'[r] = "decodeWait"
      /\ \A p \in Rank : p # r => pc'[p] = pc[p] /\ work'[p] = work[p]
      /\ work' \in [Rank -> Request \cup {NoReq}]
  BY <1>0, <1>1 DEF AtBoard, Place
<1> QED
  BY <1>0, <1>3, <1>4, <1>5, <1>6, AnsweredKept

\* The decode step returns: tokens, ends, or a failed batch.
LEMMA DecodeReturnSlots ==
    ASSUME SlotInv, NEW r \in Rank, DecodeReturn(r)
    PROVE  SlotInv'
<1>0. /\ pc[r] = "decodeWait" /\ pc' = [pc EXCEPT ![r] = "top"] /\ UNCHANGED queued
      /\ UNCHANGED <<lane, kind, count, work, aborted, left, seqr, up, down, armed, committed, posted>>
      /\ UNCHANGED <<fallback, jobs, nextId, horizon, job, fatal>>
  BY DEF DecodeReturn, Goto, const, hub, member, post, board
<1>1. /\ pc \in [Rank -> Place] /\ work \in [Rank -> Request \cup {NoReq}] /\ count \in [Rank -> 0..MaxLaunch]
      /\ toks \in [Request -> 0..MaxTokens] /\ MaxTokens \in Nat
      /\ TypeOK /\ Slots /\ Ledger
  BY K3Assumption DEF SlotInv, TypeOK, Place
<1>2. PICK full : full = {q \in Running(r) : toks[q] + 1 >= MaxTokens}
  OBVIOUS
<1>3. Running(r) \subseteq HeldBy(r) /\ Running(r) \subseteq Request /\ full \subseteq Running(r)
  BY <1>2 DEF Running, HeldBy, Holding
<1>4. \A q \in Running(r) : state[q] \in {"prefill", "running"}
  BY DEF Running
<1>5. PICK S : S \subseteq Running(r) /\ Answered(r, S)
  <2>1. ASSUME NEW stop \in SUBSET Running(r),
               FinishOrRetire(stop \cup full) /\ Close(r, stop \cup full, Running(r))
        PROVE  stop \cup full \subseteq Running(r) /\ Answered(r, stop \cup full)
    <3>1. PICK T : T = stop \cup full
      OBVIOUS
    <3>2. T \subseteq HeldBy(r) /\ FinishOrRetire(T) /\ Close(r, T, Running(r)) /\ T \subseteq Running(r)
      BY <1>3, <2>1, <3>1
    <3>3. \A q \in Running(r) \ T : toks[q] + 1 < MaxTokens
      BY <1>1, <1>2, <1>3, <3>1
    <3>4. Answered(r, T)
      BY <1>1, <3>2, <3>3, Closing
    <3> QED
      BY <3>1, <3>2, <3>4
  <2>2. ASSUME FailAll(Running(r)) /\ Close(r, Running(r), {})
        PROVE  Answered(r, Running(r))
    BY <1>1, <1>3, <2>2, Closing
  <2>3. \/ \E stop \in SUBSET Running(r) :
               FinishOrRetire(stop \cup full) /\ Close(r, stop \cup full, Running(r))
        \/ FailAll(Running(r)) /\ Close(r, Running(r), {})
    BY <1>2 DEF DecodeReturn
  <2> QED
    BY <2>1, <2>2, <2>3
<1>6. /\ pc[r] \notin AtBoard \cup {"dead"} /\ pc' \in [Rank -> Place] /\ pc'[r] = "top"
      /\ \A p \in Rank : p # r => pc'[p] = pc[p] /\ work'[p] = work[p]
      /\ work' \in [Rank -> Request \cup {NoReq}] /\ count' \in [Rank -> 0..MaxLaunch]
  BY <1>0, <1>1 DEF AtBoard, Place
<1>7. S \subseteq HeldBy(r) /\ \A q \in S : state[q] \in {"prefill", "running"}
  BY <1>3, <1>4, <1>5
<1> QED
  BY <1>0, <1>5, <1>6, <1>7, AnsweredKept

\* A step of one rank off the board, from what it does to that rank.
LEMMA RankMoved ==
    ASSUME SlotInv, NEW r \in Rank, Only(r), Slots', Ledger', Queues', HubTypes',
           state' \in [Request -> States], free' \in [Rank -> 0..MaxBatch],
           toks' \in [Request -> 0..MaxTokens], left' \in [Rank -> 0..PrefillLaunches],
           work' \in [Rank -> Request \cup {NoReq}], pc' \in [Rank -> Place],
           UNCHANGED <<lane, kind, count, aborted, fatal, jobs, nextId, horizon, job>>,
           posted' \in [Rank -> [req : Request \cup {NoReq}, seq : Int]],
           fallback' \in [Rank -> [req : Request \cup {NoReq}, seq : Int]],
           \A p \in Rank : p # r => /\ pc'[p] = pc[p] /\ work'[p] = work[p]
                                    /\ posted'[p] = posted[p] /\ fallback'[p] = fallback[p],
           posted'[r] = NoPost \/ (/\ posted'[r].req \in Request /\ Home[posted'[r].req] = r
                                   /\ state'[posted'[r].req] = "posted"),
           fallback'[r] = NoPost \/ (/\ fallback'[r].req \in Request /\ Home[fallback'[r].req] = r
                                     /\ state'[fallback'[r].req] = "fallback"),
           pc'[r] = "prefill" => /\ work'[r] \in Request /\ Home[work'[r]] = r
                                 /\ state'[work'[r]] = "prefill",
           pc'[r] \notin {"whale", "whaleWait", "cp", "cpWait"},
           pc[r] \notin AtBoard \cup {"dead"}
    PROVE  SlotInv'
<1>1. Posts /\ Works /\ Board /\ Deployed
  BY DEF SlotInv
<1>2. Posts'
  BY <1>1, PostsAt
<1>3. Works'
  BY <1>1, WorksAt
<1>4. Board'
  <2>1. job' \in [Rank -> [seq : Int, req : Request \cup {NoReq}]]
    BY <1>1 DEF Board, BoardTypes
  <2>2. \A p \in Rank : job'[p] = job[p]
    OBVIOUS
  <2> QED
    BY <1>1, <2>1, <2>2, BoardAt
<1>5. TypeOK' /\ Deployed'
  BY <1>1 DEF SlotInv, TypeOK, Deployed, States, Place
<1> QED
  BY <1>2, <1>3, <1>4, <1>5 DEF SlotInv

\* What SlotInv says of the variables of a rank, in the forms steps need.
LEMMA SlotTypes ==
    ASSUME SlotInv
    PROVE  /\ pc \in [Rank -> Place] /\ work \in [Rank -> Request \cup {NoReq}]
           /\ state \in [Request -> States] /\ toks \in [Request -> 0..MaxTokens]
           /\ free \in [Rank -> 0..MaxBatch] /\ left \in [Rank -> 0..PrefillLaunches]
           /\ posted \in [Rank -> [req : Request \cup {NoReq}, seq : Int]]
           /\ fallback \in [Rank -> [req : Request \cup {NoReq}, seq : Int]]
           /\ \A r \in Rank :
                  /\ posted[r] = NoPost \/ (/\ posted[r].req \in Request /\ Home[posted[r].req] = r
                                            /\ state[posted[r].req] = "posted")
                  /\ fallback[r] = NoPost \/ (/\ fallback[r].req \in Request /\ Home[fallback[r].req] = r
                                              /\ state[fallback[r].req] = "fallback")
           /\ NoPost \in [req : Request \cup {NoReq}, seq : Int]
           /\ TypeOK /\ Slots /\ Ledger /\ Queues
  BY DEF SlotInv, TypeOK, Place, States, Posts, Hers, NoPost

\* The end of serve_whale_lane: a cancelled post is prefilled or dropped here.
LEMMA ServeFreeSlots ==
    ASSUME SlotInv, NEW r \in Rank, ServeFree(r)
    PROVE  SlotInv'
<1>0. /\ pc[r] = "top" /\ UNCHANGED queued
      /\ UNCHANGED <<lane, kind, count, aborted, seqr, up, down, armed, committed, posted>>
      /\ UNCHANGED <<jobs, nextId, horizon, job, fatal>>
  BY DEF ServeFree, const, hub, member, board, batch
<1>1. HubTypes' /\ pc[r] \notin AtBoard \cup {"dead"}
  BY <1>0 DEF SlotInv, HubTypes, AtBoard
<1>2. /\ posted' \in [Rank -> [req : Request \cup {NoReq}, seq : Int]]
      /\ \A p \in Rank : posted'[p] = posted[p]
  BY <1>0, SlotTypes
<1>3. CASE /\ pc' = [pc EXCEPT ![r] = "admitHeld"] \/ pc' = [pc EXCEPT ![r] = "admit"]
           /\ UNCHANGED <<batch, fallback, work, left>>
  <2>1. Slots' /\ Ledger' /\ Queues' /\ UNCHANGED <<state, toks, free, fallback, work, left>>
    BY <1>3, BatchKept DEF batch
  <2>2. Only(r)
    BY <2>1 DEF Only
  <2>3. /\ pc' \in [Rank -> Place] /\ pc'[r] \in {"admit", "admitHeld"}
        /\ \A p \in Rank : p # r => pc'[p] = pc[p]
    BY <1>3, SlotTypes DEF Place
  <2>4. /\ state' \in [Request -> States] /\ free' \in [Rank -> 0..MaxBatch]
        /\ toks' \in [Request -> 0..MaxTokens] /\ left' \in [Rank -> 0..PrefillLaunches]
        /\ work' \in [Rank -> Request \cup {NoReq}]
        /\ fallback' \in [Rank -> [req : Request \cup {NoReq}, seq : Int]]
    BY <2>1, SlotTypes
  <2>5. \A p \in Rank : p # r => /\ pc'[p] = pc[p] /\ work'[p] = work[p]
                                 /\ posted'[p] = posted[p] /\ fallback'[p] = fallback[p]
    BY <1>2, <2>1, <2>3
  <2>6. PICK a, b : a = posted[r] /\ b = fallback[r]
    OBVIOUS
  <2>7. /\ a = NoPost \/ (a.req \in Request /\ Home[a.req] = r /\ state[a.req] = "posted")
        /\ b = NoPost \/ (b.req \in Request /\ Home[b.req] = r /\ state[b.req] = "fallback")
    BY <2>6, SlotTypes
  <2>8. posted'[r] = a /\ fallback'[r] = b /\ state' = state
    BY <1>2, <2>1, <2>6
  <2>9. posted'[r] = NoPost \/ (/\ posted'[r].req \in Request /\ Home[posted'[r].req] = r
                                /\ state'[posted'[r].req] = "posted")
    BY <2>7, <2>8
  <2>10. fallback'[r] = NoPost \/ (/\ fallback'[r].req \in Request /\ Home[fallback'[r].req] = r
                                   /\ state'[fallback'[r].req] = "fallback")
    BY <2>7, <2>8
  <2>11. /\ pc'[r] = "prefill" => /\ work'[r] \in Request /\ Home[work'[r]] = r
                                  /\ state'[work'[r]] = "prefill"
         /\ pc'[r] \notin {"whale", "whaleWait", "cp", "cpWait"}
    BY <2>3
  <2> QED
    BY <1>0, <1>1, <1>2, <2>1, <2>2, <2>3, <2>4, <2>5, <2>9, <2>10, <2>11, RankMoved
<1>4. CASE ~ (/\ pc' = [pc EXCEPT ![r] = "admitHeld"] \/ pc' = [pc EXCEPT ![r] = "admit"]
              /\ UNCHANGED <<batch, fallback, work, left>>)
  <2>1. PICK q : q = fallback[r].req
    OBVIOUS
  <2>2. /\ fallback[r] # NoPost /\ fallback' = [fallback EXCEPT ![r] = NoPost]
        /\ \/ /\ FinishOrRetire({q}) /\ Close(r, {q}, {}) /\ pc' = [pc EXCEPT ![r] = "admit"]
              /\ UNCHANGED <<work, left>>
           \/ /\ work' = [work EXCEPT ![r] = q] /\ left' = [left EXCEPT ![r] = PrefillLaunches]
              /\ state' = [state EXCEPT ![q] = "prefill"] /\ pc' = [pc EXCEPT ![r] = "prefill"]
              /\ UNCHANGED <<free, toks>>
    BY <1>4, <2>1 DEF ServeFree, Goto
  <2>3. q \in Request /\ Home[q] = r /\ state[q] = "fallback"
    BY <2>1, <2>2, SlotTypes
  <2>4. {q} \subseteq HeldBy(r)
    BY <2>3 DEF HeldBy, Holding
  <2>5. /\ fallback' \in [Rank -> [req : Request \cup {NoReq}, seq : Int]] /\ fallback'[r] = NoPost
        /\ \A p \in Rank : p # r => fallback'[p] = fallback[p]
    BY <2>2, SlotTypes
  <2>6. CASE /\ FinishOrRetire({q}) /\ Close(r, {q}, {}) /\ pc' = [pc EXCEPT ![r] = "admit"]
             /\ UNCHANGED <<work, left>>
    <3>0. TypeOK /\ Slots /\ Ledger
      BY SlotTypes
    <3>1. Answered(r, {q})
      BY <2>4, <2>6, <3>0, Closing
    <3>2. Queues' /\ Only(r)
      BY <1>0, <2>4, <3>1, AnsweredQueues
    <3>3. /\ pc' \in [Rank -> Place] /\ pc'[r] = "admit" /\ \A p \in Rank : p # r => pc'[p] = pc[p]
      BY <2>6, SlotTypes DEF Place
    <3>4. posted[r] = NoPost \/ (/\ posted[r].req \in Request /\ Home[posted[r].req] = r
                                 /\ state'[posted[r].req] = "posted")
      BY <2>3, <3>1, SlotTypes DEF Answered
    <3>5. /\ Slots' /\ Ledger' /\ state' \in [Request -> States] /\ free' \in [Rank -> 0..MaxBatch]
          /\ toks' \in [Request -> 0..MaxTokens]
      BY <3>1 DEF Answered
    <3>6. UNCHANGED <<work, left>>
      BY <2>6
    <3>7. left' \in [Rank -> 0..PrefillLaunches] /\ work' \in [Rank -> Request \cup {NoReq}]
      BY <3>6, SlotTypes
    <3>8. \A p \in Rank : p # r => /\ pc'[p] = pc[p] /\ work'[p] = work[p]
                                   /\ posted'[p] = posted[p] /\ fallback'[p] = fallback[p]
      BY <1>2, <2>5, <3>3, <3>6
    <3>9. posted'[r] = NoPost \/ (/\ posted'[r].req \in Request /\ Home[posted'[r].req] = r
                                  /\ state'[posted'[r].req] = "posted")
      BY <1>2, <3>4
    <3>10. /\ pc'[r] = "prefill" => /\ work'[r] \in Request /\ Home[work'[r]] = r
                                    /\ state'[work'[r]] = "prefill"
           /\ pc'[r] \notin {"whale", "whaleWait", "cp", "cpWait"}
      BY <3>3
    <3> QED
      BY <1>0, <1>1, <1>2, <2>5, <3>2, <3>3, <3>5, <3>7, <3>8, <3>9, <3>10, RankMoved
  <2>7. CASE /\ work' = [work EXCEPT ![r] = q] /\ left' = [left EXCEPT ![r] = PrefillLaunches]
             /\ state' = [state EXCEPT ![q] = "prefill"] /\ pc' = [pc EXCEPT ![r] = "prefill"]
             /\ UNCHANGED <<free, toks>>
    <3>1. /\ state' \in [Request -> States] /\ state'[q] = "prefill"
          /\ \A x \in Request : x # q => state'[x] = state[x]
      BY <2>3, <2>7, SlotTypes DEF States
    <3>2. Slots'
      <4>1. \A x \in Request : state'[x] \in Holding <=> state[x] \in Holding
        BY <2>3, <3>1 DEF Holding
      <4> QED
        BY <2>7, <4>1, SlotTypes, SlotsKept
    <3>3. Ledger'
      BY <2>3, <2>7, <3>1, SlotTypes DEF Ledger
    <3>4. Queues'
      <4>1. \A x \in Request : state[x] = "queued" => state'[x] = "queued"
        BY <2>3, <3>1
      <4> QED
        BY <1>0, <4>1, SlotTypes, QueuesKept
    <3>5. Only(r)
      BY <2>3, <3>1 DEF Only
    <3>6. /\ pc' \in [Rank -> Place] /\ pc'[r] = "prefill" /\ work' \in [Rank -> Request \cup {NoReq}]
          /\ work'[r] = q /\ \A p \in Rank : p # r => pc'[p] = pc[p] /\ work'[p] = work[p]
      BY <2>3, <2>7, SlotTypes DEF Place
    <3>7. left' \in [Rank -> 0..PrefillLaunches]
      BY <2>7, SlotTypes, K3Assumption
    <3>8. posted[r] = NoPost \/ (/\ posted[r].req \in Request /\ Home[posted[r].req] = r
                                 /\ state'[posted[r].req] = "posted")
      BY <2>3, <3>1, SlotTypes
    <3>9. free' \in [Rank -> 0..MaxBatch] /\ toks' \in [Request -> 0..MaxTokens]
      BY <2>7, SlotTypes
    <3> QED
      BY <1>0, <1>1, <1>2, <2>3, <2>5, <3>1, <3>2, <3>3, <3>4, <3>5, <3>6, <3>7, <3>8, <3>9, RankMoved
  <2> QED
    BY <2>2, <2>6, <2>7
<1> QED
  BY <1>3, <1>4

\* The head of a queue is answered without a slot, or a request joins a queue.
LEMMA AdmitVerdictSlots ==
    ASSUME SlotInv, NEW r \in Rank, AdmitVerdict(r)
    PROVE  SlotInv'
<1>0. /\ pc[r] \in {"admit", "admitHeld"} /\ queued[r] # <<>> /\ Pop(r)
      /\ UNCHANGED <<lane, kind, count, pc, toks, free, aborted, work, left, seqr, up, down>>
      /\ UNCHANGED <<armed, committed, posted, fallback, jobs, nextId, horizon, job, fatal>>
  BY DEF AdmitVerdict, const, hub, member, post, board
<1>1. PICK q \in Request : q = Head(queued[r]) /\ Home[q] = r /\ state[q] = "queued"
  BY <1>0, HeadFacts, SlotTypes
<1>2. PICK where \in Over : state' = [state EXCEPT ![q] = where]
  BY <1>1 DEF AdmitVerdict, Over
<1>3. /\ state' \in [Request -> States] /\ state'[q] \in Over
      /\ \A x \in Request : x # q => state'[x] = state[x]
  BY <1>2, SlotTypes DEF States
<1>4. Slots'
  <2>1. \A x \in Request : state'[x] \in Holding <=> state[x] \in Holding
    BY <1>1, <1>3 DEF Holding, Over
  <2> QED
    BY <1>0, <2>1, SlotTypes, SlotsKept
<1>5. Ledger'
  BY <1>0, <1>1, <1>3, SlotTypes DEF Ledger, Over
<1>6. Queues'
  BY <1>0, <1>1, <1>3, SlotTypes, QueuePopped
<1>7. Only(r)
  BY <1>1, <1>3 DEF Only
<1>8. HubTypes' /\ pc[r] \notin AtBoard \cup {"dead"}
  BY <1>0 DEF SlotInv, HubTypes, AtBoard
<1>9. /\ posted[r] = NoPost \/ (/\ posted[r].req \in Request /\ Home[posted[r].req] = r
                                 /\ state'[posted[r].req] = "posted")
      /\ fallback[r] = NoPost \/ (/\ fallback[r].req \in Request /\ Home[fallback[r].req] = r
                                     /\ state'[fallback[r].req] = "fallback")
  BY <1>1, <1>3, SlotTypes
<1> QED
  BY <1>0, <1>3, <1>4, <1>5, <1>6, <1>7, <1>8, <1>9, SlotTypes, RankMoved

LEMMA SubmitSlots ==
    ASSUME SlotInv, NEW q \in Request, Submit(q)
    PROVE  SlotInv'
<1>1. PICK r \in Rank : r = Home[q]
  BY K3Assumption
<1>0. /\ pc[r] = "top" /\ state[q] = "new" /\ state' = [state EXCEPT ![q] = "queued"]
      /\ UNCHANGED <<lane, kind, count, pc, toks, free, aborted, work, left, seqr, up, down>>
      /\ UNCHANGED <<armed, committed, posted, fallback, jobs, nextId, horizon, job, fatal>>
  BY <1>1 DEF Submit, const, hub, member, post, board
<1>3. /\ state' \in [Request -> States] /\ state'[q] = "queued"
      /\ \A x \in Request : x # q => state'[x] = state[x]
  BY <1>0, SlotTypes DEF States
<1>4. Slots'
  <2>1. \A x \in Request : state'[x] \in Holding <=> state[x] \in Holding
    BY <1>0, <1>3 DEF Holding, Over
  <2> QED
    BY <1>0, <2>1, SlotTypes, SlotsKept
<1>5. Ledger'
  BY <1>0, <1>3, SlotTypes DEF Ledger, Over
<1>6. Queues'
  BY QueueJoined
<1>7. Only(r)
  BY <1>1, <1>3 DEF Only
<1>8. HubTypes' /\ pc[r] \notin AtBoard \cup {"dead"}
  BY <1>0 DEF SlotInv, HubTypes, AtBoard
<1>9. /\ posted[r] = NoPost \/ (/\ posted[r].req \in Request /\ Home[posted[r].req] = r
                                 /\ state'[posted[r].req] = "posted")
      /\ fallback[r] = NoPost \/ (/\ fallback[r].req \in Request /\ Home[fallback[r].req] = r
                                     /\ state'[fallback[r].req] = "fallback")
  BY <1>0, <1>3, SlotTypes
<1> QED
  BY <1>0, <1>3, <1>4, <1>5, <1>6, <1>7, <1>8, <1>9, SlotTypes, RankMoved, SMTT(40)

\* What a step in which the head of a queue takes a slot does to the batch.
Taken(r, where) ==
    /\ Slots' /\ Ledger' /\ Queues' /\ Only(r) /\ state' \in [Request -> States]
    /\ free' \in [Rank -> 0..MaxBatch]
    /\ \E q \in Request : /\ q = Head(queued[r]) /\ Home[q] = r /\ state[q] = "queued"
                          /\ state'[q] = where /\ \A x \in Request : x # q => state'[x] = state[x]

\* The head of a queue takes a slot.
LEMMA HeadTaken ==
    ASSUME SlotInv, NEW r \in Rank, NEW kinds, Runs(r, kinds), Pop(r), NEW where \in Holding \ {"running"},
           state' = [state EXCEPT ![Head(queued[r])] = where],
           free' = [free EXCEPT ![r] = @ - 1], UNCHANGED toks
    PROVE  Taken(r, where)
<1>1. free[r] > 0 /\ queued[r] # <<>>
  BY DEF Runs
<1>2. PICK q \in Request : q = Head(queued[r]) /\ Home[q] = r /\ state[q] = "queued"
  BY <1>1, HeadFacts, SlotTypes
<1>3. /\ state' \in [Request -> States] /\ state'[q] = where
      /\ \A x \in Request : x # q => state'[x] = state[x]
  BY <1>2, SlotTypes DEF States, Holding
<1>4. Slots' /\ free' \in [Rank -> 0..MaxBatch]
  <2>1. TypeOK /\ Slots /\ where \in Holding /\ state[q] \notin Holding
    BY <1>2, SlotTypes DEF Holding
  <2>2. state' = [state EXCEPT ![q] = where]
    BY <1>2
  <2> QED
    BY <1>1, <1>2, <2>1, <2>2, SlotTaken
<1>5. Ledger'
  BY <1>2, <1>3, SlotTypes DEF Ledger
<1>6. Queues'
  BY <1>1, <1>2, <1>3, SlotTypes, QueuePopped
<1>7. Only(r)
  BY <1>2, <1>3 DEF Only
<1> QED
  BY <1>2, <1>3, <1>4, <1>5, <1>6, <1>7 DEF Taken

\* A local prefill begins.
LEMMA PrefillStartSlots ==
    ASSUME SlotInv, NEW r \in Rank, PrefillStart(r)
    PROVE  SlotInv'
<1>0. /\ pc[r] = "admit" /\ pc' = [pc EXCEPT ![r] = "prefill"]
      /\ left' = [left EXCEPT ![r] = PrefillLaunches]
      /\ UNCHANGED <<lane, kind, count, toks, aborted, seqr, up, down>>
      /\ UNCHANGED <<armed, committed, posted, fallback, jobs, nextId, horizon, job, fatal>>
  BY DEF PrefillStart, Goto, const, hub, member, post, board
<1>1. /\ Runs(r, LocalKinds) /\ Pop(r) /\ state' = [state EXCEPT ![Head(queued[r])] = "prefill"]
      /\ free' = [free EXCEPT ![r] = @ - 1] /\ work' = [work EXCEPT ![r] = Head(queued[r])]
  BY DEF PrefillStart
<1>2. PICK kinds : kinds = LocalKinds
  OBVIOUS
<1>3. Taken(r, "prefill")
  <2>1. PICK where \in Holding \ {"running"} : where = "prefill"
    BY DEF Holding
  <2>2. Runs(r, kinds) /\ state' = [state EXCEPT ![Head(queued[r])] = where]
    BY <1>1, <1>2, <2>1
  <2>3. Taken(r, where)
    BY <1>0, <1>1, <2>2, HeadTaken
  <2> QED
    BY <2>1, <2>3
<1>4. PICK q \in Request : /\ q = Head(queued[r]) /\ Home[q] = r /\ state[q] = "queued"
                           /\ state'[q] = "prefill" /\ \A x \in Request : x # q => state'[x] = state[x]
  BY <1>3 DEF Taken
<1>5. HubTypes' /\ pc[r] \notin AtBoard \cup {"dead"}
  BY <1>0 DEF SlotInv, HubTypes, AtBoard
<1>6. /\ posted[r] = NoPost \/ (/\ posted[r].req \in Request /\ Home[posted[r].req] = r
                                 /\ state'[posted[r].req] = "posted")
      /\ fallback[r] = NoPost \/ (/\ fallback[r].req \in Request /\ Home[fallback[r].req] = r
                                     /\ state'[fallback[r].req] = "fallback")
  BY <1>4, SlotTypes
<1>7. /\ pc' \in [Rank -> Place] /\ pc'[r] = "prefill" /\ work' \in [Rank -> Request \cup {NoReq}]
      /\ work'[r] = q /\ \A p \in Rank : p # r => pc'[p] = pc[p] /\ work'[p] = work[p]
  BY <1>0, <1>1, <1>4, SlotTypes DEF Place
<1>8. left' \in [Rank -> 0..PrefillLaunches]
  BY <1>0, SlotTypes, K3Assumption
<1>9. /\ Slots' /\ Ledger' /\ Queues' /\ Only(r) /\ state' \in [Request -> States]
      /\ free' \in [Rank -> 0..MaxBatch] /\ toks' \in [Request -> 0..MaxTokens]
  BY <1>0, <1>3, SlotTypes DEF Taken
<1>10. /\ posted' \in [Rank -> [req : Request \cup {NoReq}, seq : Int]]
       /\ fallback' \in [Rank -> [req : Request \cup {NoReq}, seq : Int]]
       /\ \A p \in Rank : posted'[p] = posted[p] /\ fallback'[p] = fallback[p]
  BY <1>0, SlotTypes
<1> QED
  BY <1>0, <1>4, <1>5, <1>6, <1>7, <1>8, <1>9, <1>10, RankMoved, SMTT(40)

\* A whale is posted: its request goes up to the sequencer.
LEMMA PostWhaleSlots ==
    ASSUME SlotInv, NEW r \in Rank, PostWhale(r)
    PROVE  SlotInv'
<1>0. /\ pc[r] \in {"admit", "admitHeld"} /\ fallback[r] = NoPost
      /\ UNCHANGED <<lane, kind, count, pc, toks, aborted, work, left, seqr, down>>
      /\ UNCHANGED <<armed, committed, fallback, jobs, nextId, horizon, job, fatal>>
  BY DEF PostWhale, MayPost, const, member, board
<1>1. /\ Runs(r, WhaleKinds) /\ Pop(r) /\ state' = [state EXCEPT ![Head(queued[r])] = "posted"]
      /\ free' = [free EXCEPT ![r] = @ - 1]
      /\ posted' = [posted EXCEPT ![r] = [req |-> Head(queued[r]), seq |-> -1]]
      /\ up' = [up EXCEPT ![r] = Append(@, Stamp([type |-> "Request", req |-> Head(queued[r])]))]
  BY DEF PostWhale
<1>2. PICK kinds : kinds = WhaleKinds
  OBVIOUS
<1>3. Taken(r, "posted")
  <2>1. PICK where \in Holding \ {"running"} : where = "posted"
    BY DEF Holding
  <2>2. Runs(r, kinds) /\ state' = [state EXCEPT ![Head(queued[r])] = where]
    BY <1>1, <1>2, <2>1
  <2>3. Taken(r, where)
    BY <1>0, <1>1, <2>2, HeadTaken
  <2> QED
    BY <2>1, <2>3
<1>4. PICK q \in Request : /\ q = Head(queued[r]) /\ Home[q] = r /\ state[q] = "queued"
                           /\ state'[q] = "posted" /\ \A x \in Request : x # q => state'[x] = state[x]
  BY <1>3 DEF Taken
<1>5. PICK d : d = Stamp([type |-> "Request", req |-> q])
  OBVIOUS
<1>6. d \in Report
  <2>1. Now + Latency \in Nat
    BY NowFacts, K3Assumption DEF SlotInv, TypeOK
  <2>2. [type |-> "Request", req |-> q] \in UpBody
    BY DEF UpBody
  <2> QED
    BY <1>5, <2>1, <2>2 DEF Stamp, Report
<1>7. HubTypes'
  <2>1. HubTypes /\ up \in [Rank -> Seq(Report)]
    BY DEF SlotInv, HubTypes
  <2>2. up' = [up EXCEPT ![r] = Append(@, d)]
    BY <1>1, <1>4, <1>5
  <2>3. Append(up[r], d) \in Seq(Report)
    BY <1>6, <2>1, AppendProperties
  <2>4. up' \in [Rank -> Seq(Report)]
    BY <2>1, <2>2, <2>3
  <2> QED
    BY <1>0, <2>1, <2>4 DEF HubTypes
<1>8. pc[r] \notin AtBoard \cup {"dead"} /\ pc'[r] \in {"admit", "admitHeld"}
  BY <1>0 DEF AtBoard
<1>9. PICK x : x = [req |-> q, seq |-> -1]
  OBVIOUS
<1>10. x \in [req : Request \cup {NoReq}, seq : Int] /\ x.req = q
  BY <1>9
<1>11. /\ posted' \in [Rank -> [req : Request \cup {NoReq}, seq : Int]] /\ posted'[r].req = q
       /\ \A p \in Rank : p # r => posted'[p] = posted[p]
  <2>1. posted' = [posted EXCEPT ![r] = x]
    BY <1>1, <1>4, <1>9
  <2> QED
    BY <1>10, <2>1, SlotTypes
<1>12. \A p \in Rank : p # r => pc'[p] = pc[p] /\ work'[p] = work[p] /\ fallback'[p] = fallback[p]
  BY <1>0
<1>13. /\ Slots' /\ Ledger' /\ Queues' /\ Only(r) /\ state' \in [Request -> States]
       /\ free' \in [Rank -> 0..MaxBatch] /\ toks' \in [Request -> 0..MaxTokens]
  BY <1>0, <1>3, SlotTypes DEF Taken
<1>14. /\ pc' \in [Rank -> Place] /\ work' \in [Rank -> Request \cup {NoReq}]
       /\ left' \in [Rank -> 0..PrefillLaunches] /\ fallback'[r] = NoPost
       /\ fallback' \in [Rank -> [req : Request \cup {NoReq}, seq : Int]]
  BY <1>0, SlotTypes
<1> QED
  BY <1>0, <1>4, <1>7, <1>8, <1>11, <1>12, <1>13, <1>14, RankMoved

\* A job goes on the board.
LEMMA PostJobSlots ==
    ASSUME SlotInv, NEW r \in Rank, PostJob(r)
    PROVE  SlotInv'
<1>0. /\ pc[r] = "admit" /\ pc' = [pc EXCEPT ![r] = "gang"]
      /\ nextId' = nextId + 1 /\ horizon' = [horizon EXCEPT ![r] = nextId]
      /\ UNCHANGED <<lane, kind, count, toks, aborted, left, seqr, up, down>>
      /\ UNCHANGED <<armed, committed, posted, fallback, job, fatal>>
  BY DEF PostJob, Goto, const, hub, member, post
<1>1. /\ Runs(r, GangKinds) /\ Pop(r) /\ state' = [state EXCEPT ![Head(queued[r])] = "prefill"]
      /\ free' = [free EXCEPT ![r] = @ - 1] /\ work' = [work EXCEPT ![r] = Head(queued[r])]
  BY DEF PostJob
<1>2. PICK kinds : kinds = GangKinds
  OBVIOUS
<1>3. Taken(r, "prefill")
  <2>1. PICK where \in Holding \ {"running"} : where = "prefill"
    BY DEF Holding
  <2>2. Runs(r, kinds) /\ state' = [state EXCEPT ![Head(queued[r])] = where]
    BY <1>1, <1>2, <2>1
  <2>3. Taken(r, where)
    BY <1>0, <1>1, <2>2, HeadTaken
  <2> QED
    BY <2>1, <2>3
<1>4. PICK q \in Request : /\ q = Head(queued[r]) /\ Home[q] = r /\ state[q] = "queued"
                           /\ state'[q] = "prefill" /\ \A x \in Request : x # q => state'[x] = state[x]
  BY <1>3 DEF Taken
<1>5. PICK new : new = [req |-> q, entries |-> [p \in Rank |-> -1], done |-> {}]
  OBVIOUS
<1>6. new \in Job /\ new.req = q /\ new.done = {}
  <2>1. [p \in Rank |-> -1] \in [Rank -> Int]
    OBVIOUS
  <2> QED
    BY <1>5, <2>1 DEF Job
<1>7. jobs' = [i \in DOMAIN jobs \cup {nextId} |-> IF i = nextId THEN new ELSE jobs[i]]
  BY <1>4, <1>5 DEF PostJob
<1>8. /\ BoardTypes /\ OwnJob /\ OneJob /\ Computing
      /\ nextId \in Nat /\ horizon \in [Rank -> Int] /\ DOMAIN jobs \subseteq 0..(nextId - 1)
      /\ jobs \in [DOMAIN jobs -> Job]
  BY DEF SlotInv, Board, BoardTypes
<1>9. nextId \notin DOMAIN jobs
  BY <1>8
<1>10. /\ DOMAIN jobs' = DOMAIN jobs \cup {nextId} /\ jobs'[nextId] = new
       /\ \A i \in DOMAIN jobs : jobs'[i] = jobs[i] /\ i # nextId
       /\ jobs' \in [DOMAIN jobs' -> Job]
  BY <1>6, <1>7, <1>8, <1>9
<1>11. /\ pc' \in [Rank -> Place] /\ pc'[r] = "gang" /\ work' \in [Rank -> Request \cup {NoReq}]
       /\ work'[r] = q /\ \A p \in Rank : p # r => pc'[p] = pc[p] /\ work'[p] = work[p]
       /\ horizon' \in [Rank -> Int] /\ horizon'[r] = nextId
       /\ \A p \in Rank : p # r => horizon'[p] = horizon[p]
  BY <1>0, <1>1, <1>4, <1>8, SlotTypes DEF Place
<1>12. \A i \in DOMAIN jobs : jobs[i].req \in Request /\ Home[jobs[i].req] \in Rank
  BY <1>8, K3Assumption DEF Job
<1>13. \A i \in DOMAIN jobs : Home[jobs[i].req] \notin jobs[i].done => Home[jobs[i].req] # r
  BY <1>0, <1>8 DEF OwnJob, Owed, AtBoard
<1>14. \A i \in DOMAIN jobs' : i = nextId \/ i \in DOMAIN jobs
  BY <1>10
<1>15. OwnJob'
  <2> SUFFICES ASSUME NEW i \in DOMAIN jobs', Home[jobs'[i].req] \notin jobs'[i].done
               PROVE  /\ pc'[Home[jobs'[i].req]] \in AtBoard \cup {"dead"}
                      /\ work'[Home[jobs'[i].req]] = jobs'[i].req
                      /\ state'[jobs'[i].req] = "prefill" /\ i <= horizon'[Home[jobs'[i].req]]
    BY DEF OwnJob, Owed
  <2>1. CASE i = nextId
    BY <1>4, <1>6, <1>8, <1>10, <1>11, <2>1 DEF AtBoard
  <2>2. CASE i \in DOMAIN jobs
    <3>1. jobs'[i] = jobs[i] /\ jobs[i].req \in Request
      BY <1>10, <1>12, <2>2
    <3>2. PICK p \in Rank : p = Home[jobs[i].req] /\ p # r /\ p \notin jobs[i].done
      BY <1>12, <1>13, <2>2, <3>1
    <3>3. /\ pc[p] \in AtBoard \cup {"dead"} /\ work[p] = jobs[i].req
          /\ state[jobs[i].req] = "prefill" /\ i <= horizon[p]
      BY <1>8, <2>2, <3>2 DEF OwnJob, Owed
    <3>4. state'[jobs[i].req] = "prefill"
      BY <1>4, <3>1, <3>2, <3>3
    <3> QED
      BY <1>11, <3>1, <3>2, <3>3, <3>4
  <2> QED
    BY <1>14, <2>1, <2>2
<1>16. OneJob'
  <2> SUFFICES ASSUME NEW i \in DOMAIN jobs', NEW j \in DOMAIN jobs',
                      Home[jobs'[i].req] \notin jobs'[i].done, Home[jobs'[j].req] \notin jobs'[j].done,
                      Home[jobs'[i].req] = Home[jobs'[j].req]
               PROVE  i = j
    BY DEF OneJob, Owed
  <2>1. CASE i = nextId \/ j = nextId
    BY <1>4, <1>6, <1>10, <1>13, <1>14, <2>1
  <2>2. CASE i \in DOMAIN jobs /\ j \in DOMAIN jobs
    BY <1>8, <1>10, <2>2 DEF OneJob, Owed
  <2> QED
    BY <1>14, <2>1, <2>2
<1>17. Computing'
  <2> SUFFICES ASSUME NEW p \in Rank, pc'[p] \in {"cp", "cpWait"}
               PROVE  /\ job'[p].seq \in DOMAIN jobs' /\ job'[p].req = jobs'[job'[p].seq].req
                      /\ p \notin jobs'[job'[p].seq].done
    BY DEF Computing
  <2>1. p # r /\ pc[p] \in {"cp", "cpWait"} /\ job'[p] = job[p]
    BY <1>0, <1>11
  <2>2. /\ job[p].seq \in DOMAIN jobs /\ job[p].req = jobs[job[p].seq].req
        /\ p \notin jobs[job[p].seq].done
    BY <1>8, <2>1 DEF Computing
  <2> QED
    BY <1>10, <2>1, <2>2
<1>18. BoardTypes'
  <2>1. DOMAIN jobs' \subseteq 0..(nextId' - 1) /\ nextId' \in Nat
    BY <1>0, <1>8, <1>14
  <2>2. job' \in [Rank -> [seq : Int, req : Request \cup {NoReq}]]
    BY <1>0, <1>8 DEF BoardTypes
  <2> QED
    BY <1>10, <1>11, <2>1, <2>2 DEF BoardTypes
<1>19. Posts'
  <2>1. /\ posted[r] = NoPost \/ (/\ posted[r].req \in Request /\ Home[posted[r].req] = r
                                   /\ state'[posted[r].req] = "posted")
        /\ fallback[r] = NoPost \/ (/\ fallback[r].req \in Request /\ Home[fallback[r].req] = r
                                     /\ state'[fallback[r].req] = "fallback")
    BY <1>4, SlotTypes
  <2>2. /\ posted' \in [Rank -> [req : Request \cup {NoReq}, seq : Int]]
        /\ fallback' \in [Rank -> [req : Request \cup {NoReq}, seq : Int]]
        /\ \A p \in Rank : posted'[p] = posted[p] /\ fallback'[p] = fallback[p]
    BY <1>0, SlotTypes
  <2>3. Posts
    BY DEF SlotInv
  <2> QED
    BY <1>3, <2>1, <2>2, <2>3, PostsAt DEF Taken
<1>20. Works'
  <2>1. Works /\ pc'[r] # "prefill" /\ pc'[r] \notin {"whale", "whaleWait"}
    BY <1>11 DEF SlotInv
  <2>2. \A p \in Rank : p # r => pc'[p] = pc[p] /\ work'[p] = work[p] /\ posted'[p] = posted[p]
    BY <1>0, <1>11
  <2> QED
    BY <1>3, <2>1, <2>2, WorksAt DEF Taken
<1>21. HubTypes' /\ Deployed'
  BY <1>0 DEF SlotInv, HubTypes, Deployed
<1>22. TypeOK'
  BY <1>0, <1>3, <1>11 DEF SlotInv, TypeOK, States, Place, Taken
<1> QED
  BY <1>3, <1>15, <1>16, <1>17, <1>18, <1>19, <1>20, <1>21, <1>22 DEF SlotInv, Board, Taken

\* A segment of a job is done.
LEMMA CpReturnSlots ==
    ASSUME SlotInv, NEW r \in Rank, CpReturn(r)
    PROVE  SlotInv'
<1>0. /\ pc[r] = "cpWait" /\ job' = [job EXCEPT ![r] = None] /\ UNCHANGED queued
      /\ UNCHANGED <<lane, kind, count, aborted, left, seqr, up, down>>
      /\ UNCHANGED <<armed, committed, posted, fallback, nextId, horizon, fatal>>
  BY DEF CpReturn, const, hub, member, post, batch
<1>1. /\ BoardTypes /\ OwnJob /\ OneJob /\ Computing /\ job \in [Rank -> [seq : Int, req : Request \cup {NoReq}]]
      /\ jobs \in [DOMAIN jobs -> Job] /\ pc \in [Rank -> Place] /\ work \in [Rank -> Request \cup {NoReq}]
  BY DEF SlotInv, Board, BoardTypes, TypeOK, Place
<1>2. PICK at : at = job[r].seq
  OBVIOUS
<1>3. at \in DOMAIN jobs /\ job[r].req = jobs[at].req /\ r \notin jobs[at].done
  BY <1>0, <1>1, <1>2 DEF Computing
<1>4. PICK q \in Request : q = jobs[at].req
  BY <1>1, <1>3 DEF Job
<1>5. PICK marked : marked = [jobs EXCEPT ![at].done = @ \cup {r}]
  OBVIOUS
<1>6. jobs' = [id \in {i \in DOMAIN jobs : marked[i].done # Rank} |-> marked[id]]
  BY <1>2, <1>5 DEF CpReturn
<1>7. /\ marked \in [DOMAIN jobs -> Job] /\ DOMAIN marked = DOMAIN jobs
      /\ \A i \in DOMAIN jobs : /\ marked[i].req = jobs[i].req
                                /\ marked[i].done = IF i = at THEN jobs[at].done \cup {r} ELSE jobs[i].done
  <2>1. jobs[at] \in Job
    BY <1>1, <1>3
  <2>2. PICK mk : mk = [jobs[at] EXCEPT !.done = jobs[at].done \cup {r}]
    OBVIOUS
  <2>3. mk \in Job /\ mk.req = jobs[at].req /\ mk.done = jobs[at].done \cup {r}
    BY <2>1, <2>2 DEF Job
  <2>4. marked = [jobs EXCEPT ![at] = mk]
    BY <1>1, <1>3, <1>5, <2>2
  <2> QED
    BY <1>1, <1>3, <2>3, <2>4
<1>8. /\ DOMAIN jobs' \subseteq DOMAIN jobs /\ jobs' \in [DOMAIN jobs' -> Job]
      /\ \A i \in DOMAIN jobs' : jobs'[i].req = jobs[i].req /\ jobs'[i].done = marked[i].done
  BY <1>6, <1>7
<1>9. \A i \in DOMAIN jobs : jobs[i].req \in Request /\ Home[jobs[i].req] \in Rank /\ marked[i].req = jobs[i].req
  BY <1>1, <1>7, K3Assumption DEF Job
<1>10. \A i \in DOMAIN jobs : marked[i].done = Rank => \A p \in Rank : p # r \/ i # at => p \in jobs[i].done
  BY <1>7
<1>11. job' \in [Rank -> [seq : Int, req : Request \cup {NoReq}]] /\ \A p \in Rank : p # r => job'[p] = job[p]
  <2>1. None \in [seq : Int, req : Request \cup {NoReq}]
    BY DEF None
  <2> QED
    BY <1>0, <1>1, <2>1
<1>12. BoardTypes'
  BY <1>0, <1>1, <1>8, <1>11 DEF BoardTypes
<1>13. HubTypes' /\ Deployed'
  BY <1>0 DEF SlotInv, HubTypes, Deployed
<1>14. ASSUME NEW i \in DOMAIN jobs', Home[jobs'[i].req] \notin jobs'[i].done
       PROVE  i \in DOMAIN jobs /\ Home[jobs[i].req] \notin jobs[i].done /\ (i = at => Home[q] # r)
  BY <1>4, <1>7, <1>8, <1>14
<1>15. OneJob'
  BY <1>1, <1>8, <1>14 DEF OneJob, Owed
<1>16. ASSUME NEW p \in Rank, p # r, pc[p] \in {"cp", "cpWait"}, job'[p] = job[p]
       PROVE  /\ job'[p].seq \in DOMAIN jobs' /\ job'[p].req = jobs'[job'[p].seq].req
              /\ p \notin jobs'[job'[p].seq].done
  <2>1. PICK k : k = job[p].seq
    OBVIOUS
  <2>2. k \in DOMAIN jobs /\ job[p].req = jobs[k].req /\ p \notin jobs[k].done
    BY <1>1, <1>16, <2>1 DEF Computing
  <2>3. p \notin marked[k].done /\ marked[k].done # Rank
    BY <1>7, <1>16, <2>2
  <2>4. k \in DOMAIN jobs'
    BY <1>6, <2>2, <2>3
  <2> QED
    BY <1>8, <1>16, <2>1, <2>2, <2>3, <2>4
<1>17. CASE Home[job[r].req] = r
  <2>1. /\ CommitFirstToken(r, work[r]) /\ work' = [work EXCEPT ![r] = NoReq]
        /\ pc' = [pc EXCEPT ![r] = "admit"]
    BY <1>17 DEF CpReturn, Goto
  <2>2. Home[q] = r /\ Home[jobs[at].req] \notin jobs[at].done
    BY <1>3, <1>4, <1>17
  <2>3. work[r] = q /\ state[q] = "prefill"
    BY <1>1, <1>3, <1>4, <2>2 DEF OwnJob, Owed
  <2>4. {q} \subseteq HeldBy(r) /\ state[q] \in Holding \ {"running"}
    BY <2>2, <2>3 DEF HeldBy, Holding
  <2>5. Answered(r, {q})
    BY <2>1, <2>2, <2>3, <2>4, SlotTypes, FirstToken
  <2>6. Queues' /\ Only(r)
    BY <1>0, <2>4, <2>5, AnsweredQueues
  <2>7. /\ pc' \in [Rank -> Place] /\ pc'[r] = "admit" /\ work' \in [Rank -> Request \cup {NoReq}]
        /\ \A p \in Rank : p # r => pc'[p] = pc[p] /\ work'[p] = work[p]
    BY <1>1, <2>1 DEF Place
  <2>8. /\ Slots' /\ Ledger' /\ state' \in [Request -> States] /\ free' \in [Rank -> 0..MaxBatch]
        /\ toks' \in [Request -> 0..MaxTokens] /\ \A x \in Request : x # q => state'[x] = state[x]
    BY <2>5 DEF Answered
  <2>9. TypeOK'
    BY <1>0, <2>7, <2>8 DEF SlotInv, TypeOK, States, Place
  <2>10. Posts'
    <3>1. /\ posted[r] = NoPost \/ (/\ posted[r].req \in Request /\ Home[posted[r].req] = r
                                    /\ state'[posted[r].req] = "posted")
          /\ fallback[r] = NoPost \/ (/\ fallback[r].req \in Request /\ Home[fallback[r].req] = r
                                      /\ state'[fallback[r].req] = "fallback")
      BY <2>3, <2>8, SlotTypes
    <3>2. /\ posted' \in [Rank -> [req : Request \cup {NoReq}, seq : Int]]
          /\ fallback' \in [Rank -> [req : Request \cup {NoReq}, seq : Int]]
          /\ \A p \in Rank : posted'[p] = posted[p] /\ fallback'[p] = fallback[p]
      BY <1>0, SlotTypes
    <3>3. Posts
      BY DEF SlotInv
    <3> QED
      BY <2>6, <3>1, <3>2, <3>3, PostsAt
  <2>11. Works'
    <3>1. Works /\ pc'[r] # "prefill" /\ pc'[r] \notin {"whale", "whaleWait"}
      BY <2>7 DEF SlotInv
    <3>2. \A p \in Rank : p # r => pc'[p] = pc[p] /\ work'[p] = work[p] /\ posted'[p] = posted[p]
      BY <1>0, <2>7
    <3> QED
      BY <2>6, <3>1, <3>2, WorksAt
  <2>12. OwnJob'
    <3> SUFFICES ASSUME NEW i \in DOMAIN jobs', Home[jobs'[i].req] \notin jobs'[i].done
                 PROVE  /\ pc'[Home[jobs'[i].req]] \in AtBoard \cup {"dead"}
                        /\ work'[Home[jobs'[i].req]] = jobs'[i].req
                        /\ state'[jobs'[i].req] = "prefill" /\ i <= horizon'[Home[jobs'[i].req]]
      BY DEF OwnJob, Owed
    <3>1. /\ i \in DOMAIN jobs /\ Home[jobs[i].req] \notin jobs[i].done /\ i # at
          /\ jobs'[i].req = jobs[i].req
      BY <1>8, <1>14, <2>2
    <3>2. PICK p \in Rank : p = Home[jobs[i].req]
      BY <1>9, <3>1
    <3>3. p # r
      BY <1>1, <1>3, <1>4, <2>2, <3>1, <3>2 DEF OneJob, Owed
    <3>4. /\ pc[p] \in AtBoard \cup {"dead"} /\ work[p] = jobs[i].req
          /\ state[jobs[i].req] = "prefill" /\ i <= horizon[p]
      BY <1>1, <3>1, <3>2 DEF OwnJob, Owed
    <3>5. state'[jobs[i].req] = "prefill"
      BY <1>9, <2>2, <2>8, <3>1, <3>2, <3>3, <3>4
    <3> QED
      BY <1>0, <2>7, <3>1, <3>2, <3>3, <3>4, <3>5
  <2>13. Computing'
    <3>1. \A p \in Rank : pc'[p] \in {"cp", "cpWait"} => p # r /\ pc[p] \in {"cp", "cpWait"} /\ job'[p] = job[p]
      BY <1>11, <2>7
    <3> QED
      BY <1>16, <3>1 DEF Computing
  <2> QED
    BY <1>12, <1>13, <1>15, <2>6, <2>8, <2>9, <2>10, <2>11, <2>12, <2>13 DEF SlotInv, Board
<1>18. CASE Home[job[r].req] # r
  <2>1. pc' = [pc EXCEPT ![r] = "gang"] /\ UNCHANGED batch /\ UNCHANGED work
    BY <1>18 DEF CpReturn, Goto
  <2>2. Slots' /\ Ledger' /\ Queues' /\ UNCHANGED <<state, toks, free>>
    BY <2>1, BatchKept DEF batch
  <2>3. pc' \in [Rank -> Place] /\ pc'[r] = "gang" /\ \A p \in Rank : p # r => pc'[p] = pc[p]
    BY <1>1, <2>1 DEF Place
  <2>4. TypeOK'
    BY <1>0, <2>1, <2>2, <2>3 DEF SlotInv, TypeOK, Place
  <2>5. Posts'
    BY <1>0, <2>2 DEF SlotInv, Posts, Hers
  <2>6. Works'
    BY <1>0, <2>1, <2>2, <2>3 DEF SlotInv, Works, Hers
  <2>7. OwnJob'
    <3> SUFFICES ASSUME NEW i \in DOMAIN jobs', Home[jobs'[i].req] \notin jobs'[i].done
                 PROVE  /\ pc'[Home[jobs'[i].req]] \in AtBoard \cup {"dead"}
                        /\ work'[Home[jobs'[i].req]] = jobs'[i].req
                        /\ state'[jobs'[i].req] = "prefill" /\ i <= horizon'[Home[jobs'[i].req]]
      BY DEF OwnJob, Owed
    <3>1. /\ i \in DOMAIN jobs /\ Home[jobs[i].req] \notin jobs[i].done /\ jobs'[i].req = jobs[i].req
      BY <1>8, <1>14
    <3>2. PICK p \in Rank : p = Home[jobs[i].req]
      BY <1>9, <3>1
    <3>3. /\ pc[p] \in AtBoard \cup {"dead"} /\ work[p] = jobs[i].req
          /\ state[jobs[i].req] = "prefill" /\ i <= horizon[p]
      BY <1>1, <3>1, <3>2 DEF OwnJob, Owed
    <3>4. pc'[p] \in AtBoard \cup {"dead"}
      BY <2>3, <3>3 DEF AtBoard
    <3> QED
      BY <1>0, <2>1, <2>2, <3>1, <3>2, <3>3, <3>4
  <2>8. Computing'
    <3>1. \A p \in Rank : pc'[p] \in {"cp", "cpWait"} => p # r /\ pc[p] \in {"cp", "cpWait"} /\ job'[p] = job[p]
      BY <1>11, <2>3
    <3> QED
      BY <1>16, <3>1 DEF Computing
  <2> QED
    BY <1>12, <1>13, <1>15, <2>2, <2>4, <2>5, <2>6, <2>7, <2>8 DEF SlotInv, Board
<1> QED
  BY <1>17, <1>18

-----------------------------------------------------------------------------
(* The invariant.                                                          *)

\* It holds before the first step.
LEMMA InitSlots ==
    ASSUME Init
    PROVE  SlotInv
<1> USE DEF Init
<1>1. Deployed
  <2>1. PICK s \in Setups : lane = s.lane /\ kind = s.kind
    OBVIOUS
  <2>2. s \in [lane : {"whale", "cp"}, kind : [Request -> Kind]]
    BY K3Assumption
  <2> QED
    BY <2>1, <2>2 DEF Deployed
<1>2. TypeOK
  BY K3Assumption DEF TypeOK
<1>3. Slots
  <2>1. \A r \in Rank : HeldBy(r) = {} /\ free[r] = MaxBatch
    BY DEF HeldBy, Holding
  <2>2. IsFiniteSet({}) /\ Cardinality({}) = 0
    <3>1. IsFiniteSet({})
      BY FS_EmptySet
    <3> QED
      BY <3>1, FS_EmptySet
  <2>3. MaxBatch + 0 = MaxBatch
    BY K3Assumption
  <2> QED
    BY <2>1, <2>2, <2>3 DEF Slots
<1>4. Ledger
  BY DEF Ledger
<1>5. Queues
  BY DEF Queues
<1>6. Posts
  BY DEF Posts, NoPost
<1>7. Works
  BY DEF Works
<1>8. Board
  BY DEF Board, BoardTypes, OwnJob, OneJob, Computing, None
<1>9. HubTypes
  <2>1. PICK A : A = Whale \cup {None}
    OBVIOUS
  <2>2. PICK B : B = SUBSET [rank : Rank, count : 0..MaxLaunch]
    OBVIOUS
  <2>3. PICK Q : Q = Seq(Request)
    OBVIOUS
  <2>4. None \in A /\ {} \in B /\ <<>> \in Q
    BY <2>1, <2>2, <2>3
  <2>5. seqr \in [next : Nat, floor : Int, gathering : A, replies : B, queue : Q] /\ seqr.floor >= -1
    BY <2>4
  <2>6. seqr \in Sequencer
    BY <2>1, <2>2, <2>3, <2>5 DEF Sequencer
  <2>7. <<>> \in Seq(Report) /\ <<>> \in Seq(Letter) /\ <<>> \in Seq(Agreed) /\ {} \in SUBSET Whale
    OBVIOUS
  <2>8. up \in [Rank -> Seq(Report)] /\ down \in [Rank -> Seq(Letter)]
    BY <2>7
  <2>9. armed \in [Rank -> SUBSET Whale] /\ committed \in [Rank -> Seq(Agreed)]
    BY <2>7
  <2> QED
    BY <2>5, <2>6, <2>8, <2>9 DEF HubTypes
<1> QED
  BY <1>1, <1>2, <1>3, <1>4, <1>5, <1>6, <1>7, <1>8, <1>9 DEF SlotInv

\* Every step keeps it.
LEMMA NextSlots ==
    ASSUME SlotInv, [Next]_vars
    PROVE  SlotInv'
<1>1. ASSUME NEW r \in Rank, RankStep(r) PROVE SlotInv'
  BY <1>1, StepStartSlots, ServeMessageSlots, ServeEnterSlots, ServeFreeSlots, LaunchSlots,
     WhaleReturnSlots, AdmitVerdictSlots, PostWhaleSlots, PrefillStartSlots, PrefillLaunchSlots,
     PrefillReturnSlots, PostJobSlots, GangPassSlots, CpReturnSlots, DecodeLaunchSlots,
     DecodeReturnSlots DEF RankStep
<1>2. ASSUME NEW r \in Rank, SequencerStep(r) PROVE SlotInv'
  BY <1>2, SequencerSlots
<1>3. CASE GatherTimeout
  BY <1>3, TimeoutSlots
<1>4. ASSUME NEW q \in Request, Submit(q) PROVE SlotInv'
  BY <1>4, SubmitSlots
<1>5. CASE (\E q \in Request : Abort(q)) \/ UNCHANGED vars
  BY <1>5, AbortSlots
<1> QED
  BY <1>1, <1>2, <1>3, <1>4, <1>5 DEF Next, Progress, Horizon

\* Slots, ledger, queues, posts, work, board and hub agree in every reachable
\* state, whatever the ranks, the sequencer and the clients do.
THEOREM SlotsInvariant == Spec => []SlotInv
<1>1. Init => SlotInv
  BY InitSlots
<1>2. SlotInv /\ [Next]_vars => SlotInv'
  BY NextSlots
<1> QED
  BY <1>1, <1>2, PTL DEF Spec

\* Every variable has its type: no count of slots, tokens or launches leaves
\* its range on any path (mod.rs, whale.rs, gang.rs).
THEOREM K3Types == Spec => []TypeOK
<1>1. SlotInv => TypeOK
  BY DEF SlotInv
<1> QED
  BY <1>1, SlotsInvariant, PTL

\* Slots are conserved: every slot of a rank is free or held by exactly one
\* request, through posts, cancelled whales, board jobs, failed prefills and
\* aborts (mod.rs release_slot and its callers).
THEOREM SlotsConservedHolds == Spec => []SlotsConserved
<1>1. ASSUME SlotInv PROVE SlotsConserved
  <2>1. \A r \in Rank : free[r] + Cardinality(HeldBy(r)) = MaxBatch
    BY <1>1 DEF SlotInv, Slots
  <2> QED
    BY <2>1 DEF SlotsConserved, HeldBy, Holding
<1>2. SlotInv => SlotsConserved
  BY <1>1
<1> QED
  BY <1>2, SlotsInvariant, PTL
=============================================================================
