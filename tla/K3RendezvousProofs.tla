-------------------------- MODULE K3RendezvousProofs --------------------------
(***************************************************************************)
(* Agreement of the K3 ranks on whales, for any world, gang width, slots,  *)
(* requests and deployments, any message latency and any commit slack that *)
(* covers a round trip of it: no rank takes an engine-fatal path, a whale  *)
(* that fell back was cancelled everywhere, and everyone enters a          *)
(* superstep at the same launch.                                           *)
(***************************************************************************)
EXTENDS K3SchedulerProofs

-----------------------------------------------------------------------------
(* The rendezvous: time.                                                   *)

\* Where a rank may have a launch that is not complete.
Waiting == {"whaleWait", "prefill", "pumpWait", "cpWait", "decodeWait"}

\* No rank died; no launch is more than one ahead, and only a rank that waits
\* has an unpaired one.
Pace ==
    /\ fatal = {} /\ \A r \in Rank : pc[r] # "dead"
    /\ \A r, p \in Rank : count[r] <= count[p] + 1
    /\ \A r \in Rank : pc[r] \notin Waiting => Paired(r)

\* Where a rank may make several launches before it reads its mailbox.
Busy == AtBoard \cup {"admit", "prefill"}

\* The armed lane is the only one in use, and a busy member has no whale to enter.
Lanes ==
    /\ lane = "cp" => /\ seqr.gathering = None
                      /\ \A r \in Rank : up[r] = <<>> /\ down[r] = <<>> /\ IsQuiet(r)
    /\ lane = "whale" => \A r \in Rank : pc[r] \notin AtBoard
    /\ \A r \in Rank : pc[r] \in Busy => IsQuiet(r)

\* The launch a rank is bound to have made when it next reads its mailbox.
Reach(r) == IF pc[r] \in {"admitHeld", "whale"} THEN count[r] + 1 ELSE count[r]

\* Reports are read, and commits handed over, before the agreed launch comes.
Reported(u) == \A r \in Rank : \A i \in 1..Len(u[r]) :
    /\ \A p \in Rank : count[p] <= u[r][i].due
    /\ u[r][i].m.type = "Ready" => u[r][i].due <= u[r][i].m.count + 1 + Latency
Promised(dn) == \A r \in Rank : \A i \in 1..Len(dn[r]) :
    /\ \E p \in Rank : dn[r][i].due <= count[p] + Latency
    /\ dn[r][i].m.type = "Commit" => dn[r][i].due < dn[r][i].m.launch /\ Reach(r) <= dn[r][i].due
Ahead == \A r \in Rank : \A i \in 1..Len(committed[r]) : Reach(r) <= committed[r][i].launch

-----------------------------------------------------------------------------
(* The rendezvous: the sequencer's minutes.                                *)

\* The numbers a sequencer has given out, and its minutes: for each number its
\* request and what became of it, a launch unless it is open or was dropped.
Numbers(s) == 0..(s.next - 1)
Open == -2
Dropped == -1
Entry == [req : Request, fate : Int]
Minutes(s, T) ==
    /\ T \in [Numbers(s) -> Entry]
    /\ \A k \in Numbers(s) : /\ T[k].fate >= Open /\ T[k].fate <= s.floor
                             /\ T[k].fate = Open <=> k = s.gathering.seq
                             /\ state[T[k].req] \notin {"new", "queued"}
    /\ \A j, k \in Numbers(s) : /\ T[j].req = T[k].req => j = k
                                /\ j < k /\ T[j].fate >= 0 /\ T[k].fate >= 0 => T[j].fate < T[k].fate
    /\ s.gathering # None => /\ s.gathering.seq = s.next - 1 /\ s.next > 0
                             /\ T[s.next - 1].req = s.gathering.req

\* What a member holds, reads and has entered is what the minutes say.
Fits(s, T, r, m) ==
    /\ m.seq \in Numbers(s)
    /\ m.type = "Gather" => m.req = T[m.seq].req /\ T[m.seq].fate < 0
    /\ m.type = "Cancel" => T[m.seq].fate = Dropped
    /\ m.type = "Commit" => T[m.seq].fate = m.launch /\ \E d \in armed[r] : d.seq = m.seq
Letters(s, dn, T) == \A r \in Rank : \A i \in 1..Len(dn[r]) : Fits(s, T, r, dn[r][i].m)
Armed(s, T) == \A r \in Rank : \A d \in armed[r] : d.seq \in Numbers(s) /\ d.req = T[d.seq].req
Agreement(s, dn, T) == \A r \in Rank : \A i \in 1..Len(committed[r]) :
    /\ committed[r][i].seq \in Numbers(s) /\ committed[r][i].req = T[committed[r][i].seq].req
    /\ committed[r][i].launch = T[committed[r][i].seq].fate
    /\ \A d \in armed[r] : d.seq # committed[r][i].seq
    /\ \A j \in 1..Len(committed[r]) : i < j => committed[r][i].seq < committed[r][j].seq
    /\ \A j \in 1..Len(dn[r]) : dn[r][j].m.type = "Commit" => committed[r][i].seq < dn[r][j].m.seq
Boarded(s, T) == lane = "whale" =>
    \A e \in entered : e[1] \in Numbers(s) /\ e[3] = T[e[1]].fate /\ e[3] >= 0

\* Letters to one member come in the order of their numbers, and are due so;
\* two are about one whale only if a gather and its cancel.
Follows(a, b) ==
    /\ a.due <= b.due /\ a.m.seq <= b.m.seq
    /\ a.m.seq = b.m.seq => a.m.type = "Gather" /\ b.m.type = "Cancel"
Ordered(dn) == \A r \in Rank : \A i, j \in 1..Len(dn[r]) : i < j => Follows(dn[r][i], dn[r][j])

\* The whale being gathered: each member of its gang is still to read the
\* gather, has a reply in flight, or has replied; nobody else has to do with it.
Asked(s, dn, r) == \E i \in 1..Len(dn[r]) : dn[r][i].m.seq = s.gathering.seq
SaidAt(s, u, r, i) == u[r][i].m.type = "Ready" /\ u[r][i].m.seq = s.gathering.seq
Said(s, u, r) == \E i \in 1..Len(u[r]) : SaidAt(s, u, r, i)
Heard(s, r) == \E e \in s.replies : e.rank = r
Gathering(s, u, dn) ==
    s.gathering # None => \A r \in Rank :
        /\ r \in Gang(Home[s.gathering.req]) <=> Asked(s, dn, r) \/ Said(s, u, r) \/ Heard(s, r)
        /\ Asked(s, dn, r) => ~ Said(s, u, r) /\ ~ Heard(s, r)
        /\ Said(s, u, r) => ~ Heard(s, r)
        /\ Said(s, u, r) \/ Heard(s, r) => \E d \in armed[r] : d.seq = s.gathering.seq
        /\ \A i, j \in 1..Len(u[r]) : SaidAt(s, u, r, i) /\ SaidAt(s, u, r, j) => i = j

\* No reply is about a whale that has no number yet.
Replies(s, u) == \A r \in Rank : \A i \in 1..Len(u[r]) :
    u[r][i].m.type = "Ready" => u[r][i].m.seq \in Numbers(s)

\* The outstanding post of a request's rank is that request, under that number.
Own(q, n) == posted[Home[q]].req = q /\ posted[Home[q]].seq = n
Unnumbered(s, T, q) == \A k \in Numbers(s) : T[k].req # q

\* A whale's owner waits for it wherever it is.
Asking(s, u, T) == \A r \in Rank : \A i \in 1..Len(u[r]) : u[r][i].m.type = "Request" =>
    /\ Home[u[r][i].m.req] = r /\ Own(u[r][i].m.req, -1) /\ Unnumbered(s, T, u[r][i].m.req)
    /\ \A j \in 1..Len(u[r]) : u[r][j].m.type = "Request" => i = j
    /\ \A j \in 1..Len(s.queue) : s.queue[j] # u[r][i].m.req
InLine(s, T) == \A i \in 1..Len(s.queue) :
    /\ Own(s.queue[i], -1) /\ Unnumbered(s, T, s.queue[i])
    /\ \A j \in 1..Len(s.queue) : s.queue[i] = s.queue[j] => i = j
Awaited(s, dn) ==
    /\ s.gathering # None => posted[Home[s.gathering.req]].req = s.gathering.req
    /\ \A r \in Rank :
           /\ \A i \in 1..Len(dn[r]) :
                  dn[r][i].m.type = "Gather" /\ Home[dn[r][i].m.req] = r => Own(dn[r][i].m.req, -1)
           /\ \A d \in armed[r] : Home[d.req] = r => Own(d.req, d.seq)
           /\ \A i \in 1..Len(committed[r]) :
                  Home[committed[r][i].req] = r => Own(committed[r][i].req, committed[r][i].seq)
Numbered(s, T) == \A r \in Rank : posted[r].seq # -1 =>
    posted[r].seq \in Numbers(s) /\ T[posted[r].seq].req = posted[r].req

\* A cancel without a gather refuses the rank's own post.
Bare(dn, r, i) ==
    /\ dn[r][i].m.type = "Cancel"
    /\ \A d \in armed[r] : d.seq # dn[r][i].m.seq
    /\ \A j \in 1..(i - 1) : dn[r][j].m.seq # dn[r][i].m.seq
Refusals(dn, T) == \A r \in Rank : \A i \in 1..Len(dn[r]) : Bare(dn, r, i) =>
    posted[r].req = T[dn[r][i].m.seq].req /\ posted[r].seq = -1

\* A request that fell back is not on the way to an agreement.
Fallbacks(s, T) == \A r \in Rank : fallback[r] # NoPost =>
    \A k \in Numbers(s) : T[k].req = fallback[r].req => T[k].fate = Dropped

\* The books of sequencer s with the links u and dn agree with the minutes T.
Books(s, u, dn, T) ==
    /\ Minutes(s, T) /\ Letters(s, dn, T) /\ Ordered(dn) /\ Armed(s, T) /\ Agreement(s, dn, T)
    /\ Boarded(s, T) /\ Gathering(s, u, dn) /\ Replies(s, u) /\ Asking(s, u, T) /\ InLine(s, T)
    /\ Awaited(s, dn) /\ Numbered(s, T) /\ Refusals(dn, T) /\ Fallbacks(s, T)

Clock == Pace /\ Lanes /\ Reported(up) /\ Promised(down) /\ Ahead
Pact == SlotInv /\ Clock /\ \E T : Books(seqr, up, down, T)

-----------------------------------------------------------------------------
(* The rendezvous: sequences of messages.                                  *)

\* The slack covers a round trip.
LEMMA TimeFacts == Latency \in Nat /\ Latency >= 1 /\ Slack \in Nat /\ 2 * Latency + 1 < Slack
  BY K3Assumption

\* The fields of a letter, a report and a committed whale.
LEMMA BodyFacts ==
    /\ \A l \in Letter : /\ l.due \in Nat /\ l.m.seq \in Nat /\ l.m.type \in {"Gather", "Commit", "Cancel"}
                         /\ l.m.type = "Gather" => l.m.req \in Request
                         /\ l.m.type = "Commit" => l.m.launch \in Nat
    /\ \A l \in Report : /\ l.due \in Nat /\ l.m.type \in {"Request", "Ready"}
                         /\ l.m.type = "Request" => l.m.req \in Request
                         /\ l.m.type = "Ready" => l.m.seq \in Nat /\ l.m.count \in Nat
    /\ \A w \in Agreed : w.seq \in Nat /\ w.req \in Request /\ w.launch \in Nat
    /\ \A d \in Whale : d.seq \in Nat /\ d.req \in Request
  BY DEF Letter, DownBody, Report, UpBody, Agreed, Whale

\* What the links and the members hold has those fields.
LEMMA LinkTypes ==
    ASSUME NEW L, NEW q \in [Rank -> Seq(L)], NEW r \in Rank
    PROVE  q[r] \in Seq(L) /\ Len(q[r]) \in Nat /\ \A i \in 1..Len(q[r]) : q[r][i] \in L
<1>1. q[r] \in Seq(L)
  OBVIOUS
<1> QED
  BY <1>1, ElementOfSeq, LenProperties

\* Reading takes the first off a link, ...
LEMMA TailFacts ==
    ASSUME NEW L, NEW q \in Seq(L), q # <<>>
    PROVE  /\ Tail(q) \in Seq(L) /\ Len(q) \in Nat /\ Len(q) >= 1 /\ Len(Tail(q)) = Len(q) - 1
           /\ Head(q) = q[1] /\ q[1] \in L
           /\ \A i \in 1..Len(Tail(q)) : i + 1 \in 1..Len(q) /\ Tail(q)[i] = q[i + 1]
<1>1. Len(q) \in Nat /\ Len(q) # 0
  BY LenProperties, EmptySeq
<1>2. Tail(q) \in Seq(L) /\ Len(Tail(q)) = Len(q) - 1
  BY HeadTailProperties
<1>3. Head(q) = q[1] /\ q[1] \in L
  BY <1>1, ElementOfSeq
<1>4. \A i \in 1..(Len(q) - 1) : Tail(q)[i] = q[i + 1]
  BY HeadTailProperties
<1> QED
  BY <1>1, <1>2, <1>3, <1>4

\* ... and sending puts one at its end.
LEMMA AppendFacts ==
    ASSUME NEW L, NEW q \in Seq(L), NEW x \in L
    PROVE  /\ Append(q, x) \in Seq(L) /\ Len(q) \in Nat /\ Len(Append(q, x)) = Len(q) + 1
           /\ Append(q, x)[Len(q) + 1] = x /\ \A i \in 1..Len(q) : Append(q, x)[i] = q[i]
           /\ \A i \in 1..Len(Append(q, x)) : i = Len(q) + 1 \/ i \in 1..Len(q)
<1>1. Len(q) \in Nat
  BY LenProperties
<1> QED
  BY <1>1, AppendProperties

\* The letters on their way stay true while the links, the numbers and the
\* members' arms stand.
LEMMA LettersKept ==
    ASSUME NEW T, Letters(seqr, down, T), UNCHANGED <<seqr, down, armed>>
    PROVE  Letters(seqr, down, T)'
  BY ZenonT(40) DEF Letters, Fits, Numbers

\* What a step leaves of the whales owed to their owners, link by link.
LEMMA AwaitedBy ==
    ASSUME seqr'.gathering # None => posted'[Home[seqr'.gathering.req]].req = seqr'.gathering.req,
           ASSUME NEW p \in Rank, NEW i \in 1..Len(down'[p]),
                  down'[p][i].m.type = "Gather", Home[down'[p][i].m.req] = p
           PROVE  posted'[p].req = down'[p][i].m.req /\ posted'[p].seq = -1,
           ASSUME NEW p \in Rank, NEW d \in armed'[p], Home[d.req] = p
           PROVE  posted'[p].req = d.req /\ posted'[p].seq = d.seq,
           ASSUME NEW p \in Rank, NEW i \in 1..Len(committed'[p]), Home[committed'[p][i].req] = p
           PROVE  posted'[p].req = committed'[p][i].req /\ posted'[p].seq = committed'[p][i].seq
    PROVE  Awaited(seqr, down)'
<1>1. ASSUME NEW p \in Rank, NEW i \in 1..Len(down'[p]),
             down'[p][i].m.type = "Gather", Home[down'[p][i].m.req] = p
      PROVE  Own(down[p][i].m.req, -1)'
  <2>1. PICK q : q = down'[p][i].m.req
    OBVIOUS
  <2>2. posted'[p].req = q /\ posted'[p].seq = -1 /\ Home[q] = p
    BY <1>1, <2>1
  <2> QED
    BY <2>1, <2>2 DEF Own
<1>2. ASSUME NEW p \in Rank, NEW d \in armed'[p], Home[d.req] = p
      PROVE  posted'[Home[d.req]].req = d.req /\ posted'[Home[d.req]].seq = d.seq
  BY <1>2
<1>3. ASSUME NEW p \in Rank, NEW i \in 1..Len(committed'[p]), Home[committed'[p][i].req] = p
      PROVE  Own(committed[p][i].req, committed[p][i].seq)'
  <2>1. PICK w : w = committed'[p][i]
    OBVIOUS
  <2>2. posted'[p].req = w.req /\ posted'[p].seq = w.seq /\ Home[w.req] = p
    BY <1>3, <2>1
  <2> QED
    BY <2>1, <2>2 DEF Own
<1> QED
  BY <1>1, <1>2, <1>3, ZenonT(40) DEF Awaited, Own

\* A whale that is asked for stays asked for while the requests and the queue
\* stand and its owner's post does.
LEMMA AskingKept ==
    ASSUME NEW T, Asking(seqr, up, T), UNCHANGED <<seqr, up>>,
           ASSUME NEW p \in Rank, NEW i \in 1..Len(up[p]), up[p][i].m.type = "Request"
           PROVE  posted'[Home[up[p][i].m.req]] = posted[Home[up[p][i].m.req]]
    PROVE  Asking(seqr, up, T)'
<1>1. ASSUME NEW p \in Rank, NEW i \in 1..Len(up[p]), up[p][i].m.type = "Request",
             NEW x, x = up[p][i].m.req
      PROVE  /\ Home[x] = p /\ posted'[Home[x]].req = x /\ posted'[Home[x]].seq = -1
             /\ \A j \in 1..Len(up[p]) : up[p][j].m.type = "Request" => i = j
             /\ \A j \in 1..Len(seqr.queue) : seqr.queue[j] # x
             /\ \A k \in Numbers(seqr) : T[k].req # x
  <2>1. /\ Home[x] = p /\ posted[Home[x]].req = x /\ posted[Home[x]].seq = -1
        /\ \A j \in 1..Len(up[p]) : up[p][j].m.type = "Request" => i = j
    BY <1>1, ZenonT(40) DEF Asking, Own
  <2>2. \A j \in 1..Len(seqr.queue) : seqr.queue[j] # x
    BY <1>1 DEF Asking
  <2>3. \A k \in Numbers(seqr) : T[k].req # x
    BY <1>1 DEF Asking, Unnumbered
  <2>4. posted'[Home[x]] = posted[Home[x]]
    BY <1>1
  <2> QED
    BY <2>1, <2>2, <2>3, <2>4
<1>2. Numbers(seqr)' = Numbers(seqr)
  BY DEF Numbers
<1>3. ASSUME NEW p \in Rank, NEW i \in 1..Len(up'[p]), up'[p][i].m.type = "Request"
      PROVE  /\ Home[up'[p][i].m.req] = p /\ Own(up[p][i].m.req, -1)'
             /\ \A j \in 1..Len(up'[p]) : up'[p][j].m.type = "Request" => i = j
             /\ \A j \in 1..Len(seqr'.queue) : seqr'.queue[j] # up'[p][i].m.req
             /\ Unnumbered(seqr, T, up[p][i].m.req)'
  <2>1. up' = up /\ seqr' = seqr
    OBVIOUS
  <2>2. PICK x : x = up[p][i].m.req
    OBVIOUS
  <2>3. /\ Home[x] = p /\ posted'[Home[x]].req = x /\ posted'[Home[x]].seq = -1
        /\ \A j \in 1..Len(up[p]) : up[p][j].m.type = "Request" => i = j
        /\ \A j \in 1..Len(seqr.queue) : seqr.queue[j] # x
        /\ \A k \in Numbers(seqr) : T[k].req # x
    BY <1>1, <1>3, <2>1, <2>2
  <2>4. Own(up[p][i].m.req, -1)'
    BY <2>1, <2>2, <2>3 DEF Own
  <2>5. Unnumbered(seqr, T, up[p][i].m.req)'
    BY <1>2, <2>1, <2>2, <2>3 DEF Unnumbered
  <2> QED
    BY <2>1, <2>2, <2>3, <2>4, <2>5
<1> QED
  BY <1>3 DEF Asking

-----------------------------------------------------------------------------
(* The rendezvous: steps that leave it alone.                              *)

\* A step outside the rendezvous: what was numbered stays so, a fallback may be
\* taken up, and only the board's lane enters supersteps.
Aside ==
    /\ UNCHANGED <<seqr, up, down, armed, committed, posted, lane>>
    /\ \A q \in Request : state[q] \notin {"new", "queued"} => state'[q] \notin {"new", "queued"}
    /\ \A r \in Rank : fallback'[r] \in {fallback[r], NoPost}
    /\ entered' = entered \/ lane = "cp"

\* The books do not see such a step.
LEMMA AsideBooks ==
    ASSUME NEW T, Books(seqr, up, down, T), Aside
    PROVE  Books(seqr, up, down, T)'
<1>1. Minutes(seqr, T)'
  <2>1. \A k \in Numbers(seqr) : T[k].req \in Request
    BY DEF Books, Minutes, Entry
  <2> QED
    BY <2>1 DEF Books, Minutes, Aside, Numbers
<1>2. Letters(seqr, down, T)' /\ Ordered(down)' /\ Armed(seqr, T)' /\ Agreement(seqr, down, T)'
  <2>1. Letters(seqr, down, T)'
    BY SMTT(60) DEF Books, Aside, Letters, Fits, Numbers
  <2>2. Ordered(down)'
    BY DEF Books, Aside, Ordered, Follows
  <2>3. Armed(seqr, T)'
    BY DEF Books, Aside, Armed, Numbers
  <2>4. Agreement(seqr, down, T)'
    BY DEF Books, Aside, Agreement, Numbers
  <2> QED
    BY <2>1, <2>2, <2>3, <2>4
<1>3. Boarded(seqr, T)'
  BY DEF Books, Aside, Boarded, Numbers
<1>4. Gathering(seqr, up, down)' /\ Replies(seqr, up)'
  <2>1. Gathering(seqr, up, down)'
    BY DEF Books, Aside, Gathering, Asked, Said, SaidAt, Heard, Numbers
  <2>2. Replies(seqr, up)'
    BY DEF Books, Aside, Replies, Numbers
  <2> QED
    BY <2>1, <2>2
<1>5. Asking(seqr, up, T)' /\ InLine(seqr, T)' /\ Awaited(seqr, down)'
  <2>1. Asking(seqr, up, T)'
    <3>1. UNCHANGED <<seqr, up, posted>>
      BY DEF Aside
    <3>2. Asking(seqr, up, T)
      BY DEF Books
    <3> QED
      BY <3>1, <3>2, AskingKept
  <2>2. InLine(seqr, T)'
    BY DEF Books, Aside, InLine, Own, Unnumbered, Numbers
  <2>3. Awaited(seqr, down)'
    <3>1. UNCHANGED <<seqr, down, armed, committed, posted>>
      BY DEF Aside
    <3>2. Awaited(seqr, down)
      BY DEF Books
    <3> QED
      BY <3>1, <3>2, ZenonT(40) DEF Awaited, Own
  <2> QED
    BY <2>1, <2>2, <2>3
<1>6. Numbered(seqr, T)' /\ Refusals(down, T)'
  <2>1. Numbered(seqr, T)'
    BY DEF Books, Aside, Numbered, Numbers
  <2>2. Refusals(down, T)'
    BY DEF Books, Aside, Refusals, Bare
  <2> QED
    BY <2>1, <2>2
<1>7. Fallbacks(seqr, T)'
  BY DEF Books, Aside, Fallbacks, Numbers
<1> QED
  BY <1>1, <1>2, <1>3, <1>4, <1>5, <1>6, <1>7 DEF Books

\* Such a step of rank r, that does not fail.
Elsewhere(r) ==
    /\ Aside /\ fatal' = fatal /\ pc' \in [Rank -> Place] /\ pc'[r] # "dead"
    /\ \A p \in Rank \ {r} : pc'[p] = pc[p]

\* A move of r between two launches, or after one that is complete.
Moves(r) ==
    /\ Elsewhere(r) /\ count' = count
    /\ pc[r] \in Waiting => Paired(r)
    /\ pc'[r] \in AtBoard => lane = "cp"
    /\ pc'[r] \in Busy => lane = "cp" \/ pc[r] \in Busy \/ IsQuiet(r)

\* A launch of r, which then waits for it.
Launches(r) ==
    /\ Elsewhere(r) /\ Launch(r)
    /\ pc[r] \in {"admitHeld", "whale"} \cup Busy
    /\ pc[r] \in Waiting => Paired(r)
    /\ pc'[r] \in Waiting
    /\ pc'[r] \in AtBoard => lane = "cp"
    /\ pc'[r] \in Busy => pc[r] \in Busy

\* A quiet rank has no commit to read.
LEMMA QuietReads ==
    ASSUME NEW T, Letters(seqr, down, T), NEW r \in Rank, IsQuiet(r), NEW i \in 1..Len(down[r])
    PROVE  down[r][i].m.type # "Commit"
  BY DEF Letters, Fits, IsQuiet

\* The clock after a move that does not bind r to a launch.
LEMMA MovesClock ==
    ASSUME SlotInv, Clock, NEW r \in Rank, Moves(r), pc'[r] \notin {"admitHeld", "whale"} \/ pc'[r] = pc[r]
    PROVE  Clock'
<1> USE DEF Moves, Elsewhere, Aside
<1>1. Pace'
  BY DEF Clock, Pace, Paired
<1>2. Lanes'
  BY DEF Clock, Lanes, IsQuiet
<1>3. Reported(up)'
  BY DEF Clock, Reported
<1>4. \A p \in Rank : Reach(p)' <= Reach(p)
  BY DEF Reach, SlotInv, TypeOK
<1>5. \A p \in Rank : Reach(p) \in Nat /\ Reach(p)' \in Nat /\ count[p] \in Nat
  BY DEF Reach, SlotInv, TypeOK
<1>6. \A p \in Rank : /\ \A i \in 1..Len(down[p]) : down[p][i].due \in Nat
                      /\ \A i \in 1..Len(committed[p]) : committed[p][i].launch \in Nat
  BY LinkTypes, BodyFacts DEF SlotInv, HubTypes
<1>7. Promised(down)'
  BY <1>4, <1>5, <1>6, SMTT(40) DEF Clock, Promised
<1>8. Ahead'
  BY <1>4, <1>5, <1>6 DEF Clock, Ahead
<1> QED
  BY <1>1, <1>2, <1>3, <1>7, <1>8 DEF Clock

\* The clock after a launch.
LEMMA LaunchesClock ==
    ASSUME SlotInv, Clock, NEW T, Letters(seqr, down, T), NEW r \in Rank, Launches(r)
    PROVE  Clock'
<1> USE DEF Launches, Elsewhere, Aside
<1>0. /\ \A p \in Rank : count[p] \in Nat /\ count'[p] \in Nat /\ count[p] <= count'[p]
      /\ count'[r] = count[r] + 1 /\ \A p \in Rank \ {r} : count'[p] = count[p]
  BY DEF SlotInv, TypeOK, Launch
<1>1. Pace'
  <2>1. Paired(r)
    BY DEF Clock, Pace
  <2> QED
    BY <1>0, <2>1 DEF Clock, Pace, Paired
<1>2. Lanes'
  BY DEF Clock, Lanes, IsQuiet
<1>3. Reported(up)'
  BY <1>0 DEF Clock, Reported, Launch, Timely
<1>4. /\ \A p \in Rank : Reach(p) \in Nat /\ Reach(p)' \in Nat
      /\ \A p \in Rank \ {r} : Reach(p)' = Reach(p)
      /\ pc[r] \in {"admitHeld", "whale"} => Reach(r)' = Reach(r)
  BY <1>0 DEF Reach, Waiting
<1>5. pc[r] \notin {"admitHeld", "whale"} => IsQuiet(r)
  BY DEF Clock, Lanes
<1>6. \A p \in Rank : /\ \A i \in 1..Len(down[p]) : down[p][i].due \in Nat
                      /\ \A i \in 1..Len(committed[p]) : committed[p][i].launch \in Nat
  BY LinkTypes, BodyFacts DEF SlotInv, HubTypes
<1>7. Promised(down)'
  <2> SUFFICES ASSUME NEW p \in Rank, NEW i \in 1..Len(down[p])
               PROVE  /\ \E x \in Rank : down[p][i].due <= count'[x] + Latency
                      /\ down[p][i].m.type = "Commit" =>
                             down[p][i].due < down[p][i].m.launch /\ Reach(p)' <= down[p][i].due
    BY DEF Promised
  <2>1. \E x \in Rank : down[p][i].due <= count'[x] + Latency
    <3>1. PICK x \in Rank : down[p][i].due <= count[x] + Latency
      BY DEF Clock, Promised
    <3>2. down[p][i].due <= count'[x] + Latency
      BY <1>0, <1>6, <3>1, TimeFacts, SMTT(40)
    <3> QED
      BY <3>2
  <2>2. CASE p = r /\ pc[r] \notin {"admitHeld", "whale"}
    BY <1>5, <2>1, <2>2, QuietReads
  <2>3. CASE ~ (p = r /\ pc[r] \notin {"admitHeld", "whale"})
    BY <1>4, <2>1, <2>3 DEF Clock, Promised
  <2> QED
    BY <2>2, <2>3
<1>8. Ahead'
  <2>1. pc[r] \notin {"admitHeld", "whale"} => Len(committed[r]) = 0
    BY <1>5 DEF IsQuiet
  <2> QED
    BY <1>4, <2>1 DEF Clock, Ahead
<1> QED
  BY <1>1, <1>2, <1>3, <1>7, <1>8 DEF Clock

\* The launches.
LEMMA LaunchSteps ==
    ASSUME SlotInv, Clock, NEW r \in Rank,
           WhaleLaunch(r) \/ PumpLaunch(r) \/ CpLaunch(r) \/ PrefillLaunch(r) \/ DecodeLaunch(r)
    PROVE  Launches(r)
<1> USE DEF const, hub, member, post, board, batch, Goto, Aside, Elsewhere, Launches
<1>1. pc \in [Rank -> Place] /\ state \in [Request -> States]
  BY DEF SlotInv, TypeOK, Place, States
<1>2. lane \in {"whale", "cp"} /\ (lane = "whale" => pc[r] \notin AtBoard)
  BY DEF SlotInv, Deployed, Clock, Lanes
<1>3. CASE WhaleLaunch(r)
  BY <1>1, <1>2, <1>3 DEF WhaleLaunch, Place, Waiting, AtBoard, Busy
<1>4. CASE PumpLaunch(r)
  BY <1>1, <1>2, <1>4 DEF PumpLaunch, Place, Waiting, AtBoard, Busy
<1>5. CASE CpLaunch(r)
  BY <1>1, <1>2, <1>5 DEF CpLaunch, Place, Waiting, AtBoard, Busy
<1>6. CASE PrefillLaunch(r)
  BY <1>1, <1>2, <1>6 DEF PrefillLaunch, Place, Waiting, AtBoard, Busy
<1>7. CASE DecodeLaunch(r)
  <2>1. pc[r] \in {"admit", "admitHeld"} /\ pc' = [pc EXCEPT ![r] = "decodeWait"]
    BY <1>7 DEF DecodeLaunch, AdmitDone
  <2>2. \A q \in Request : state[q] \notin {"new", "queued"} => state'[q] \notin {"new", "queued"}
    BY <1>1, <1>7 DEF DecodeLaunch, FinishOrRetire
  <2> QED
    BY <1>1, <1>2, <1>7, <2>1, <2>2 DEF DecodeLaunch, Place, Waiting, AtBoard, Busy
<1> QED
  BY <1>3, <1>4, <1>5, <1>6, <1>7

\* The first token leaves the request numbered or not.
LEMMA FirstTokenState ==
    ASSUME state \in [Request -> States], NEW r, NEW q, CommitFirstToken(r, q)
    PROVE  \A x \in Request : state[x] \notin {"new", "queued"} => state'[x] \notin {"new", "queued"}
  BY DEF CommitFirstToken, FinishOrRetire

\* The moves.
LEMMA MoveSteps ==
    ASSUME SlotInv, Clock, NEW r \in Rank,
           \/ StepStart(r) \/ WhaleReturn(r) \/ AdmitVerdict(r) \/ PrefillStart(r) \/ PrefillReturn(r)
           \/ PostJob(r) \/ GangPass(r) \/ PumpReturn(r) \/ CpReturn(r) \/ DecodeReturn(r)
    PROVE  Moves(r) /\ (pc'[r] \notin {"admitHeld", "whale"} \/ pc'[r] = pc[r])
<1> USE DEF const, hub, member, post, board, batch, Goto, Aside, Elsewhere, Moves
<1>1. pc \in [Rank -> Place] /\ state \in [Request -> States] /\ pc[r] # "dead"
  BY DEF SlotInv, TypeOK, Place, States, Clock, Pace
<1>2. lane \in {"whale", "cp"} /\ (lane = "whale" => pc[r] \notin AtBoard)
  BY DEF SlotInv, Deployed, Clock, Lanes
<1>3. CASE StepStart(r)
  BY <1>1, <1>2, <1>3 DEF StepStart, Place, Waiting, AtBoard, Busy
<1>4. CASE WhaleReturn(r)
  <2>1. \A x \in Request : state[x] \notin {"new", "queued"} => state'[x] \notin {"new", "queued"}
    BY <1>1, <1>4, FirstTokenState DEF WhaleReturn, FinishOrRetire
  <2>2. pc[r] = "whaleWait" /\ Paired(r)
    BY <1>4 DEF WhaleReturn, Stitched
  <2> QED
    BY <1>1, <1>2, <1>4, <2>1, <2>2 DEF WhaleReturn, Place, Waiting, AtBoard, Busy
<1>5. CASE AdmitVerdict(r)
  <2>1. \A x \in Request : state[x] \notin {"new", "queued"} => state'[x] \notin {"new", "queued"}
    BY <1>1, <1>5 DEF AdmitVerdict
  <2> QED
    BY <1>1, <1>2, <1>5, <2>1 DEF AdmitVerdict, Place, Waiting, AtBoard, Busy
<1>6. CASE PrefillStart(r)
  <2>1. \A x \in Request : state[x] \notin {"new", "queued"} => state'[x] \notin {"new", "queued"}
    BY <1>1, <1>6 DEF PrefillStart
  <2> QED
    BY <1>1, <1>2, <1>6, <2>1 DEF PrefillStart, Place, Waiting, AtBoard, Busy
<1>7. CASE PrefillReturn(r)
  <2>1. \A x \in Request : state[x] \notin {"new", "queued"} => state'[x] \notin {"new", "queued"}
    BY <1>1, <1>7, FirstTokenState DEF PrefillReturn, FailAll
  <2> QED
    BY <1>1, <1>2, <1>7, <2>1 DEF PrefillReturn, Place, Waiting, AtBoard, Busy
<1>8. CASE PostJob(r)
  <2>1. \A x \in Request : state[x] \notin {"new", "queued"} => state'[x] \notin {"new", "queued"}
    BY <1>1, <1>8 DEF PostJob
  <2>2. lane = "cp"
    BY <1>8 DEF PostJob, Runs, GangKinds
  <2> QED
    BY <1>1, <1>2, <1>8, <2>1, <2>2 DEF PostJob, Place, Waiting, AtBoard, Busy
<1>9. CASE GangPass(r)
  <2>1. pc[r] = "gang" /\ \E x \in {"admit", "cp", "pump"} : pc' = [pc EXCEPT ![r] = x]
    BY <1>9 DEF GangPass
  <2>2. UNCHANGED <<seqr, up, down, armed, committed, posted, fallback, lane, state, fatal, count>>
    BY <1>9 DEF GangPass
  <2> QED
    BY <1>1, <1>2, <2>1, <2>2 DEF Place, Waiting, AtBoard, Busy
<1>10. CASE PumpReturn(r)
  BY <1>1, <1>2, <1>10 DEF PumpReturn, Place, Waiting, AtBoard, Busy
<1>11. CASE CpReturn(r)
  <2>1. \A x \in Request : state[x] \notin {"new", "queued"} => state'[x] \notin {"new", "queued"}
    BY <1>1, <1>11, FirstTokenState DEF CpReturn
  <2>2. pc[r] = "cpWait" /\ Paired(r) /\ \E x \in {"admit", "gang"} : pc' = [pc EXCEPT ![r] = x]
    BY <1>11 DEF CpReturn, Stitched
  <2>3. UNCHANGED <<seqr, up, down, armed, committed, posted, fallback, lane, entered, fatal, count>>
    BY <1>11 DEF CpReturn
  <2> QED
    BY <1>1, <1>2, <2>1, <2>2, <2>3 DEF Place, Waiting, AtBoard, Busy
<1>12. CASE DecodeReturn(r)
  <2>1. \A x \in Request : state[x] \notin {"new", "queued"} => state'[x] \notin {"new", "queued"}
    BY <1>1, <1>12 DEF DecodeReturn, FinishOrRetire, FailAll
  <2> QED
    BY <1>1, <1>2, <1>12, <2>1 DEF DecodeReturn, Place, Waiting, AtBoard, Busy
<1> QED
  BY <1>3, <1>4, <1>5, <1>6, <1>7, <1>8, <1>9, <1>10, <1>11, <1>12

\* Committed whales are held in the order of their launches.
LEMMA LaunchOrder ==
    ASSUME HubTypes, NEW T, Books(seqr, up, down, T), NEW r \in Rank,
           NEW i \in 1..Len(committed[r]), NEW j \in 1..Len(committed[r]), i < j
    PROVE  committed[r][i].launch < committed[r][j].launch
<1>1. \A k \in 1..Len(committed[r]) :
          /\ committed[r][k].launch \in Nat /\ committed[r][k].seq \in Numbers(seqr)
          /\ committed[r][k].launch = T[committed[r][k].seq].fate
  BY LinkTypes, BodyFacts DEF HubTypes, Books, Agreement
<1>2. committed[r][i].seq < committed[r][j].seq
  BY DEF Books, Agreement
<1> QED
  BY <1>1, <1>2, SMTT(40) DEF Books, Minutes

\* A boundary that left no due letter is before them all; free of an agreed
\* launch it is before those too.
LEMMA BoundaryFacts ==
    ASSUME SlotInv, NEW T, Books(seqr, up, down, T), NEW r \in Rank, Drained(r)
    PROVE  /\ \A i \in 1..Len(down[r]) : count[r] + 1 <= down[r][i].due
           /\ AtLaunch(r) = "free" => \A i \in 1..Len(committed[r]) : count[r] + 1 <= committed[r][i].launch
<1>1. HubTypes /\ count[r] \in Nat
  BY DEF SlotInv, TypeOK
<1>2. /\ down[r] \in Seq(Letter) /\ Len(down[r]) \in Nat
      /\ \A i \in 1..Len(down[r]) : down[r][i].due \in Nat
  BY <1>1, LinkTypes, BodyFacts DEF HubTypes
<1>3. /\ committed[r] \in Seq(Agreed) /\ Len(committed[r]) \in Nat
      /\ \A i \in 1..Len(committed[r]) : committed[r][i].launch \in Nat
  BY <1>1, LinkTypes, BodyFacts DEF HubTypes
<1>4. ASSUME NEW i \in 1..Len(down[r]) PROVE count[r] + 1 <= down[r][i].due
  <2>1. down[r] # <<>> /\ 1 \in 1..Len(down[r]) /\ Head(down[r]) = down[r][1]
    BY <1>2, EmptySeq, TailFacts
  <2>2. down[r][1].due > count[r]
    BY <2>1 DEF Drained
  <2>3. i = 1 \/ 1 < i
    OBVIOUS
  <2>4. down[r][1].due <= down[r][i].due
    BY <1>2, <2>1, <2>3 DEF Books, Ordered, Follows
  <2> QED
    BY <1>1, <1>2, <2>1, <2>2, <2>4, SMTT(40)
<1>5. ASSUME AtLaunch(r) = "free", NEW i \in 1..Len(committed[r])
      PROVE  count[r] + 1 <= committed[r][i].launch
  <2>1. committed[r] # <<>> /\ 1 \in 1..Len(committed[r]) /\ Head(committed[r]) = committed[r][1]
    BY <1>3, EmptySeq, TailFacts
  <2>2. committed[r][1].launch > count[r]
    BY <1>5, <2>1 DEF AtLaunch
  <2>3. i = 1 \/ 1 < i
    OBVIOUS
  <2>4. committed[r][1].launch <= committed[r][i].launch
    BY <1>1, <1>3, <2>1, <2>3, LaunchOrder
  <2> QED
    BY <1>1, <1>3, <2>1, <2>2, <2>4
<1> QED
  BY <1>4, <1>5

\* A boundary at which no superstep is entered.
LEMMA ServeFreeClock ==
    ASSUME SlotInv, Clock, NEW T, Books(seqr, up, down, T), NEW r \in Rank, ServeFree(r)
    PROVE  Clock' /\ Aside
<1> USE DEF const, hub, member, post, board, batch, Goto
<1>1. pc \in [Rank -> Place] /\ state \in [Request -> States] /\ lane = "whale" /\ pc[r] = "top"
  BY DEF SlotInv, TypeOK, Place, States, ServeFree
<1>2. Aside
  <2>1. \A x \in Request : state[x] \notin {"new", "queued"} => state'[x] \notin {"new", "queued"}
    BY <1>1 DEF ServeFree, FinishOrRetire
  <2>2. fallback \in [Rank -> [req : Request \cup {NoReq}, seq : Int]]
    BY DEF SlotInv, Posts
  <2>3. \A p \in Rank : fallback'[p] \in {fallback[p], NoPost}
    BY <2>2 DEF ServeFree
  <2> QED
    BY <2>1, <2>3 DEF Aside, ServeFree
<1>3. PICK x \in {"admit", "admitHeld", "prefill"} :
         pc' = [pc EXCEPT ![r] = x] /\ (x # "admitHeld" => IsQuiet(r))
  BY DEF ServeFree
<1>4. Moves(r)
  <2>1. fatal' = fatal /\ count' = count
    BY DEF ServeFree
  <2> QED
    BY <1>1, <1>2, <1>3, <2>1 DEF Moves, Elsewhere, Place, Waiting, AtBoard, Busy
<1>5. CASE x # "admitHeld"
  <2>1. pc'[r] \notin {"admitHeld", "whale"}
    BY <1>1, <1>3, <1>5
  <2> QED
    BY <1>2, <1>4, <2>1, MovesClock
<1>6. CASE x = "admitHeld"
  <2> USE DEF Moves, Elsewhere, Aside
  <2>1. Pace'
    BY <1>4 DEF Clock, Pace, Paired
  <2>2. Lanes'
    BY <1>4 DEF Clock, Lanes, IsQuiet
  <2>3. Reported(up)'
    BY <1>4 DEF Clock, Reported
  <2>4. /\ \A p \in Rank \ {r} : Reach(p)' = Reach(p)
        /\ Reach(r)' = count[r] + 1
    BY <1>1, <1>3, <1>4, <1>6 DEF Reach
  <2>5. /\ \A i \in 1..Len(down[r]) : count[r] + 1 <= down[r][i].due
        /\ \A i \in 1..Len(committed[r]) : count[r] + 1 <= committed[r][i].launch
    BY BoundaryFacts DEF ServeFree
  <2>6. Promised(down)'
    BY <1>4, <2>4, <2>5 DEF Clock, Promised
  <2>7. Ahead'
    BY <1>4, <2>4, <2>5 DEF Clock, Ahead
  <2> QED
    BY <1>2, <2>1, <2>2, <2>3, <2>6, <2>7 DEF Clock
<1> QED
  BY <1>5, <1>6

\* Clients do not touch the rendezvous.
LEMMA ClientSteps ==
    ASSUME SlotInv, Clock, (\E q \in Request : Submit(q) \/ Abort(q)) \/ UNCHANGED vars
    PROVE  Clock' /\ Aside
<1> USE DEF const, hub, member, post, board, batch, Goto, vars
<1>1. state \in [Request -> States]
  BY DEF SlotInv, TypeOK, States
<1>2. \A x \in Request : state[x] \notin {"new", "queued"} => state'[x] \notin {"new", "queued"}
  BY <1>1 DEF Submit, Abort
<1>3. UNCHANGED <<seqr, up, down, armed, committed, posted, fallback, lane, entered, fatal, count, pc>>
  BY DEF Submit, Abort
<1>4. Aside
  BY <1>2, <1>3 DEF Aside
<1>5. Clock'
  BY <1>3 DEF Clock, Pace, Lanes, Reported, Promised, Ahead, Reach, Paired, IsQuiet
<1> QED
  BY <1>4, <1>5

-----------------------------------------------------------------------------
(* The rendezvous: a member reads a letter.                                *)

\* The first letter of r is gone, and the others moved up.
Left(r) ==
    /\ \A p \in Rank \ {r} : down'[p] = down[p]
    /\ Len(down[r]) \in Nat /\ Len(down[r]) >= 1 /\ Len(down'[r]) = Len(down[r]) - 1
    /\ \A i \in 1..Len(down'[r]) : i + 1 \in 1..Len(down[r]) /\ down'[r][i] = down[r][i + 1]

\* Reading does that, and leaves the sequencer and the launches alone.
LEMMA Reads ==
    ASSUME SlotInv, Clock, NEW r \in Rank, ServeMessage(r)
    PROVE  /\ Left(r) /\ 1 \in 1..Len(down[r]) /\ down[r][1] \in Letter /\ Head(down[r]) = down[r][1]
           /\ UNCHANGED <<seqr, lane, entered, count>> /\ pc[r] = "top" /\ lane = "whale"
<1>1. down \in [Rank -> Seq(Letter)] /\ down[r] \in Seq(Letter) /\ down[r] # <<>>
  BY DEF SlotInv, HubTypes, ServeMessage
<1>2. PICK t : t = Tail(down[r])
  OBVIOUS
<1>3. down'[r] = t /\ \A p \in Rank \ {r} : down'[p] = down[p]
  BY <1>1, <1>2 DEF ServeMessage
<1>4. /\ Len(down[r]) \in Nat /\ Len(down[r]) >= 1 /\ Len(t) = Len(down[r]) - 1
      /\ Head(down[r]) = down[r][1] /\ down[r][1] \in Letter
      /\ \A i \in 1..Len(t) : i + 1 \in 1..Len(down[r]) /\ t[i] = down[r][i + 1]
  BY <1>1, <1>2, TailFacts
<1>5. UNCHANGED <<seqr, lane, entered, count>> /\ pc[r] = "top"
  BY DEF ServeMessage, const
<1>6. lane = "whale"
  BY <1>1 DEF SlotInv, Deployed, Clock, Lanes
<1> QED
  BY <1>3, <1>4, <1>5, <1>6 DEF Left

\* The letters left are in order, and later than the one read.
LEMMA ReadOrder ==
    ASSUME HubTypes, NEW r \in Rank, Left(r), Ordered(down)
    PROVE  /\ Ordered(down)'
           /\ \A i \in 1..Len(down'[r]) : Follows(down[r][1], down'[r][i])
<1>1. ASSUME NEW p \in Rank, NEW i \in 1..Len(down'[p]), NEW j \in 1..Len(down'[p]), i < j
      PROVE  Follows(down'[p][i], down'[p][j])
  <2>1. CASE p = r
    <3>1. /\ i + 1 \in 1..Len(down[r]) /\ down'[r][i] = down[r][i + 1]
          /\ j + 1 \in 1..Len(down[r]) /\ down'[r][j] = down[r][j + 1] /\ i + 1 < j + 1
      BY <1>1, <2>1 DEF Left
    <3> QED
      BY <2>1, <3>1 DEF Ordered
  <2>2. CASE p # r
    BY <1>1, <2>2 DEF Left, Ordered
  <2> QED
    BY <2>1, <2>2
<1>2. ASSUME NEW i \in 1..Len(down'[r]) PROVE Follows(down[r][1], down'[r][i])
  <2>1. 1 \in 1..Len(down[r]) /\ i + 1 \in 1..Len(down[r]) /\ down'[r][i] = down[r][i + 1] /\ 1 < i + 1
    BY DEF Left
  <2> QED
    BY <2>1 DEF Ordered
<1>3. Ordered(down)'
  BY <1>1 DEF Ordered, Follows
<1> QED
  BY <1>2, <1>3

\* Two numbers of one request are one.
LEMMA OneNumber ==
    ASSUME NEW s, NEW T, Minutes(s, T), NEW j \in Numbers(s), NEW k \in Numbers(s), T[j].req = T[k].req
    PROVE  j = k
  BY DEF Minutes

\* A cancel that is bare once the letter before it is read was so before.
LEMMA BareRead ==
    ASSUME NEW r \in Rank, Left(r), NEW i \in 1..Len(down'[r]), Bare(down, r, i)',
           down[r][1].m.seq # down'[r][i].m.seq,
           \A d \in armed[r] : d \in armed'[r] \/ d.seq # down'[r][i].m.seq
    PROVE  i + 1 \in 1..Len(down[r]) /\ down'[r][i] = down[r][i + 1] /\ Bare(down, r, i + 1)
<1>1. i + 1 \in 1..Len(down[r]) /\ down'[r][i] = down[r][i + 1] /\ i \in Nat /\ (i + 1) - 1 = i
  BY DEF Left
<1>2. /\ down[r][i + 1].m.type = "Cancel"
      /\ \A d \in armed'[r] : d.seq # down[r][i + 1].m.seq
      /\ \A j \in 1..(i - 1) : down'[r][j].m.seq # down[r][i + 1].m.seq
  BY <1>1 DEF Bare
<1>3. ASSUME NEW j \in 1..i PROVE down[r][j].m.seq # down[r][i + 1].m.seq
  <2>1. CASE j = 1
    BY <1>1, <2>1
  <2>2. CASE j # 1
    <3>1. PICK k \in Nat : k = j - 1
      OBVIOUS
    <3>2. k \in 1..(i - 1) /\ k + 1 = j
      BY <2>2, <3>1
    <3>3. k \in 1..Len(down'[r])
      BY <3>2 DEF Left
    <3>4. down'[r][k] = down[r][j]
      BY <3>2, <3>3 DEF Left
    <3> QED
      BY <1>2, <3>2, <3>4
  <2> QED
    BY <2>1, <2>2
<1>4. \A d \in armed[r] : d.seq # down[r][i + 1].m.seq
  BY <1>1, <1>2
<1> QED
  BY <1>1, <1>2, <1>3, <1>4 DEF Bare

\* The clock while a member reads.
LEMMA ReadClock ==
    ASSUME SlotInv, Clock, NEW r \in Rank, Left(r), UNCHANGED <<lane, count, pc, fatal>>,
           pc[r] = "top", lane = "whale",
           \A p \in Rank \ {r} : armed'[p] = armed[p] /\ committed'[p] = committed[p]
    PROVE  Pace' /\ Lanes' /\ Promised(down)'
<1>1. Pace'
  BY DEF Clock, Pace, Paired
<1>2. Lanes'
  BY DEF Clock, Lanes, IsQuiet, Busy, AtBoard
<1>3. \A p \in Rank : Reach(p)' = Reach(p)
  BY DEF Reach
<1>4. ASSUME NEW p \in Rank, NEW i \in 1..Len(down'[p])
      PROVE  /\ \E x \in Rank : down'[p][i].due <= count[x] + Latency
             /\ down'[p][i].m.type = "Commit" =>
                    down'[p][i].due < down'[p][i].m.launch /\ Reach(p) <= down'[p][i].due
  <2>1. PICK j \in 1..Len(down[p]) : down'[p][i] = down[p][j]
    BY DEF Left
  <2> QED
    BY <2>1 DEF Clock, Promised
<1>5. Promised(down)'
  BY <1>3, <1>4 DEF Promised
<1> QED
  BY <1>1, <1>2, <1>5

\* A gather: the member arms the whale and reports its launch count.
LEMMA TakeGatherBooks ==
    ASSUME SlotInv, Clock, NEW T, Books(seqr, up, down, T), NEW r \in Rank, ServeMessage(r),
           Head(down[r]).m.type = "Gather"
    PROVE  Clock' /\ Books(seqr, up, down, T)'
<1>1. /\ Left(r) /\ 1 \in 1..Len(down[r]) /\ down[r][1] \in Letter /\ Head(down[r]) = down[r][1]
      /\ UNCHANGED <<seqr, lane, entered, count>> /\ pc[r] = "top" /\ lane = "whale"
  BY Reads
<1>2. PICK m : m = down[r][1].m
  OBVIOUS
<1>3. m.type = "Gather" /\ m.seq \in Nat /\ m.req \in Request /\ TakeGather(r, m)
  BY <1>1, <1>2, BodyFacts DEF ServeMessage
<1>4. m.seq \in Numbers(seqr) /\ m.req = T[m.seq].req /\ T[m.seq].fate < 0
  BY <1>1, <1>2, <1>3 DEF Books, Letters, Fits
<1>5. /\ UNCHANGED <<pc, fatal, committed, fallback, state>>
      /\ armed'[r] = armed[r] \cup {[seq |-> m.seq, req |-> m.req]}
      /\ \A p \in Rank \ {r} : armed'[p] = armed[p] /\ posted'[p] = posted[p] /\ up'[p] = up[p]
  BY <1>3 DEF TakeGather, SlotInv, HubTypes, Posts
<1>6. Home[m.req] = r => Own(m.req, -1)
  BY <1>1, <1>2, <1>3 DEF Books, Awaited
<1>7. /\ posted'[r].req = posted[r].req
      /\ Home[m.req] # r => posted'[r] = posted[r]
      /\ Home[m.req] = r => posted'[r].seq = m.seq /\ posted[r].req = m.req /\ posted[r].seq = -1
  BY <1>3, <1>6 DEF TakeGather, SlotInv, Posts, Own
<1>8. PICK x : x = Stamp([type |-> "Ready", seq |-> m.seq, count |-> count[r]])
  OBVIOUS
<1>9. x \in Report /\ x.m.type = "Ready" /\ x.m.seq = m.seq /\ x.m.count = count[r] /\ x.due = Now + Latency
  BY <1>3, <1>8, NowFacts, TimeFacts DEF Stamp, Report, UpBody, SlotInv, TypeOK
<1>10. up'[r] = Append(up[r], x) /\ up[r] \in Seq(Report)
  BY <1>3, <1>8 DEF TakeGather, SlotInv, HubTypes
<1>11. /\ Len(up[r]) \in Nat /\ Len(up'[r]) = Len(up[r]) + 1
       /\ up'[r][Len(up[r]) + 1] = x /\ \A i \in 1..Len(up[r]) : up'[r][i] = up[r][i]
       /\ \A i \in 1..Len(up'[r]) : i = Len(up[r]) + 1 \/ i \in 1..Len(up[r])
  BY <1>9, <1>10, AppendFacts
<1>12. /\ Ordered(down)'
       /\ \A i \in 1..Len(down'[r]) : Follows(down[r][1], down'[r][i])
  BY <1>1, ReadOrder DEF SlotInv, Books
<1>13. \A p \in Rank : \A i \in 1..Len(down'[p]) : \E j \in 1..Len(down[p]) :
           down'[p][i] = down[p][j] /\ (p = r => j = i + 1)
  BY <1>1 DEF Left
<1>14. \A p \in Rank : \A i \in 1..Len(up'[p]) :
           \/ p = r /\ i = Len(up[r]) + 1 /\ up'[p][i] = x
           \/ i \in 1..Len(up[p]) /\ up'[p][i] = up[p][i]
  BY <1>5, <1>11
<1>15. \A q \in Request : \A n : Own(q, n) /\ (q # m.req \/ Home[q] # r) =>
           posted'[Home[q]].req = q /\ posted'[Home[q]].seq = n
  <2> SUFFICES ASSUME NEW q \in Request, NEW n, Own(q, n), q # m.req \/ Home[q] # r
               PROVE  posted'[Home[q]].req = q /\ posted'[Home[q]].seq = n
    OBVIOUS
  <2>1. Home[q] \in Rank
    BY K3Assumption
  <2> QED
    BY <1>5, <1>7, <2>1 DEF Own
<1>16. Clock'
  <2>1. Pace' /\ Lanes' /\ Promised(down)'
    BY <1>1, <1>5, ReadClock
  <2>2. Ahead'
    BY <1>1, <1>5 DEF Clock, Ahead, Reach
  <2>3. /\ Now \in Nat /\ Now <= count[r] + 1 /\ \A p \in Rank : count[p] <= Now
    BY NowFacts DEF SlotInv, TypeOK, Clock, Pace
  <2>4. \A p \in Rank : count[p] \in Nat
    BY DEF SlotInv, TypeOK
  <2>5. /\ \A p \in Rank : count[p] <= x.due
        /\ x.due <= x.m.count + 1 + Latency
    BY <1>9, <2>3, <2>4, TimeFacts
  <2>6. ASSUME NEW p \in Rank, NEW i \in 1..Len(up'[p])
        PROVE  /\ \A y \in Rank : count[y] <= up'[p][i].due
               /\ up'[p][i].m.type = "Ready" => up'[p][i].due <= up'[p][i].m.count + 1 + Latency
    BY <1>14, <2>5 DEF Clock, Reported
  <2>7. Reported(up)'
    BY <1>1, <2>6 DEF Reported
  <2> QED
    BY <2>1, <2>2, <2>7 DEF Clock
<1>17. Minutes(seqr, T)' /\ Boarded(seqr, T)' /\ Fallbacks(seqr, T)'
  <2>1. Minutes(seqr, T)'
    BY <1>1, <1>5 DEF Books, Minutes, Numbers
  <2>2. Boarded(seqr, T)'
    BY <1>1, <1>5 DEF Books, Boarded, Numbers
  <2>3. Fallbacks(seqr, T)'
    BY <1>1, <1>5 DEF Books, Fallbacks, Numbers
  <2> QED
    BY <2>1, <2>2, <2>3
<1>18. Letters(seqr, down, T)'
  <2>1. \A p \in Rank : \A d \in armed[p] : d \in armed'[p]
    BY <1>5
  <2>2. ASSUME NEW p \in Rank, NEW i \in 1..Len(down'[p]), NEW b, b = down'[p][i].m
        PROVE  /\ b.seq \in Numbers(seqr)
               /\ b.type = "Gather" => b.req = T[b.seq].req /\ T[b.seq].fate < 0
               /\ b.type = "Cancel" => T[b.seq].fate = Dropped
               /\ b.type = "Commit" => T[b.seq].fate = b.launch /\ \E d \in armed'[p] : d.seq = b.seq
    <3>1. PICK j \in 1..Len(down[p]) : down'[p][i] = down[p][j]
      BY <1>13
    <3>2. Fits(seqr, T, p, b)
      BY <2>2, <3>1 DEF Books, Letters
    <3> QED
      BY <2>1, <3>2 DEF Fits
  <2> QED
    BY <1>1, <2>2 DEF Letters, Fits, Numbers
<1>19. Armed(seqr, T)'
  BY <1>1, <1>4, <1>5 DEF Books, Armed, Numbers
<1>20. Agreement(seqr, down, T)'
  <2>1. \A p \in Rank : \A i \in 1..Len(committed[p]) : committed[p][i].launch \in Nat
    BY LinkTypes, BodyFacts DEF SlotInv, HubTypes
  <2>2. \A p \in Rank : \A i \in 1..Len(committed[p]) : \A d \in armed'[p] : d.seq # committed[p][i].seq
    BY <1>4, <1>5, <2>1 DEF Books, Agreement
  <2>3. ASSUME NEW p \in Rank, NEW i \in 1..Len(committed[p]), NEW j \in 1..Len(down'[p]),
               down'[p][j].m.type = "Commit"
        PROVE  committed[p][i].seq < down'[p][j].m.seq
    <3>1. PICK k \in 1..Len(down[p]) : down'[p][j] = down[p][k]
      BY <1>13
    <3> QED
      BY <2>3, <3>1 DEF Books, Agreement
  <2> QED
    BY <1>1, <1>5, <2>2, <2>3, SMTT(40) DEF Books, Agreement, Numbers
<1>21. Gathering(seqr, up, down)'
  <2> SUFFICES ASSUME seqr.gathering # None, NEW p \in Rank
               PROVE  /\ p \in Gang(Home[seqr.gathering.req]) <=>
                             Asked(seqr, down, p)' \/ Said(seqr, up, p)' \/ Heard(seqr, p)
                      /\ Asked(seqr, down, p)' => ~ Said(seqr, up, p)' /\ ~ Heard(seqr, p)
                      /\ Said(seqr, up, p)' => ~ Heard(seqr, p)
                      /\ Said(seqr, up, p)' \/ Heard(seqr, p) => \E d \in armed'[p] : d.seq = seqr.gathering.seq
                      /\ \A i, j \in 1..Len(up'[p]) :
                             SaidAt(seqr, up, p, i)' /\ SaidAt(seqr, up, p, j)' => i = j
    BY <1>1 DEF Gathering, Heard
  <2>0. /\ p \in Gang(Home[seqr.gathering.req]) <=> Asked(seqr, down, p) \/ Said(seqr, up, p) \/ Heard(seqr, p)
        /\ Asked(seqr, down, p) => ~ Said(seqr, up, p) /\ ~ Heard(seqr, p)
        /\ Said(seqr, up, p) => ~ Heard(seqr, p)
        /\ Said(seqr, up, p) \/ Heard(seqr, p) => \E d \in armed[p] : d.seq = seqr.gathering.seq
        /\ \A i, j \in 1..Len(up[p]) : SaidAt(seqr, up, p, i) /\ SaidAt(seqr, up, p, j) => i = j
    BY DEF Books, Gathering
  <2>1. CASE p # r
    <3>1. up'[p] = up[p] /\ down'[p] = down[p] /\ armed'[p] = armed[p]
      BY <1>1, <1>5, <2>1 DEF Left
    <3> QED
      BY <1>1, <2>0, <3>1 DEF Asked, Said, SaidAt
  <2>2. CASE p = r /\ m.seq # seqr.gathering.seq
    <3>1. Asked(seqr, down, r)' <=> Asked(seqr, down, r)
      <4>1. Asked(seqr, down, r)' => Asked(seqr, down, r)
        BY <1>1, <1>13 DEF Asked
      <4>2. ASSUME NEW i \in 1..Len(down[r]), down[r][i].m.seq = seqr.gathering.seq
            PROVE  i - 1 \in 1..Len(down'[r]) /\ down'[r][i - 1].m.seq = seqr.gathering.seq
        <5>1. i # 1
          BY <1>2, <2>2, <4>2
        <5>2. i - 1 \in 1..Len(down'[r]) /\ (i - 1) + 1 = i
          BY <1>1, <5>1 DEF Left
        <5>3. down'[r][i - 1] = down[r][(i - 1) + 1]
          BY <1>1, <5>2 DEF Left
        <5> QED
          BY <4>2, <5>2, <5>3
      <4> QED
        BY <1>1, <4>1, <4>2 DEF Asked
    <3>2. \A i \in 1..Len(up'[r]) : SaidAt(seqr, up, r, i)' <=> i \in 1..Len(up[r]) /\ SaidAt(seqr, up, r, i)
      BY <1>1, <1>9, <1>11, <2>2 DEF SaidAt
    <3>3. Said(seqr, up, r)' <=> Said(seqr, up, r)
      <4>1. \A i \in 1..Len(up[r]) : i \in 1..Len(up'[r])
        BY <1>11
      <4> QED
        BY <3>2, <4>1 DEF Said
    <3>4. \A d \in armed[r] : d \in armed'[r]
      BY <1>5
    <3> QED
      BY <2>0, <2>2, <3>1, <3>2, <3>3, <3>4
  <2>3. CASE p = r /\ m.seq = seqr.gathering.seq
    <3>1. Asked(seqr, down, r) /\ ~ Said(seqr, up, r) /\ ~ Heard(seqr, r)
      BY <1>1, <1>2, <2>0, <2>3 DEF Asked
    <3>2. T[m.seq].fate = Open
      BY <1>4, <2>3 DEF Books, Minutes
    <3>3. ~ Asked(seqr, down, r)'
      <4> SUFFICES ASSUME NEW i \in 1..Len(down'[r]), down'[r][i].m.seq = m.seq PROVE FALSE
        BY <1>1, <2>3 DEF Asked
      <4>1. down'[r][i].m.type = "Cancel"
        BY <1>2, <1>12 DEF Follows
      <4>2. T[m.seq].fate = Dropped
        BY <1>18, <4>1 DEF Letters, Fits
      <4> QED
        BY <3>2, <4>2 DEF Open, Dropped
    <3>4. \A i \in 1..Len(up'[r]) : SaidAt(seqr, up, r, i)' <=> i = Len(up[r]) + 1
      BY <1>1, <1>9, <1>11, <2>3, <3>1 DEF Said, SaidAt
    <3>5. Said(seqr, up, r)'
      BY <1>11, <3>4 DEF Said
    <3>6. \E d \in armed'[r] : d.seq = seqr.gathering.seq
      <4>1. PICK d : d = [seq |-> m.seq, req |-> m.req]
        OBVIOUS
      <4>2. d \in armed'[r] /\ d.seq = seqr.gathering.seq
        BY <1>5, <2>3, <4>1
      <4> QED
        BY <4>2
    <3> QED
      BY <2>0, <2>3, <3>1, <3>3, <3>4, <3>5, <3>6
  <2> QED
    BY <2>1, <2>2, <2>3
<1>22. Replies(seqr, up)'
  <2>1. ASSUME NEW p \in Rank, NEW i \in 1..Len(up'[p]), up'[p][i].m.type = "Ready"
        PROVE  up'[p][i].m.seq \in Numbers(seqr)
    <3>1. CASE up'[p][i] = x
      BY <1>4, <1>9, <3>1
    <3>2. CASE i \in 1..Len(up[p]) /\ up'[p][i] = up[p][i]
      BY <2>1, <3>2 DEF Books, Replies
    <3> QED
      BY <1>14, <3>1, <3>2
  <2> QED
    BY <1>1, <2>1 DEF Replies, Numbers
<1>23. \A q \in Request : Unnumbered(seqr, T, q) => q # m.req
  BY <1>4 DEF Unnumbered
<1>24. Asking(seqr, up, T)'
  <2> SUFFICES ASSUME NEW p \in Rank, NEW i \in 1..Len(up'[p]), up'[p][i].m.type = "Request"
               PROVE  /\ Home[up'[p][i].m.req] = p
                      /\ posted'[Home[up'[p][i].m.req]].req = up'[p][i].m.req
                      /\ posted'[Home[up'[p][i].m.req]].seq = -1
                      /\ Unnumbered(seqr, T, up'[p][i].m.req)
                      /\ \A j \in 1..Len(up'[p]) : up'[p][j].m.type = "Request" => i = j
                      /\ \A j \in 1..Len(seqr.queue) : seqr.queue[j] # up'[p][i].m.req
    BY <1>1, SMTT(60) DEF Asking, Own, Unnumbered, Numbers
  <2>1. i \in 1..Len(up[p]) /\ up'[p][i] = up[p][i]
    BY <1>9, <1>14
  <2>2. PICK q \in Request : q = up[p][i].m.req
    BY <2>1, LinkTypes, BodyFacts DEF SlotInv, HubTypes
  <2>3. \A j \in 1..Len(up'[p]) : up'[p][j].m.type = "Request" => j \in 1..Len(up[p]) /\ up'[p][j] = up[p][j]
    BY <1>9, <1>14
  <2>4. /\ Home[q] = p /\ Own(q, -1) /\ Unnumbered(seqr, T, q)
        /\ \A j \in 1..Len(up[p]) : up[p][j].m.type = "Request" => i = j
        /\ \A j \in 1..Len(seqr.queue) : seqr.queue[j] # q
    BY <2>1, <2>2 DEF Books, Asking
  <2>5. posted'[Home[q]].req = q /\ posted'[Home[q]].seq = -1
    BY <1>15, <1>23, <2>4
  <2> QED
    BY <2>1, <2>2, <2>3, <2>4, <2>5
<1>25. InLine(seqr, T)'
  <2>1. \A i \in 1..Len(seqr.queue) : seqr.queue[i] \in Request
    BY SequencerFields, ElementOfSeq DEF SlotInv, HubTypes
  <2> QED
    BY <1>1, <1>15, <1>23, <2>1, SMTT(40) DEF Books, InLine, Unnumbered, Numbers, Own
<1>26. Awaited(seqr, down)'
  <2>1. seqr.gathering # None => posted'[Home[seqr.gathering.req]].req = seqr.gathering.req
    BY <1>5, <1>7, GatheringHome DEF Books, Awaited, SlotInv
  <2>2. ASSUME NEW p \in Rank, NEW i \in 1..Len(down'[p]), down'[p][i].m.type = "Gather",
               Home[down'[p][i].m.req] = p
        PROVE  posted'[p].req = down'[p][i].m.req /\ posted'[p].seq = -1
    <3>1. PICK j \in 1..Len(down[p]) : down'[p][i] = down[p][j]
      BY <1>13
    <3>2. PICK q \in Request : q = down[p][j].m.req
      BY <2>2, <3>1, LinkTypes, BodyFacts DEF SlotInv, HubTypes
    <3>3. Own(q, -1) /\ Home[q] = p
      BY <2>2, <3>1, <3>2 DEF Books, Awaited
    <3>4. ASSUME p = r, q = m.req
          PROVE  FALSE
      <4>1. PICK k : k = down[p][j].m.seq
        OBVIOUS
      <4>2. down[p][j].m.type = "Gather" /\ Fits(seqr, T, p, down[p][j].m)
        BY <2>2, <3>1 DEF Books, Letters
      <4>3. k \in Numbers(seqr) /\ T[k].req = T[m.seq].req
        BY <1>4, <3>2, <3>4, <4>1, <4>2 DEF Fits
      <4>4. Minutes(seqr, T)
        BY DEF Books
      <4>5. k = m.seq
        BY <1>4, <4>3, <4>4, OneNumber
      <4>6. Follows(down[r][1], down'[r][i])
        BY <1>12, <2>2, <3>4
      <4>7. down'[r][i].m.type = "Cancel"
        BY <1>2, <3>1, <3>4, <4>1, <4>5, <4>6 DEF Follows
      <4> QED
        BY <2>2, <3>4, <4>7
    <3> QED
      BY <1>15, <3>1, <3>2, <3>3, <3>4
  <2>3. ASSUME NEW p \in Rank, NEW d \in armed'[p], Home[d.req] = p
        PROVE  posted'[p].req = d.req /\ posted'[p].seq = d.seq
    <3>1. CASE d \in armed[p]
      <4>1. d.req \in Request /\ d.seq \in Nat /\ Own(d.req, d.seq)
        BY <2>3, <3>1, BodyFacts DEF SlotInv, HubTypes, Books, Awaited
      <4>2. p = r => d.req # m.req
        BY <1>7, <2>3, <4>1 DEF Own
      <4> QED
        BY <1>15, <2>3, <4>1, <4>2
    <3>2. CASE d \notin armed[p]
      BY <1>5, <1>7, <2>3, <3>2
    <3> QED
      BY <3>1, <3>2
  <2>4. ASSUME NEW p \in Rank, NEW i \in 1..Len(committed[p]), Home[committed[p][i].req] = p
        PROVE  posted'[p].req = committed[p][i].req /\ posted'[p].seq = committed[p][i].seq
    <3>1. PICK w \in Agreed : w = committed[p][i]
      BY LinkTypes DEF SlotInv, HubTypes
    <3>2. w.req \in Request /\ w.seq \in Nat /\ Own(w.req, w.seq)
      BY <2>4, <3>1, BodyFacts DEF Books, Awaited
    <3>3. p = r => w.req # m.req
      BY <1>7, <2>4, <3>1, <3>2 DEF Own
    <3> QED
      BY <1>15, <2>4, <3>1, <3>2, <3>3
  <2> QED
    BY <1>1, <1>5, <2>1, <2>2, <2>3, <2>4, SMTT(60) DEF Awaited, Own
<1>27. Numbered(seqr, T)'
  <2>1. \A p \in Rank : posted'[p].seq # -1 => posted'[p].seq \in Numbers(seqr) /\ T[posted'[p].seq].req = posted'[p].req
    BY <1>4, <1>5, <1>7 DEF Books, Numbered
  <2> QED
    BY <1>1, <2>1 DEF Numbered, Numbers
<1>28. Refusals(down, T)'
  <2> SUFFICES ASSUME NEW p \in Rank, NEW i \in 1..Len(down'[p]), Bare(down, p, i)'
               PROVE  posted'[p].req = T[down'[p][i].m.seq].req /\ posted'[p].seq = -1
    BY DEF Refusals
  <2>1. CASE p # r
    <3>1. Bare(down, p, i) /\ down'[p] = down[p] /\ posted'[p] = posted[p]
      BY <1>1, <1>5, <2>1 DEF Bare, Left
    <3> QED
      BY <3>1 DEF Refusals, Books
  <2>2. CASE p = r
    <3>1. [seq |-> m.seq, req |-> m.req] \in armed'[r] /\ \A d \in armed[r] : d \in armed'[r]
      BY <1>5
    <3>2. down'[r][i].m.seq # m.seq
      BY <3>1, <2>2 DEF Bare
    <3>3. /\ i + 1 \in 1..Len(down[r]) /\ down'[r][i] = down[r][i + 1] /\ Bare(down, r, i + 1)
      BY <1>1, <1>2, <2>2, <3>1, <3>2, BareRead
    <3>5. posted[r].req = T[down[r][i + 1].m.seq].req /\ posted[r].seq = -1
      BY <3>3 DEF Books, Refusals
    <3>6. Home[m.req] # r
      <4>1. PICK n : n = down[r][i + 1].m.seq
        OBVIOUS
      <4>2. n \in Numbers(seqr)
        BY <3>3, <4>1 DEF Books, Letters, Fits
      <4>3. Minutes(seqr, T)
        BY DEF Books
      <4>4. Home[m.req] = r => T[n].req = T[m.seq].req
        BY <1>4, <1>7, <3>5, <4>1
      <4>5. n # m.seq
        BY <3>2, <3>3, <4>1
      <4> QED
        BY <1>4, <4>2, <4>3, <4>4, <4>5, OneNumber
    <3> QED
      BY <1>7, <2>2, <3>3, <3>5, <3>6
  <2> QED
    BY <2>1, <2>2
<1> QED
  BY <1>12, <1>16, <1>17, <1>18, <1>19, <1>20, <1>21, <1>22, <1>24, <1>25, <1>26, <1>27, <1>28 DEF Books

\* A letter that ends a gathering, read by r, leaves nothing of its number there.
LEMMA ReadKept ==
    ASSUME SlotInv, NEW T, Books(seqr, up, down, T), NEW r \in Rank, Left(r),
           UNCHANGED <<seqr, up, lane, entered>>, 1 \in 1..Len(down[r]),
           T[down[r][1].m.seq].fate # Open, down[r][1].m.type # "Gather",
           \A p \in Rank \ {r} : armed'[p] = armed[p], \A d \in armed'[r] : d \in armed[r],
           \A d \in armed[r] : d.seq # down[r][1].m.seq => d \in armed'[r]
    PROVE  /\ Letters(seqr, down, T)' /\ Ordered(down)' /\ Armed(seqr, T)' /\ Gathering(seqr, up, down)'
           /\ Replies(seqr, up)' /\ Boarded(seqr, T)'
           /\ \A i \in 1..Len(down'[r]) : down'[r][i].m.seq # down[r][1].m.seq
<1>0. HubTypes /\ Ordered(down)
  BY DEF SlotInv, Books
<1>1. /\ Ordered(down)'
      /\ \A i \in 1..Len(down'[r]) : Follows(down[r][1], down'[r][i])
  BY <1>0, ReadOrder
<1>2. \A i \in 1..Len(down'[r]) : down'[r][i].m.seq # down[r][1].m.seq
  BY <1>1 DEF Follows
<1>3. \A p \in Rank : \A i \in 1..Len(down'[p]) : \E j \in 1..Len(down[p]) : down'[p][i] = down[p][j]
  BY SMTT(40) DEF Left
<1>4. Letters(seqr, down, T)'
  <2>1. ASSUME NEW p \in Rank, NEW i \in 1..Len(down'[p]), NEW b, b = down'[p][i].m
        PROVE  /\ b.seq \in Numbers(seqr)
               /\ b.type = "Gather" => b.req = T[b.seq].req /\ T[b.seq].fate < 0
               /\ b.type = "Cancel" => T[b.seq].fate = Dropped
               /\ b.type = "Commit" => T[b.seq].fate = b.launch /\ \E d \in armed'[p] : d.seq = b.seq
    <3>1. PICK j \in 1..Len(down[p]) : down'[p][i] = down[p][j]
      BY <1>3
    <3>2. Fits(seqr, T, p, b)
      BY <2>1, <3>1 DEF Books, Letters
    <3>3. \A d \in armed[p] : d.seq = b.seq => d \in armed'[p]
      BY <1>2, <2>1
    <3> QED
      BY <3>2, <3>3 DEF Fits
  <2> QED
    BY <2>1 DEF Letters, Fits, Numbers
<1>5. Armed(seqr, T)'
  BY DEF Books, Armed, Numbers
<1>6. Replies(seqr, up)' /\ Boarded(seqr, T)'
  <2>1. Replies(seqr, up)'
    BY DEF Books, Replies, Numbers
  <2>2. Boarded(seqr, T)'
    BY DEF Books, Boarded, Numbers
  <2> QED
    BY <2>1, <2>2
<1>7. Gathering(seqr, up, down)'
  <2> SUFFICES ASSUME seqr.gathering # None, NEW p \in Rank
               PROVE  /\ Asked(seqr, down, p)' <=> Asked(seqr, down, p)
                      /\ \A d \in armed[p] : d.seq = seqr.gathering.seq => d \in armed'[p]
    <3>1. \A p \in Rank : Said(seqr, up, p)' = Said(seqr, up, p) /\ Heard(seqr, p)' = Heard(seqr, p)
      BY DEF Said, SaidAt, Heard
    <3>2. \A p \in Rank : \A i \in 1..Len(up[p]) : SaidAt(seqr, up, p, i)' = SaidAt(seqr, up, p, i)
      BY DEF SaidAt
    <3>3. Gathering(seqr, up, down)
      BY DEF Books
    <3> QED
      BY <3>1, <3>2, <3>3 DEF Gathering
  <2>1. CASE p # r
    BY <2>1 DEF Left, Asked
  <2>2. CASE p = r
    <3>1. down[r][1].m.seq \in Numbers(seqr)
      BY DEF Books, Letters, Fits
    <3>2. down[r][1].m.seq # seqr.gathering.seq
      BY <3>1 DEF Books, Minutes
    <3>3. Asked(seqr, down, r)' => Asked(seqr, down, r)
      BY <1>3 DEF Asked
    <3>4. ASSUME NEW i \in 1..Len(down[r]), down[r][i].m.seq = seqr.gathering.seq
          PROVE  \E j \in 1..Len(down'[r]) : down'[r][j].m.seq = seqr.gathering.seq
      <4>1. PICK k \in Nat : k = i - 1 /\ i # 1
        BY <3>2, <3>4
      <4>2. k \in 1..Len(down'[r]) /\ k + 1 = i
        BY <4>1 DEF Left
      <4>3. down'[r][k] = down[r][i]
        BY <4>2 DEF Left
      <4> QED
        BY <3>4, <4>2, <4>3
    <3>5. Asked(seqr, down, r) => Asked(seqr, down, r)'
      BY <3>4 DEF Asked
    <3> QED
      BY <2>2, <3>2, <3>3, <3>5
  <2> QED
    BY <2>1, <2>2
<1> QED
  BY <1>1, <1>2, <1>4, <1>5, <1>6, <1>7

\* The armed whale d of a commit m is committed.
CommitTaken(r, m, d) ==
    /\ d.seq = m.seq /\ armed' = [armed EXCEPT ![r] = @ \ {d}]
    /\ committed' = [committed EXCEPT ![r] = Append(@, [seq |-> m.seq, req |-> d.req, launch |-> m.launch])]
    /\ UNCHANGED <<pc, fatal, posted, fallback, up, state>>

\* A commit is in time, in order and for an armed whale.
LEMMA CommitFits ==
    ASSUME SlotInv, Clock, NEW T, Books(seqr, up, down, T), NEW r \in Rank, ServeMessage(r),
           NEW m, m = Head(down[r]).m, m.type = "Commit"
    PROVE  /\ m.seq \in Numbers(seqr) /\ m.launch \in Nat /\ T[m.seq].fate = m.launch
           /\ count[r] < m.launch
           /\ \E d \in armed[r] : CommitTaken(r, m, d)
<1>1. /\ 1 \in 1..Len(down[r]) /\ down[r][1] \in Letter /\ Head(down[r]) = down[r][1] /\ pc[r] = "top"
  BY Reads
<1>2. m.seq \in Nat /\ m.launch \in Nat /\ TakeCommit(r, m) /\ down[r][1].due \in Nat
  BY <1>1, BodyFacts DEF ServeMessage
<1>3. m.seq \in Numbers(seqr) /\ T[m.seq].fate = m.launch /\ \E d \in armed[r] : d.seq = m.seq
  BY <1>1 DEF Books, Letters, Fits
<1>4. count[r] < m.launch
  <2>1. count[r] \in Nat /\ Reach(r) = count[r]
    BY <1>1 DEF SlotInv, TypeOK, Reach
  <2>2. down[r][1].due < m.launch /\ Reach(r) <= down[r][1].due
    BY <1>1 DEF Clock, Promised
  <2> QED
    BY <1>2, <2>1, <2>2
<1>5. committed[r] # <<>> => Last(committed[r]).launch < m.launch
  <2> SUFFICES ASSUME committed[r] # <<>> PROVE Last(committed[r]).launch < m.launch
    OBVIOUS
  <2>1. committed[r] \in Seq(Agreed)
    BY DEF SlotInv, HubTypes
  <2>2. PICK L \in Nat : L = Len(committed[r]) /\ L \in 1..Len(committed[r])
    BY <2>1, TailFacts
  <2>3. committed[r][L] \in Agreed
    BY <2>1, <2>2, ElementOfSeq
  <2>4. PICK w \in Agreed : w = committed[r][L]
    BY <2>3
  <2>5. /\ w.seq \in Numbers(seqr) /\ w.launch = T[w.seq].fate /\ w.seq < m.seq /\ w.launch \in Nat
    BY <1>1, <2>2, <2>4, BodyFacts DEF Books, Agreement
  <2>6. T[w.seq].fate < T[m.seq].fate
    BY <1>2, <1>3, <2>5 DEF Books, Minutes
  <2>7. Last(committed[r]) = w
    BY <2>2, <2>4 DEF Last
  <2> QED
    BY <1>3, <2>5, <2>6, <2>7
<1>6. /\ \E d \in {e \in armed[r] : e.seq = m.seq} :
             /\ armed' = [armed EXCEPT ![r] = @ \ {d}]
             /\ committed' = [committed EXCEPT ![r] = Append(@,
                    [seq |-> m.seq, req |-> d.req, launch |-> m.launch])]
      /\ UNCHANGED <<pc, fatal, posted, fallback, up, state>>
  <2>1. {e \in armed[r] : e.seq = m.seq} # {}
    BY <1>3
  <2>2. ~ (m.launch <= count[r])
    BY <1>2, <1>4 DEF SlotInv, TypeOK
  <2>3. ~ (committed[r] # <<>> /\ m.launch <= Last(committed[r]).launch)
    <3> SUFFICES ASSUME committed[r] # <<>>, m.launch <= Last(committed[r]).launch PROVE FALSE
      OBVIOUS
    <3>1. committed[r] \in Seq(Agreed)
      BY DEF SlotInv, HubTypes
    <3>2. Last(committed[r]) \in Agreed
      BY <3>1, TailFacts, ElementOfSeq DEF Last
    <3>3. Last(committed[r]).launch \in Nat
      BY <3>2, BodyFacts
    <3> QED
      BY <1>2, <1>5, <3>3
  <2> QED
    BY <1>2, <2>1, <2>2, <2>3 DEF TakeCommit
<1> QED
  BY <1>2, <1>3, <1>4, <1>6 DEF CommitTaken

\* A commit: the member moves the whale to its agreed launch.
LEMMA TakeCommitBooks ==
    ASSUME SlotInv, Clock, NEW T, Books(seqr, up, down, T), NEW r \in Rank, ServeMessage(r),
           Head(down[r]).m.type = "Commit"
    PROVE  Clock' /\ Books(seqr, up, down, T)'
<1>1. /\ Left(r) /\ 1 \in 1..Len(down[r]) /\ down[r][1] \in Letter /\ Head(down[r]) = down[r][1]
      /\ UNCHANGED <<seqr, lane, entered, count>> /\ pc[r] = "top" /\ lane = "whale"
  BY Reads
<1>2. PICK m : m = Head(down[r]).m /\ m.type = "Commit"
  OBVIOUS
<1>3. /\ m.seq \in Numbers(seqr) /\ m.launch \in Nat /\ T[m.seq].fate = m.launch /\ count[r] < m.launch
       /\ \E d \in armed[r] : CommitTaken(r, m, d)
  BY <1>2, CommitFits
<1>4. PICK d \in armed[r] : CommitTaken(r, m, d)
  BY <1>3
<1>5. /\ m.seq \in Numbers(seqr) /\ m.launch \in Nat /\ T[m.seq].fate = m.launch /\ count[r] < m.launch
      /\ d.seq = m.seq /\ UNCHANGED <<pc, fatal, posted, fallback, up, state>>
  BY <1>3, <1>4 DEF CommitTaken
<1>6. d \in Whale /\ d.req \in Request /\ d.req = T[m.seq].req /\ m.seq \in Nat
  BY <1>5, BodyFacts DEF SlotInv, HubTypes, Books, Armed
<1>7. /\ armed'[r] = armed[r] \ {d}
      /\ \A p \in Rank \ {r} : armed'[p] = armed[p] /\ committed'[p] = committed[p]
  BY <1>4 DEF SlotInv, HubTypes, CommitTaken
<1>8. PICK w : w = [seq |-> m.seq, req |-> d.req, launch |-> m.launch]
  OBVIOUS
<1>9. w \in Agreed /\ w.seq = m.seq /\ w.req = d.req /\ w.launch = m.launch
  BY <1>5, <1>6, <1>8 DEF Agreed
<1>10. committed'[r] = Append(committed[r], w) /\ committed[r] \in Seq(Agreed)
  BY <1>4, <1>8 DEF SlotInv, HubTypes, CommitTaken
<1>11. /\ Len(committed[r]) \in Nat /\ Len(committed'[r]) = Len(committed[r]) + 1
       /\ committed'[r][Len(committed[r]) + 1] = w
       /\ \A i \in 1..Len(committed[r]) : committed'[r][i] = committed[r][i]
       /\ \A i \in 1..Len(committed'[r]) : i = Len(committed[r]) + 1 \/ i \in 1..Len(committed[r])
  BY <1>9, <1>10, AppendFacts
<1>12. \A p \in Rank : \A i \in 1..Len(committed'[p]) :
           \/ p = r /\ i = Len(committed[r]) + 1 /\ committed'[p][i] = w
           \/ i \in 1..Len(committed[p]) /\ committed'[p][i] = committed[p][i]
  BY <1>7, <1>11
<1>13. T[m.seq].fate # Open
  BY <1>5 DEF Open
<1>14. /\ Letters(seqr, down, T)' /\ Ordered(down)' /\ Armed(seqr, T)' /\ Gathering(seqr, up, down)'
       /\ Replies(seqr, up)' /\ Boarded(seqr, T)'
       /\ \A i \in 1..Len(down'[r]) : down'[r][i].m.seq # m.seq
  <2>1. /\ \A p \in Rank \ {r} : armed'[p] = armed[p]
        /\ \A e \in armed'[r] : e \in armed[r]
        /\ \A e \in armed[r] : e.seq # down[r][1].m.seq => e \in armed'[r]
    BY <1>1, <1>2, <1>5, <1>7
  <2>2. /\ T[down[r][1].m.seq].fate # Open /\ down[r][1].m.type # "Gather"
        /\ UNCHANGED <<seqr, up, lane, entered>>
    BY <1>1, <1>2, <1>5, <1>13
  <2>3. /\ Letters(seqr, down, T)' /\ Ordered(down)' /\ Armed(seqr, T)' /\ Gathering(seqr, up, down)'
        /\ Replies(seqr, up)' /\ Boarded(seqr, T)'
        /\ \A i \in 1..Len(down'[r]) : down'[r][i].m.seq # down[r][1].m.seq
    BY <1>1, <2>1, <2>2, ReadKept
  <2> QED
    BY <1>1, <1>2, <2>3
<1>15. /\ \A i \in 1..Len(down'[r]) : m.seq < down'[r][i].m.seq
       /\ \A p \in Rank : \A i \in 1..Len(down'[p]) : \E j \in 1..Len(down[p]) : down'[p][i] = down[p][j]
  <2>1. HubTypes /\ Ordered(down)
    BY DEF SlotInv, Books
  <2>2. \A i \in 1..Len(down'[r]) : Follows(down[r][1], down'[r][i])
    BY <1>1, <2>1, ReadOrder
  <2>3. \A p \in Rank : \A i \in 1..Len(down'[p]) : \E j \in 1..Len(down[p]) : down'[p][i] = down[p][j]
    BY <1>1, SMTT(40) DEF Left
  <2>4. \A i \in 1..Len(down'[r]) : down'[r][i].m.seq \in Nat
    <3>1. \A j \in 1..Len(down[r]) : down[r][j].m.seq \in Nat
      BY <2>1, LinkTypes, BodyFacts DEF HubTypes
    <3> QED
      BY <2>3, <3>1
  <2> QED
    BY <1>1, <1>2, <1>6, <1>14, <2>2, <2>3, <2>4, SMTT(40) DEF Follows
<1>16. Clock'
  <2>1. Pace' /\ Lanes' /\ Promised(down)'
    BY <1>1, <1>5, <1>7, ReadClock
  <2>2. \A p \in Rank : Reach(p)' = Reach(p) /\ Reach(r) = count[r] /\ count[p] \in Nat
    BY <1>1, <1>5 DEF Reach, SlotInv, TypeOK
  <2>3. ASSUME NEW p \in Rank, NEW i \in 1..Len(committed'[p]) PROVE Reach(p) <= committed'[p][i].launch
    BY <1>5, <1>9, <1>12, <2>2 DEF Clock, Ahead
  <2>5. Ahead'
    BY <2>2, <2>3 DEF Ahead
  <2>4. Reported(up)'
    BY <1>1, <1>5 DEF Clock, Reported
  <2> QED
    BY <2>1, <2>4, <2>5 DEF Clock
<1>17. Minutes(seqr, T)' /\ Fallbacks(seqr, T)' /\ Numbered(seqr, T)'
  <2>1. Minutes(seqr, T)'
    BY <1>1, <1>5 DEF Books, Minutes, Numbers
  <2>2. Fallbacks(seqr, T)'
    BY <1>1, <1>5 DEF Books, Fallbacks, Numbers
  <2>3. Numbered(seqr, T)'
    BY <1>1, <1>5 DEF Books, Numbered, Numbers
  <2> QED
    BY <2>1, <2>2, <2>3
<1>18. Asking(seqr, up, T)' /\ InLine(seqr, T)'
  <2>1. Asking(seqr, up, T)'
    <3>1. UNCHANGED <<seqr, up, posted>>
      BY <1>1, <1>5
    <3>2. Asking(seqr, up, T)
      BY DEF Books
    <3> QED
      BY <3>1, <3>2, AskingKept
  <2>2. InLine(seqr, T)'
    BY <1>1, <1>5 DEF Books, InLine, Own, Unnumbered, Numbers
  <2> QED
    BY <2>1, <2>2
<1>19. Agreement(seqr, down, T)'
  <2>1. \A e \in armed'[r] : e.seq # m.seq
    <3> SUFFICES ASSUME NEW e \in armed[r], e.seq = m.seq PROVE e = d
      BY <1>7
    <3>1. e \in Whale /\ e.req = T[m.seq].req
      BY DEF SlotInv, HubTypes, Books, Armed
    <3> QED
      BY <1>5, <1>6, <3>1 DEF Whale
  <2>2. \A i \in 1..Len(committed[r]) : committed[r][i].seq < m.seq
    BY <1>1, <1>2 DEF Books, Agreement
  <2>3. ASSUME NEW p \in Rank, NEW i \in 1..Len(committed'[p]), NEW v, v = committed'[p][i]
        PROVE  /\ v.seq \in Numbers(seqr) /\ v.req = T[v.seq].req
               /\ v.launch = T[v.seq].fate
               /\ \A e \in armed'[p] : e.seq # v.seq
               /\ \A j \in 1..Len(committed'[p]) : i < j => v.seq < committed'[p][j].seq
               /\ \A j \in 1..Len(down'[p]) : down'[p][j].m.type = "Commit" => v.seq < down'[p][j].m.seq
    <3>1. CASE p = r /\ i = Len(committed[r]) + 1
      <4>1. v = w
        BY <1>11, <2>3, <3>1
      <4>2. \A j \in 1..Len(committed'[p]) : ~ (i < j)
        BY <1>11, <3>1
      <4>3. v.seq = m.seq /\ v.req = d.req /\ v.launch = m.launch
        BY <1>9, <4>1
      <4> QED
        BY <1>5, <1>6, <1>15, <2>1, <3>1, <4>2, <4>3
    <3>2. CASE i \in 1..Len(committed[p]) /\ committed'[p][i] = committed[p][i]
      <4>1. /\ v.seq \in Numbers(seqr) /\ v.req = T[v.seq].req
            /\ v.launch = T[v.seq].fate
            /\ \A e \in armed[p] : e.seq # v.seq
            /\ \A j \in 1..Len(committed[p]) : i < j => v.seq < committed[p][j].seq
            /\ \A j \in 1..Len(down[p]) : down[p][j].m.type = "Commit" => v.seq < down[p][j].m.seq
        BY <2>3, <3>2 DEF Books, Agreement
      <4>2. \A e \in armed'[p] : e.seq # v.seq
        BY <1>7, <4>1
      <4>3. \A j \in 1..Len(committed'[p]) : i < j => v.seq < committed'[p][j].seq
        <5> SUFFICES ASSUME NEW j \in 1..Len(committed'[p]), i < j PROVE v.seq < committed'[p][j].seq
          OBVIOUS
        <5>1. CASE p = r /\ committed'[p][j] = w
          BY <1>9, <2>2, <2>3, <3>2, <5>1
        <5>2. CASE j \in 1..Len(committed[p]) /\ committed'[p][j] = committed[p][j]
          BY <4>1, <5>2
        <5> QED
          BY <1>12, <5>1, <5>2
      <4>4. \A j \in 1..Len(down'[p]) : down'[p][j].m.type = "Commit" => v.seq < down'[p][j].m.seq
        BY <1>15, <4>1
      <4> QED
        BY <4>1, <4>2, <4>3, <4>4
    <3> QED
      BY <1>12, <3>1, <3>2
  <2> QED
    BY <1>1, <2>3, SMTT(60) DEF Agreement, Numbers
<1>20. Awaited(seqr, down)'
  <2>1. ASSUME NEW p \in Rank, NEW i \in 1..Len(down'[p]), down'[p][i].m.type = "Gather",
               Home[down'[p][i].m.req] = p
        PROVE  posted[p].req = down'[p][i].m.req /\ posted[p].seq = -1
    <3>1. PICK j \in 1..Len(down[p]) : down'[p][i] = down[p][j]
      BY <1>15
    <3> QED
      BY <2>1, <3>1, SMTT(60) DEF Books, Awaited, Own
  <2>2. ASSUME NEW p \in Rank, NEW e \in armed'[p], Home[e.req] = p
        PROVE  posted[p].req = e.req /\ posted[p].seq = e.seq
    BY <1>7, <2>2, SMTT(60) DEF Books, Awaited, Own
  <2>3. ASSUME NEW p \in Rank, NEW i \in 1..Len(committed'[p]), Home[committed'[p][i].req] = p
        PROVE  posted[p].req = committed'[p][i].req /\ posted[p].seq = committed'[p][i].seq
    <3>1. Home[d.req] = r => posted[r].req = d.req /\ posted[r].seq = d.seq
      BY DEF Books, Awaited, Own
    <3>2. CASE p = r /\ committed'[p][i] = w
      BY <1>5, <1>9, <2>3, <3>1, <3>2
    <3>3. CASE i \in 1..Len(committed[p]) /\ committed'[p][i] = committed[p][i]
      BY <2>3, <3>3, SMTT(60) DEF Books, Awaited, Own
    <3> QED
      BY <1>12, <2>3, <3>2, <3>3
  <2>4. seqr.gathering # None => posted[Home[seqr.gathering.req]].req = seqr.gathering.req
    BY DEF Books, Awaited
  <2>5. posted' = posted /\ seqr' = seqr
    BY <1>1, <1>5
  <2>6. seqr'.gathering # None => posted'[Home[seqr'.gathering.req]].req = seqr'.gathering.req
    BY <2>4, <2>5
  <2>7. ASSUME NEW p \in Rank, NEW i \in 1..Len(down'[p]), down'[p][i].m.type = "Gather",
               Home[down'[p][i].m.req] = p
        PROVE  posted'[p].req = down'[p][i].m.req /\ posted'[p].seq = -1
    BY <2>1, <2>5, <2>7
  <2>8. ASSUME NEW p \in Rank, NEW e \in armed'[p], Home[e.req] = p
        PROVE  posted'[p].req = e.req /\ posted'[p].seq = e.seq
    BY <2>2, <2>5, <2>8
  <2>9. ASSUME NEW p \in Rank, NEW i \in 1..Len(committed'[p]), Home[committed'[p][i].req] = p
        PROVE  posted'[p].req = committed'[p][i].req /\ posted'[p].seq = committed'[p][i].seq
    BY <2>3, <2>5, <2>9
  <2> QED
    BY <2>6, <2>7, <2>8, <2>9, AwaitedBy
<1>21. Refusals(down, T)'
  <2> SUFFICES ASSUME NEW p \in Rank, NEW i \in 1..Len(down'[p]), Bare(down, p, i)'
               PROVE  posted[p].req = T[down'[p][i].m.seq].req /\ posted[p].seq = -1
    BY <1>5 DEF Refusals
  <2>1. CASE p # r
    <3>1. Bare(down, p, i) /\ down'[p] = down[p]
      BY <1>1, <1>7, <2>1 DEF Bare, Left
    <3> QED
      BY <3>1 DEF Refusals, Books
  <2>2. CASE p = r
    <3>1. down'[r][i].m.seq # m.seq
      BY <1>14, <2>2
    <3>2. \A e \in armed[r] : e \in armed'[r] \/ e.seq # down'[r][i].m.seq
      BY <1>5, <1>7, <3>1
    <3>3. i + 1 \in 1..Len(down[r]) /\ down'[r][i] = down[r][i + 1] /\ Bare(down, r, i + 1)
      BY <1>1, <1>2, <2>2, <3>1, <3>2, BareRead
    <3> QED
      BY <2>2, <3>3 DEF Refusals, Books
  <2> QED
    BY <2>1, <2>2
<1> QED
  BY <1>14, <1>16, <1>17, <1>18, <1>19, <1>20, <1>21 DEF Books

\* A cancel: the member disarms the whale, and falls back if it was its own.
LEMMA TakeCancelBooks ==
    ASSUME SlotInv, Clock, NEW T, Books(seqr, up, down, T), NEW r \in Rank, ServeMessage(r),
           Head(down[r]).m.type = "Cancel"
    PROVE  Clock' /\ Books(seqr, up, down, T)'
<1>1. /\ Left(r) /\ 1 \in 1..Len(down[r]) /\ down[r][1] \in Letter /\ Head(down[r]) = down[r][1]
      /\ UNCHANGED <<seqr, lane, entered, count>> /\ pc[r] = "top" /\ lane = "whale"
  BY Reads
<1>2. PICK m : m = down[r][1].m
  OBVIOUS
<1>3. m.type = "Cancel" /\ m.seq \in Nat /\ TakeCancel(r, m)
  BY <1>1, <1>2, BodyFacts DEF ServeMessage
<1>4. m.seq \in Numbers(seqr) /\ T[m.seq].fate = Dropped /\ T[m.seq].req \in Request
  BY <1>1, <1>2, <1>3 DEF Books, Letters, Fits, Minutes, Entry
<1>5. /\ UNCHANGED <<pc, fatal, committed, up>>
      /\ armed'[r] = {d \in armed[r] : d.seq # m.seq}
      /\ \A p \in Rank \ {r} : armed'[p] = armed[p] /\ committed'[p] = committed[p]
  BY <1>3 DEF TakeCancel, SlotInv, HubTypes
<1>6. Refused(r, m.seq) => posted[r].req = T[m.seq].req
  <2>1. CASE posted[r].seq = m.seq
    <3>1. posted[r].seq # -1
      BY <1>3, <2>1
    <3> QED
      BY <2>1, <3>1 DEF Books, Numbered
  <2>2. CASE \A d \in armed[r] : d.seq # m.seq
    <3>1. Bare(down, r, 1)
      BY <1>2, <1>3, <2>2 DEF Bare
    <3> QED
      BY <1>1, <1>2, <3>1 DEF Books, Refusals
  <2> QED
    BY <2>1, <2>2 DEF Refused
<1>7. /\ \A p \in Rank \ {r} : posted'[p] = posted[p] /\ fallback'[p] = fallback[p]
      /\ Refused(r, m.seq) => /\ posted'[r] = NoPost /\ fallback'[r] = posted[r]
                              /\ state' = [state EXCEPT ![posted[r].req] = "fallback"]
      /\ ~ Refused(r, m.seq) => posted' = posted /\ fallback' = fallback /\ state' = state
  BY <1>3 DEF TakeCancel, SlotInv, Posts
<1>8. ASSUME NEW x \in Request, posted[Home[x]].req = x, x # T[m.seq].req \/ Home[x] # r
      PROVE  posted'[Home[x]] = posted[Home[x]]
  <2>1. Home[x] \in Rank
    BY K3Assumption
  <2> QED
    BY <1>6, <1>7, <1>8, <2>1
<1>9. /\ Letters(seqr, down, T)' /\ Ordered(down)' /\ Armed(seqr, T)' /\ Gathering(seqr, up, down)'
      /\ Replies(seqr, up)' /\ Boarded(seqr, T)'
      /\ \A i \in 1..Len(down'[r]) : down'[r][i].m.seq # m.seq
  <2>1. /\ \A p \in Rank \ {r} : armed'[p] = armed[p]
        /\ \A e \in armed'[r] : e \in armed[r]
        /\ \A e \in armed[r] : e.seq # down[r][1].m.seq => e \in armed'[r]
    BY <1>2, <1>5
  <2>2. /\ T[down[r][1].m.seq].fate # Open /\ down[r][1].m.type # "Gather"
        /\ UNCHANGED <<seqr, up, lane, entered>>
    BY <1>1, <1>2, <1>3, <1>4, <1>5 DEF Open, Dropped
  <2>3. /\ Letters(seqr, down, T)' /\ Ordered(down)' /\ Armed(seqr, T)' /\ Gathering(seqr, up, down)'
        /\ Replies(seqr, up)' /\ Boarded(seqr, T)'
        /\ \A i \in 1..Len(down'[r]) : down'[r][i].m.seq # down[r][1].m.seq
    BY <1>1, <2>1, <2>2, ReadKept
  <2> QED
    BY <1>2, <2>3
<1>10. \A p \in Rank : \A i \in 1..Len(down'[p]) : \E j \in 1..Len(down[p]) : down'[p][i] = down[p][j]
  BY <1>1 DEF Left
<1>11. Clock'
  <2>1. Pace' /\ Lanes' /\ Promised(down)'
    BY <1>1, <1>5, ReadClock
  <2>2. Ahead' /\ Reported(up)'
    BY <1>1, <1>5 DEF Clock, Ahead, Reach, Reported
  <2> QED
    BY <2>1, <2>2 DEF Clock
<1>12. Minutes(seqr, T)'
  <2>1. state \in [Request -> States]
    BY DEF SlotInv, TypeOK, States
  <2>2. \A x \in Request : state[x] \notin {"new", "queued"} => state'[x] \notin {"new", "queued"}
    BY <1>7, <2>1
  <2>3. \A k \in Numbers(seqr) : T[k].req \in Request
    BY DEF Books, Minutes, Entry
  <2> QED
    BY <1>1, <2>2, <2>3 DEF Books, Minutes, Numbers
<1>13. Agreement(seqr, down, T)'
  <2>1. ASSUME NEW p \in Rank, NEW i \in 1..Len(committed[p]), NEW j \in 1..Len(down'[p]),
               down'[p][j].m.type = "Commit"
        PROVE  committed[p][i].seq < down'[p][j].m.seq
    <3>1. PICK k \in 1..Len(down[p]) : down'[p][j] = down[p][k]
      BY <1>10
    <3>2. Agreement(seqr, down, T)
      BY DEF Books
    <3> QED
      BY <2>1, <3>1, <3>2 DEF Agreement
  <2>2. \A p \in Rank : \A e \in armed'[p] : e \in armed[p]
    BY <1>5
  <2> QED
    BY <1>1, <1>5, <2>1, <2>2 DEF Books, Agreement, Numbers
<1>14. \A x \in Request : Unnumbered(seqr, T, x) => x # T[m.seq].req
  BY <1>4, SMTT(20) DEF Unnumbered
<1>15. Asking(seqr, up, T)'
  <2>1. ASSUME NEW p \in Rank, NEW i \in 1..Len(up[p]), up[p][i].m.type = "Request"
        PROVE  posted'[Home[up[p][i].m.req]] = posted[Home[up[p][i].m.req]]
    <3>1. PICK x \in Request : x = up[p][i].m.req
      BY <2>1, LinkTypes, BodyFacts DEF SlotInv, HubTypes
    <3>2. posted[Home[x]].req = x /\ Unnumbered(seqr, T, x)
      BY <2>1, <3>1 DEF Books, Asking, Own
    <3> QED
      BY <1>8, <1>14, <3>1, <3>2
  <2>2. UNCHANGED <<seqr, up>>
    BY <1>1, <1>5
  <2>3. Asking(seqr, up, T)
    BY DEF Books
  <2> QED
    BY <2>1, <2>2, <2>3, AskingKept
<1>16. InLine(seqr, T)'
  <2>1. ASSUME NEW i \in 1..Len(seqr.queue) PROVE posted'[Home[seqr.queue[i]]] = posted[Home[seqr.queue[i]]]
    <3>1. PICK x \in Request : x = seqr.queue[i]
      BY SequencerFields, ElementOfSeq DEF SlotInv, HubTypes
    <3>2. posted[Home[x]].req = x /\ Unnumbered(seqr, T, x)
      BY <3>1 DEF Books, InLine, Own
    <3> QED
      BY <1>8, <1>14, <3>1, <3>2
  <2> QED
    BY <1>1, <2>1 DEF Books, InLine, Own, Unnumbered, Numbers
<1>17. Awaited(seqr, down)'
  <2>1. seqr.gathering # None => posted'[Home[seqr.gathering.req]].req = seqr.gathering.req
    <3> SUFFICES ASSUME seqr.gathering # None PROVE posted'[Home[seqr.gathering.req]].req = seqr.gathering.req
      OBVIOUS
    <3>1. seqr.gathering.req \in Request /\ posted[Home[seqr.gathering.req]].req = seqr.gathering.req
      BY GatheringHome DEF SlotInv, Books, Awaited
    <3>2. PICK k \in Numbers(seqr) : k = seqr.gathering.seq /\ T[k].req = seqr.gathering.req
      <4>1. seqr.next \in Nat
        BY SequencerFields DEF SlotInv, HubTypes
      <4> QED
        BY <4>1 DEF Books, Minutes, Numbers
    <3>3. T[k].fate = Open
      BY <3>2 DEF Books, Minutes
    <3>4. seqr.gathering.req # T[m.seq].req
      BY <1>4, <3>2, <3>3, OneNumber DEF Books, Open, Dropped
    <3> QED
      BY <1>8, <3>1, <3>4
  <2>2. ASSUME NEW p \in Rank, NEW i \in 1..Len(down'[p]), down'[p][i].m.type = "Gather",
               Home[down'[p][i].m.req] = p
        PROVE  posted'[p].req = down'[p][i].m.req /\ posted'[p].seq = -1
    <3>1. PICK j \in 1..Len(down[p]) : down'[p][i] = down[p][j]
      BY <1>10
    <3>2. PICK x \in Request : x = down[p][j].m.req
      BY <2>2, <3>1, LinkTypes, BodyFacts DEF SlotInv, HubTypes
    <3>3. posted[p].req = x /\ posted[p].seq = -1 /\ Home[x] = p
      BY <2>2, <3>1, <3>2, SMTT(60) DEF Books, Awaited, Own
    <3>4. down[p][j].m.seq \in Numbers(seqr) /\ x = T[down[p][j].m.seq].req
      BY <2>2, <3>1, <3>2 DEF Books, Letters, Fits
    <3>5. p = r => x # T[m.seq].req
      BY <1>4, <1>9, <3>1, <3>4, OneNumber DEF Books
    <3> QED
      BY <1>8, <3>1, <3>2, <3>3, <3>5
  <2>3. ASSUME NEW p \in Rank, NEW d \in armed'[p], Home[d.req] = p
        PROVE  posted'[p].req = d.req /\ posted'[p].seq = d.seq
    <3>1. d \in armed[p] /\ (p = r => d.seq # m.seq)
      BY <1>5
    <3>2. d.req \in Request /\ posted[p].req = d.req /\ posted[p].seq = d.seq
      BY <2>3, <3>1, BodyFacts DEF SlotInv, HubTypes, Books, Awaited, Own
    <3>3. p = r => d.req # T[m.seq].req
      BY <1>4, <3>1, OneNumber DEF Books, Armed
    <3> QED
      BY <1>8, <2>3, <3>2, <3>3
  <2>4. ASSUME NEW p \in Rank, NEW i \in 1..Len(committed[p]), Home[committed[p][i].req] = p
        PROVE  posted'[p].req = committed[p][i].req /\ posted'[p].seq = committed[p][i].seq
    <3>1. PICK w \in Agreed : w = committed[p][i]
      BY LinkTypes DEF SlotInv, HubTypes
    <3>2. w.req \in Request /\ w.launch \in Nat /\ posted[p].req = w.req /\ posted[p].seq = w.seq
      BY <2>4, <3>1, BodyFacts, SMTT(60) DEF Books, Awaited, Own
    <3>3. w.seq \in Numbers(seqr) /\ w.req = T[w.seq].req /\ w.launch = T[w.seq].fate
      BY <3>1 DEF Books, Agreement
    <3>4. w.req # T[m.seq].req
      BY <1>4, <3>2, <3>3, OneNumber DEF Books, Dropped
    <3> QED
      BY <1>8, <2>4, <3>1, <3>2, <3>4
  <2>5. seqr' = seqr /\ committed' = committed
    BY <1>1, <1>5
  <2>6. seqr'.gathering # None => posted'[Home[seqr'.gathering.req]].req = seqr'.gathering.req
    BY <2>1, <2>5
  <2>7. ASSUME NEW p \in Rank, NEW i \in 1..Len(committed'[p]), Home[committed'[p][i].req] = p
        PROVE  posted'[p].req = committed'[p][i].req /\ posted'[p].seq = committed'[p][i].seq
    BY <2>4, <2>5, <2>7
  <2> QED
    BY <2>2, <2>3, <2>6, <2>7, AwaitedBy
<1>18. Numbered(seqr, T)'
  <2>1. \A p \in Rank : posted'[p] = posted[p] \/ posted'[p].seq = -1
    BY <1>7 DEF NoPost
  <2> QED
    BY <1>1, <2>1 DEF Books, Numbered, Numbers
<1>19. Refusals(down, T)'
  <2> SUFFICES ASSUME NEW p \in Rank, NEW i \in 1..Len(down'[p]), Bare(down, p, i)'
               PROVE  posted'[p].req = T[down'[p][i].m.seq].req /\ posted'[p].seq = -1
    BY DEF Refusals
  <2>1. CASE p # r
    <3>1. Bare(down, p, i) /\ down'[p] = down[p] /\ posted'[p] = posted[p]
      BY <1>1, <1>5, <1>7, <2>1 DEF Bare, Left
    <3> QED
      BY <3>1 DEF Refusals, Books
  <2>2. CASE p = r
    <3>1. down'[r][i].m.seq # m.seq
      BY <1>9, <2>2
    <3>2. \A e \in armed[r] : e \in armed'[r] \/ e.seq # down'[r][i].m.seq
      BY <1>5, <3>1
    <3>3. i + 1 \in 1..Len(down[r]) /\ down'[r][i] = down[r][i + 1] /\ Bare(down, r, i + 1)
      BY <1>1, <1>2, <2>2, <3>1, <3>2, BareRead
    <3>4. posted[r].req = T[down'[r][i].m.seq].req /\ posted[r].seq = -1
      BY <3>3 DEF Refusals, Books
    <3>5. down'[r][i].m.seq \in Numbers(seqr)
      BY <3>3 DEF Books, Letters, Fits
    <3>6. posted[r].req # T[m.seq].req
      BY <1>4, <3>1, <3>4, <3>5, OneNumber DEF Books
    <3> QED
      BY <1>6, <1>7, <2>2, <3>4, <3>6
  <2> QED
    BY <2>1, <2>2
<1>20. Fallbacks(seqr, T)'
  <2>1. ASSUME NEW p \in Rank, fallback'[p] # NoPost, NEW k \in Numbers(seqr), T[k].req = fallback'[p].req
        PROVE  T[k].fate = Dropped
    <3>1. CASE fallback'[p] = fallback[p]
      BY <2>1, <3>1 DEF Books, Fallbacks
    <3>2. CASE p = r /\ Refused(r, m.seq)
      <4>1. T[k].req = T[m.seq].req
        BY <1>6, <1>7, <2>1, <3>2
      <4>2. k = m.seq
        BY <1>4, <4>1, OneNumber DEF Books
      <4> QED
        BY <1>4, <4>2
    <3> QED
      BY <1>7, <3>1, <3>2
  <2> QED
    BY <1>1, <2>1 DEF Fallbacks, Numbers
<1> QED
  BY <1>9, <1>11, <1>12, <1>13, <1>15, <1>16, <1>17, <1>18, <1>19, <1>20 DEF Books

-----------------------------------------------------------------------------
(* The rendezvous: a member enters a superstep, or posts.                  *)

\* The first committed whale is entered at its launch, by its owner with the
\* post it waits with.
Enters(r, w) ==
    /\ w = committed[r][1] /\ w.launch = count[r] /\ (Home[w.req] = r => posted[r].req = w.req)
    /\ committed' = [committed EXCEPT ![r] = Tail(@)]
    /\ posted' = IF Home[w.req] = r THEN [posted EXCEPT ![r] = NoPost] ELSE posted
    /\ entered' = entered \cup {<<w.seq, r, count[r]>>}
    /\ pc' = [pc EXCEPT ![r] = "whale"] /\ UNCHANGED fatal

\* A member that serves a committed whale enters it at its very launch.
LEMMA EnterFits ==
    ASSUME SlotInv, Clock, NEW T, Books(seqr, up, down, T), NEW r \in Rank, ServeEnter(r)
    PROVE  committed[r] # <<>> /\ \E w \in Agreed : Enters(r, w)
<1>1. pc[r] = "top" /\ AtLaunch(r) # "free"
  BY DEF ServeEnter
<1>2. committed[r] # <<>> /\ ~ (Head(committed[r]).launch > count[r]) /\ committed[r] \in Seq(Agreed)
  BY <1>1 DEF AtLaunch, SlotInv, HubTypes
<1>3. PICK w \in Agreed : w = committed[r][1] /\ w = Head(committed[r]) /\ 1 \in 1..Len(committed[r])
  BY <1>2, TailFacts
<1>4. Reach(r) = count[r] /\ Reach(r) <= w.launch /\ count[r] \in Nat /\ w.launch \in Nat
  <2>1. Reach(r) <= committed[r][1].launch
    BY <1>3 DEF Clock, Ahead
  <2>2. Reach(r) = count[r] /\ count[r] \in Nat
    BY <1>1 DEF Reach, SlotInv, TypeOK
  <2> QED
    BY <1>3, <2>1, <2>2, BodyFacts
<1>5. w.launch = count[r]
  BY <1>2, <1>3, <1>4
<1>6. AtLaunch(r) = "enter"
  BY <1>2, <1>3, <1>4, <1>5 DEF AtLaunch
<1>7. Home[w.req] = r => posted[r].req = w.req
  BY <1>3, SMTT(60) DEF Books, Awaited, Own
<1>8. EnterWhale(r)
  BY <1>6 DEF ServeEnter
<1>9. Enters(r, w)
  BY <1>3, <1>5, <1>7, <1>8 DEF EnterWhale, Goto, Enters
<1> QED
  BY <1>2, <1>9

\* A member enters a superstep.
LEMMA ServeEnterBooks ==
    ASSUME SlotInv, Clock, NEW T, Books(seqr, up, down, T), NEW r \in Rank, ServeEnter(r)
    PROVE  Clock' /\ Books(seqr, up, down, T)'
<1>1. committed[r] # <<>> /\ \E w \in Agreed : Enters(r, w)
  BY EnterFits
<1>2. PICK w \in Agreed : Enters(r, w)
  BY <1>1
<1>3. /\ w = committed[r][1] /\ w.launch = count[r] /\ (Home[w.req] = r => posted[r].req = w.req)
      /\ entered' = entered \cup {<<w.seq, r, count[r]>>}
      /\ pc'[r] = "whale" /\ fatal' = fatal
      /\ \A p \in Rank \ {r} : pc'[p] = pc[p] /\ committed'[p] = committed[p] /\ posted'[p] = posted[p]
      /\ posted'[r] = IF Home[w.req] = r THEN NoPost ELSE posted[r]
  BY <1>2 DEF Enters, SlotInv, TypeOK, HubTypes, Posts
<1>4. /\ UNCHANGED <<seqr, up, down, armed, fallback, state, lane, count>>
      /\ lane = "whale" /\ pc[r] = "top" /\ Drained(r)
  BY DEF ServeEnter, hub, const, batch
<1>5. committed'[r] = Tail(committed[r]) /\ committed[r] \in Seq(Agreed)
  BY <1>2 DEF Enters, SlotInv, HubTypes
<1>6. /\ Len(committed[r]) \in Nat /\ Len(committed[r]) >= 1 /\ Len(committed'[r]) = Len(committed[r]) - 1
      /\ \A i \in 1..Len(committed'[r]) :
             i + 1 \in 1..Len(committed[r]) /\ committed'[r][i] = committed[r][i + 1]
  BY <1>1, <1>5, TailFacts
<1>7. \A p \in Rank : \A i \in 1..Len(committed'[p]) : \E j \in 1..Len(committed[p]) :
          committed'[p][i] = committed[p][j] /\ (p = r => j = i + 1)
  <2>1. ASSUME NEW p \in Rank, NEW i \in 1..Len(committed'[p])
        PROVE  \E j \in 1..Len(committed[p]) : committed'[p][i] = committed[p][j] /\ (p = r => j = i + 1)
    <3>1. CASE p = r
      <4>1. i + 1 \in 1..Len(committed[r]) /\ committed'[r][i] = committed[r][i + 1]
        BY <1>6, <3>1
      <4> QED
        BY <3>1, <4>1
    <3>2. CASE p # r
      <4>1. committed'[p] = committed[p]
        BY <1>3, <3>2
      <4> QED
        BY <3>2, <4>1
    <3> QED
      BY <3>1, <3>2
  <2> QED
    BY <2>1
<1>8. /\ w.seq \in Numbers(seqr) /\ w.req \in Request /\ w.req = T[w.seq].req
      /\ T[w.seq].fate = w.launch /\ w.launch \in Nat /\ 1 \in 1..Len(committed[r])
  BY <1>3, <1>6, BodyFacts DEF Books, Agreement
<1>9. \A i \in 1..Len(committed'[r]) : w.seq # committed'[r][i].seq /\ w.launch < committed'[r][i].launch
  <2> SUFFICES ASSUME NEW i \in 1..Len(committed'[r])
               PROVE  w.seq # committed'[r][i].seq /\ w.launch < committed'[r][i].launch
    OBVIOUS
  <2>1. PICK j \in 1..Len(committed[r]) : committed'[r][i] = committed[r][j] /\ 1 < j
    BY <1>6
  <2>2. w.launch < committed[r][j].launch
    BY <1>3, <1>8, <2>1, LaunchOrder DEF SlotInv
  <2>3. committed[r][j].launch = T[committed[r][j].seq].fate
    BY DEF Books, Agreement
  <2>4. committed[r][j].launch \in Nat
    BY LinkTypes, BodyFacts DEF SlotInv, HubTypes
  <2> QED
    BY <1>8, <2>1, <2>2, <2>3, <2>4
<1>10. ASSUME NEW x \in Request, posted[Home[x]].req = x, x # w.req \/ Home[x] # r
       PROVE  posted'[Home[x]] = posted[Home[x]]
  <2>1. Home[x] \in Rank
    BY K3Assumption
  <2> QED
    BY <1>3, <1>10, <2>1
<1>11. Clock'
  <2>1. Pace'
    BY <1>3, <1>4 DEF Clock, Pace, Paired, Waiting
  <2>2. Lanes'
    <3>1. \A p \in Rank : pc'[p] \in Busy => committed'[p] = committed[p] /\ pc'[p] = pc[p]
      BY <1>3 DEF Busy, AtBoard
    <3>2. \A p \in Rank : pc'[p] \notin AtBoard
      BY <1>3, <1>4 DEF Clock, Lanes, AtBoard
    <3> QED
      BY <1>4, <3>1, <3>2 DEF Clock, Lanes, IsQuiet
  <2>3. Reported(up)'
    BY <1>4 DEF Clock, Reported
  <2>4. Reach(r)' = count[r] + 1 /\ \A p \in Rank \ {r} : Reach(p)' = Reach(p)
    BY <1>3, <1>4 DEF Reach
  <2>5. \A i \in 1..Len(down[r]) : count[r] + 1 <= down[r][i].due
    BY <1>4, BoundaryFacts
  <2>6. Promised(down)'
    BY <1>4, <2>4, <2>5 DEF Clock, Promised
  <2>7. \A i \in 1..Len(committed'[r]) : count[r] + 1 <= committed'[r][i].launch
    <3>1. \A j \in 1..Len(committed[r]) : committed[r][j].launch \in Nat
      BY LinkTypes, BodyFacts DEF SlotInv, HubTypes
    <3>2. count[r] \in Nat
      BY DEF SlotInv, TypeOK
    <3> QED
      <4> SUFFICES ASSUME NEW i \in 1..Len(committed'[r]) PROVE count[r] + 1 <= committed'[r][i].launch
        OBVIOUS
      <4>1. committed'[r][i].launch \in Nat /\ count[r] < committed'[r][i].launch
        BY <1>3, <1>6, <1>9, <3>1
      <4> QED
        BY <3>2, <4>1
  <2>8. Ahead'
    <3> SUFFICES ASSUME NEW p \in Rank, NEW i \in 1..Len(committed'[p])
                 PROVE  Reach(p)' <= committed'[p][i].launch
      BY DEF Ahead
    <3>1. CASE p = r
      BY <2>4, <2>7, <3>1
    <3>2. CASE p # r
      <4>1. committed'[p] = committed[p] /\ Reach(p)' = Reach(p)
        BY <1>3, <2>4, <3>2
      <4> QED
        BY <4>1 DEF Clock, Ahead
    <3> QED
      BY <3>1, <3>2
  <2> QED
    BY <2>1, <2>2, <2>3, <2>6, <2>8 DEF Clock
<1>12. Minutes(seqr, T)' /\ Letters(seqr, down, T)' /\ Ordered(down)' /\ Armed(seqr, T)' /\ Fallbacks(seqr, T)'
  <2>1. Minutes(seqr, T)'
    BY <1>4 DEF Books, Minutes, Numbers
  <2>2. Letters(seqr, down, T)'
    <3>1. UNCHANGED <<seqr, down, armed>>
      BY <1>4
    <3>2. Letters(seqr, down, T)
      BY DEF Books
    <3> QED
      BY <3>1, <3>2, LettersKept
  <2>3. Ordered(down)'
    BY <1>4 DEF Books, Ordered, Follows
  <2>4. Armed(seqr, T)'
    BY <1>4 DEF Books, Armed, Numbers
  <2>5. Fallbacks(seqr, T)'
    BY <1>4 DEF Books, Fallbacks, Numbers
  <2> QED
    BY <2>1, <2>2, <2>3, <2>4, <2>5
<1>13. Gathering(seqr, up, down)' /\ Replies(seqr, up)'
  <2>1. Gathering(seqr, up, down)'
    BY <1>4 DEF Books, Gathering, Asked, Said, SaidAt, Heard, Numbers
  <2>2. Replies(seqr, up)'
    BY <1>4 DEF Books, Replies, Numbers
  <2> QED
    BY <2>1, <2>2
<1>14. Boarded(seqr, T)'
  BY <1>3, <1>4, <1>8 DEF Books, Boarded, Numbers
<1>15. Agreement(seqr, down, T)'
  <2>1. Agreement(seqr, down, T)
    BY DEF Books
  <2>2. ASSUME NEW p \in Rank, NEW i \in 1..Len(committed'[p])
        PROVE  /\ committed'[p][i].seq \in Numbers(seqr) /\ committed'[p][i].req = T[committed'[p][i].seq].req
               /\ committed'[p][i].launch = T[committed'[p][i].seq].fate
               /\ \A d \in armed[p] : d.seq # committed'[p][i].seq
               /\ \A j \in 1..Len(committed'[p]) : i < j => committed'[p][i].seq < committed'[p][j].seq
               /\ \A j \in 1..Len(down[p]) : down[p][j].m.type = "Commit" => committed'[p][i].seq < down[p][j].m.seq
    <3>1. CASE p = r
      <4>1. i + 1 \in 1..Len(committed[r]) /\ committed'[r][i] = committed[r][i + 1]
        BY <1>6, <3>1
      <4>2. \A j \in 1..Len(committed'[r]) : i < j => committed'[r][i].seq < committed'[r][j].seq
        <5> SUFFICES ASSUME NEW j \in 1..Len(committed'[r]), i < j
                     PROVE  committed'[r][i].seq < committed'[r][j].seq
          OBVIOUS
        <5>1. j + 1 \in 1..Len(committed[r]) /\ committed'[r][j] = committed[r][j + 1] /\ i + 1 < j + 1
          BY <1>6, <3>1
        <5> QED
          BY <2>1, <4>1, <5>1 DEF Agreement
      <4> QED
        BY <2>1, <3>1, <4>1, <4>2 DEF Agreement
    <3>2. CASE p # r
      BY <1>3, <2>1, <3>2, SMTT(20) DEF Agreement
    <3> QED
      BY <3>1, <3>2
  <2> QED
    BY <1>4, <2>2 DEF Agreement, Numbers
<1>16. \A x \in Request : Unnumbered(seqr, T, x) => x # w.req
  BY <1>8 DEF Unnumbered
<1>17. Asking(seqr, up, T)'
  <2>1. ASSUME NEW p \in Rank, NEW i \in 1..Len(up[p]), up[p][i].m.type = "Request"
        PROVE  posted'[Home[up[p][i].m.req]] = posted[Home[up[p][i].m.req]]
    <3>1. PICK x \in Request : x = up[p][i].m.req
      BY <2>1, LinkTypes, BodyFacts DEF SlotInv, HubTypes
    <3>2. posted[Home[x]].req = x /\ Unnumbered(seqr, T, x)
      BY <2>1, <3>1 DEF Books, Asking, Own
    <3> QED
      BY <1>10, <1>16, <3>1, <3>2
  <2>2. UNCHANGED <<seqr, up>>
    BY <1>4
  <2>3. Asking(seqr, up, T)
    BY DEF Books
  <2> QED
    BY <2>1, <2>2, <2>3, AskingKept
<1>18. InLine(seqr, T)'
  <2>1. ASSUME NEW i \in 1..Len(seqr.queue) PROVE posted'[Home[seqr.queue[i]]] = posted[Home[seqr.queue[i]]]
    <3>1. PICK x \in Request : x = seqr.queue[i]
      BY SequencerFields, ElementOfSeq DEF SlotInv, HubTypes
    <3>2. posted[Home[x]].req = x /\ Unnumbered(seqr, T, x)
      BY <3>1 DEF Books, InLine, Own
    <3> QED
      BY <1>10, <1>16, <3>1, <3>2
  <2> QED
    BY <1>4, <2>1 DEF Books, InLine, Own, Unnumbered, Numbers
<1>19. Awaited(seqr, down)'
  <2>1. seqr.gathering # None => posted'[Home[seqr.gathering.req]].req = seqr.gathering.req
    <3> SUFFICES ASSUME seqr.gathering # None PROVE posted'[Home[seqr.gathering.req]].req = seqr.gathering.req
      OBVIOUS
    <3>1. seqr.gathering.req \in Request /\ posted[Home[seqr.gathering.req]].req = seqr.gathering.req
      BY GatheringHome DEF SlotInv, Books, Awaited
    <3>2. PICK k \in Numbers(seqr) : k = seqr.gathering.seq /\ T[k].req = seqr.gathering.req
      <4>1. seqr.next \in Nat
        BY SequencerFields DEF SlotInv, HubTypes
      <4> QED
        BY <4>1 DEF Books, Minutes, Numbers
    <3>3. T[k].fate = Open
      BY <3>2 DEF Books, Minutes
    <3>4. seqr.gathering.req # w.req
      BY <1>8, <3>2, <3>3, OneNumber DEF Books, Open
    <3> QED
      BY <1>10, <3>1, <3>4
  <2>2. ASSUME NEW p \in Rank, NEW i \in 1..Len(down[p]), down[p][i].m.type = "Gather",
               Home[down[p][i].m.req] = p
        PROVE  posted'[p].req = down[p][i].m.req /\ posted'[p].seq = -1
    <3>1. PICK x \in Request : x = down[p][i].m.req
      BY <2>2, LinkTypes, BodyFacts DEF SlotInv, HubTypes
    <3>2. posted[p].req = x /\ posted[p].seq = -1 /\ Home[x] = p
      BY <2>2, <3>1, SMTT(60) DEF Books, Awaited, Own
    <3>3. down[p][i].m.seq \in Numbers(seqr) /\ x = T[down[p][i].m.seq].req /\ T[down[p][i].m.seq].fate < 0
      BY <2>2, <3>1 DEF Books, Letters, Fits
    <3>4. x # w.req
      BY <1>8, <3>3, OneNumber DEF Books
    <3> QED
      BY <1>10, <3>1, <3>2, <3>4
  <2>3. ASSUME NEW p \in Rank, NEW d \in armed[p], Home[d.req] = p
        PROVE  posted'[p].req = d.req /\ posted'[p].seq = d.seq
    <3>1. d.req \in Request /\ posted[p].req = d.req /\ posted[p].seq = d.seq
      BY <2>3, BodyFacts DEF SlotInv, HubTypes, Books, Awaited, Own
    <3>2. p = r => d.seq # w.seq
      BY <1>3, <1>8, SMTT(60) DEF Books, Agreement
    <3>3. p = r => d.req # w.req
      BY <1>8, <3>2, OneNumber DEF Books, Armed
    <3> QED
      BY <1>10, <2>3, <3>1, <3>3
  <2>4. ASSUME NEW p \in Rank, NEW i \in 1..Len(committed'[p]), Home[committed'[p][i].req] = p
        PROVE  posted'[p].req = committed'[p][i].req /\ posted'[p].seq = committed'[p][i].seq
    <3>1. PICK j \in 1..Len(committed[p]) : committed'[p][i] = committed[p][j]
      BY <1>7
    <3>2. PICK v \in Agreed : v = committed[p][j]
      BY LinkTypes DEF SlotInv, HubTypes
    <3>3. v.req \in Request /\ posted[p].req = v.req /\ posted[p].seq = v.seq
      BY <2>4, <3>1, <3>2, BodyFacts, SMTT(60) DEF Books, Awaited, Own
    <3>4. v.seq \in Numbers(seqr) /\ v.req = T[v.seq].req
      BY <3>2 DEF Books, Agreement
    <3>5. p = r => v.req # w.req
      BY <1>8, <1>9, <3>1, <3>2, <3>4, OneNumber DEF Books
    <3> QED
      BY <1>10, <2>4, <3>1, <3>2, <3>3, <3>5
  <2> QED
    BY <1>4, <2>1, <2>2, <2>3, <2>4, SMTT(60) DEF Awaited, Own
<1>20. Numbered(seqr, T)'
  <2>1. \A p \in Rank : posted'[p] = posted[p] \/ posted'[p].seq = -1
    BY <1>3 DEF NoPost
  <2> QED
    BY <1>4, <2>1 DEF Books, Numbered, Numbers
<1>21. Refusals(down, T)'
  <2> SUFFICES ASSUME NEW p \in Rank, NEW i \in 1..Len(down[p]), Bare(down, p, i)
               PROVE  posted'[p] = posted[p]
    BY <1>4 DEF Refusals, Bare, Books
  <2>1. down[p][i].m.seq \in Numbers(seqr) /\ T[down[p][i].m.seq].fate = Dropped
    BY DEF Bare, Books, Letters, Fits
  <2>2. posted[p].req = T[down[p][i].m.seq].req
    BY DEF Refusals, Books
  <2>3. posted[p].req # w.req
    BY <1>8, <2>1, <2>2, OneNumber DEF Books, Dropped
  <2> QED
    BY <1>3, <2>3
<1> QED
  BY <1>11, <1>12, <1>13, <1>14, <1>15, <1>17, <1>18, <1>19, <1>20, <1>21 DEF Books

\* The owner posts a long prompt.
LEMMA PostWhaleBooks ==
    ASSUME SlotInv, Clock, NEW T, Books(seqr, up, down, T), NEW r \in Rank, PostWhale(r)
    PROVE  Clock' /\ Books(seqr, up, down, T)'
<1>1. PICK q : q = Head(queued[r])
  OBVIOUS
<1>2. /\ lane = "whale" /\ posted[r] = NoPost /\ queued[r] # <<>>
      /\ UNCHANGED <<seqr, down, armed, committed, fallback, lane, entered, count, pc, fatal>>
  BY DEF PostWhale, Runs, WhaleKinds, MayPost, const, member, board
<1>3. q \in Request /\ Home[q] = r /\ state[q] = "queued"
  <2>1. queued[r] \in Seq(Request)
    BY DEF SlotInv, Queues
  <2>2. 1 \in 1..Len(queued[r]) /\ q = queued[r][1]
    BY <1>1, <1>2, <2>1, TailFacts
  <2> QED
    BY <2>2 DEF SlotInv, Queues, Hers
<1>4. PICK x : x = Stamp([type |-> "Request", req |-> q])
  OBVIOUS
<1>5. x \in Report /\ x.m.type = "Request" /\ x.m.req = q /\ x.due = Now + Latency
  BY <1>3, <1>4, NowFacts, TimeFacts DEF Stamp, Report, UpBody, SlotInv, TypeOK
<1>6. up'[r] = Append(up[r], x) /\ up[r] \in Seq(Report) /\ \A p \in Rank \ {r} : up'[p] = up[p]
  BY <1>1, <1>4 DEF PostWhale, SlotInv, HubTypes
<1>7. /\ Len(up[r]) \in Nat /\ Len(up'[r]) = Len(up[r]) + 1
      /\ up'[r][Len(up[r]) + 1] = x /\ \A i \in 1..Len(up[r]) : up'[r][i] = up[r][i]
      /\ \A i \in 1..Len(up'[r]) : i = Len(up[r]) + 1 \/ i \in 1..Len(up[r])
  BY <1>5, <1>6, AppendFacts
<1>8. \A p \in Rank : \A i \in 1..Len(up'[p]) :
          \/ p = r /\ i = Len(up[r]) + 1 /\ up'[p][i] = x
          \/ i \in 1..Len(up[p]) /\ up'[p][i] = up[p][i]
  BY <1>6, <1>7
<1>9. /\ posted'[r] = [req |-> q, seq |-> -1] /\ \A p \in Rank \ {r} : posted'[p] = posted[p]
      /\ state' = [state EXCEPT ![q] = "posted"]
  BY <1>1 DEF PostWhale, SlotInv, Posts
<1>10. \A y \in Request : posted[r].req # y
  BY <1>2, K3Assumption DEF NoPost
<1>11. ASSUME NEW y \in Request, posted[Home[y]].req = y
       PROVE  Home[y] \in Rank /\ Home[y] # r /\ y # q /\ posted'[Home[y]] = posted[Home[y]]
  <2>1. Home[y] \in Rank
    BY K3Assumption
  <2> QED
    BY <1>3, <1>9, <1>10, <1>11, <2>1
<1>12. Clock'
  <2>1. Pace' /\ Promised(down)' /\ Ahead'
    BY <1>2 DEF Clock, Pace, Paired, Promised, Reach, Ahead
  <2>2. Lanes'
    BY <1>2 DEF Clock, Lanes, IsQuiet
  <2>3. \A p \in Rank : count[p] \in Nat /\ count[p] <= Now /\ Now \in Nat
    BY NowFacts DEF SlotInv, TypeOK
  <2>4. \A p \in Rank : count[p] <= x.due
    BY <1>5, <2>3, TimeFacts
  <2>5. ASSUME NEW p \in Rank, NEW i \in 1..Len(up'[p])
        PROVE  /\ \A y \in Rank : count[y] <= up'[p][i].due
               /\ up'[p][i].m.type = "Ready" => up'[p][i].due <= up'[p][i].m.count + 1 + Latency
    BY <1>5, <1>8, <2>4 DEF Clock, Reported
  <2>6. Reported(up)'
    BY <1>2, <2>5 DEF Reported
  <2> QED
    BY <2>1, <2>2, <2>6 DEF Clock
<1>13. Minutes(seqr, T)'
  <2>1. state \in [Request -> States]
    BY DEF SlotInv, TypeOK, States
  <2>2. \A y \in Request : state[y] \notin {"new", "queued"} => state'[y] \notin {"new", "queued"}
    BY <1>9, <2>1
  <2>3. \A k \in Numbers(seqr) : T[k].req \in Request
    BY DEF Books, Minutes, Entry
  <2> QED
    BY <1>2, <2>2, <2>3 DEF Books, Minutes, Numbers
<1>14. Letters(seqr, down, T)' /\ Ordered(down)' /\ Armed(seqr, T)' /\ Agreement(seqr, down, T)'
  <2>1. Letters(seqr, down, T)'
    <3>1. UNCHANGED <<seqr, down, armed>>
      BY <1>2
    <3>2. Letters(seqr, down, T)
      BY DEF Books
    <3> QED
      BY <3>1, <3>2, LettersKept
  <2>2. Ordered(down)'
    BY <1>2 DEF Books, Ordered, Follows
  <2>3. Armed(seqr, T)'
    BY <1>2 DEF Books, Armed, Numbers
  <2>4. Agreement(seqr, down, T)'
    BY <1>2, SMTT(40) DEF Books, Agreement, Numbers
  <2> QED
    BY <2>1, <2>2, <2>3, <2>4
<1>15. Boarded(seqr, T)' /\ Fallbacks(seqr, T)'
  <2>1. Boarded(seqr, T)'
    BY <1>2 DEF Books, Boarded, Numbers
  <2>2. Fallbacks(seqr, T)'
    BY <1>2 DEF Books, Fallbacks, Numbers
  <2> QED
    BY <2>1, <2>2
<1>16. Gathering(seqr, up, down)'
  <2>1. \A p \in Rank : Asked(seqr, down, p)' = Asked(seqr, down, p) /\ Heard(seqr, p)' = Heard(seqr, p)
    BY <1>2 DEF Asked, Heard
  <2>2. \A p \in Rank : \A i \in 1..Len(up'[p]) :
            SaidAt(seqr, up, p, i)' <=> i \in 1..Len(up[p]) /\ SaidAt(seqr, up, p, i)
    <3> SUFFICES ASSUME NEW p \in Rank, NEW i \in 1..Len(up'[p])
                 PROVE  SaidAt(seqr, up, p, i)' <=> i \in 1..Len(up[p]) /\ SaidAt(seqr, up, p, i)
      OBVIOUS
    <3>0. seqr' = seqr
      BY <1>2
    <3>1. CASE p # r
      <4>1. up'[p] = up[p]
        BY <1>6, <3>1
      <4> QED
        BY <3>0, <4>1 DEF SaidAt
    <3>2. CASE p = r
      <4>1. CASE i = Len(up[r]) + 1
        <5>1. up'[p][i].m.type # "Ready" /\ i \notin 1..Len(up[p])
          BY <1>5, <1>7, <3>2, <4>1
        <5> QED
          BY <5>1 DEF SaidAt
      <4>2. CASE i \in 1..Len(up[r])
        <5>1. up'[p][i] = up[p][i]
          BY <1>7, <3>2, <4>2
        <5> QED
          BY <3>0, <3>2, <4>2, <5>1 DEF SaidAt
      <4> QED
        BY <1>7, <3>2, <4>1, <4>2
    <3> QED
      BY <3>1, <3>2
  <2>3. \A p \in Rank : \A i \in 1..Len(up[p]) : i \in 1..Len(up'[p])
    BY <1>6, <1>7
  <2>4. \A p \in Rank : Said(seqr, up, p)' <=> Said(seqr, up, p)
    BY <2>2, <2>3 DEF Said
  <2>5. Gathering(seqr, up, down)
    BY DEF Books
  <2> QED
    BY <1>2, <2>1, <2>2, <2>4, <2>5 DEF Gathering
<1>17. Replies(seqr, up)'
  BY <1>2, <1>5, <1>8 DEF Books, Replies, Numbers
<1>18. \A i \in 1..Len(seqr.queue) : /\ seqr.queue[i] \in Request /\ posted[Home[seqr.queue[i]]].req = seqr.queue[i]
  BY SequencerFields, ElementOfSeq DEF SlotInv, HubTypes, Books, InLine, Own
<1>19. InLine(seqr, T)'
  <2>1. \A i \in 1..Len(seqr.queue) : posted'[Home[seqr.queue[i]]] = posted[Home[seqr.queue[i]]]
    BY <1>11, <1>18
  <2> QED
    BY <1>2, <2>1 DEF Books, InLine, Own, Unnumbered, Numbers
<1>20. Asking(seqr, up, T)'
  <2> SUFFICES ASSUME NEW p \in Rank, NEW i \in 1..Len(up'[p]), up'[p][i].m.type = "Request"
               PROVE  /\ Home[up'[p][i].m.req] = p
                      /\ posted'[p].req = up'[p][i].m.req /\ posted'[p].seq = -1
                      /\ Unnumbered(seqr, T, up'[p][i].m.req)
                      /\ \A j \in 1..Len(up'[p]) : up'[p][j].m.type = "Request" => i = j
                      /\ \A j \in 1..Len(seqr.queue) : seqr.queue[j] # up'[p][i].m.req
    BY <1>2 DEF Asking, Own, Unnumbered, Numbers
  <2>1. Asking(seqr, up, T)
    BY DEF Books
  <2>2. \A j \in 1..Len(up[r]) : up[r][j].m.type # "Request"
    <3> SUFFICES ASSUME NEW j \in 1..Len(up[r]), up[r][j].m.type = "Request" PROVE FALSE
      OBVIOUS
    <3>1. up[r][j].m.req \in Request
      BY LinkTypes, BodyFacts DEF SlotInv, HubTypes
    <3> QED
      BY <1>10, <2>1, <3>1, SMTT(40) DEF Asking, Own
  <2>3. CASE p = r
    <3>1. i = Len(up[r]) + 1 /\ up'[r][i] = x
      BY <1>8, <2>2, <2>3
    <3>2. \A j \in 1..Len(up'[r]) : up'[r][j].m.type = "Request" => i = j
      BY <1>8, <2>2, <3>1
    <3>3. Unnumbered(seqr, T, q)
      BY <1>3 DEF Unnumbered, Books, Minutes
    <3>4. \A j \in 1..Len(seqr.queue) : seqr.queue[j] # q
      BY <1>11, <1>18
    <3> QED
      BY <1>3, <1>5, <1>9, <2>3, <3>1, <3>2, <3>3, <3>4
  <2>4. CASE p # r
    <3>1. up'[p] = up[p] /\ posted'[p] = posted[p]
      BY <1>6, <1>9, <2>4
    <3> QED
      BY <2>1, <3>1 DEF Asking, Own
  <2> QED
    BY <2>3, <2>4
<1>21. Awaited(seqr, down)'
  <2>0. Awaited(seqr, down)
    BY DEF Books
  <2>1. seqr.gathering # None => posted'[Home[seqr.gathering.req]].req = seqr.gathering.req
    BY <1>11, <2>0, GatheringHome DEF SlotInv, Awaited
  <2>2. ASSUME NEW p \in Rank, NEW i \in 1..Len(down[p]), down[p][i].m.type = "Gather", Home[down[p][i].m.req] = p
        PROVE  posted'[p].req = down[p][i].m.req /\ posted'[p].seq = -1
    <3>1. down[p][i].m.req \in Request
      BY <2>2, LinkTypes, BodyFacts DEF SlotInv, HubTypes
    <3>2. posted[p].req = down[p][i].m.req /\ posted[p].seq = -1
      BY <2>0, <2>2, SMTT(60) DEF Awaited, Own
    <3> QED
      BY <1>11, <2>2, <3>1, <3>2
  <2>3. ASSUME NEW p \in Rank, NEW d \in armed[p], Home[d.req] = p
        PROVE  posted'[p].req = d.req /\ posted'[p].seq = d.seq
    <3>1. d.req \in Request
      BY BodyFacts DEF SlotInv, HubTypes
    <3>2. posted[p].req = d.req /\ posted[p].seq = d.seq
      BY <2>0, <2>3 DEF Awaited, Own
    <3> QED
      BY <1>11, <2>3, <3>1, <3>2
  <2>4. ASSUME NEW p \in Rank, NEW i \in 1..Len(committed[p]), Home[committed[p][i].req] = p
        PROVE  posted'[p].req = committed[p][i].req /\ posted'[p].seq = committed[p][i].seq
    <3>1. committed[p][i].req \in Request
      BY LinkTypes, BodyFacts DEF SlotInv, HubTypes
    <3>2. posted[p].req = committed[p][i].req /\ posted[p].seq = committed[p][i].seq
      BY <2>0, <2>4, SMTT(60) DEF Awaited, Own
    <3> QED
      BY <1>11, <2>4, <3>1, <3>2
  <2>5. UNCHANGED <<seqr, down, armed, committed>>
    BY <1>2
  <2>6. ASSUME NEW p \in Rank, NEW i \in 1..Len(down'[p]), down'[p][i].m.type = "Gather",
               Home[down'[p][i].m.req] = p
        PROVE  posted'[p].req = down'[p][i].m.req /\ posted'[p].seq = -1
    BY <2>2, <2>5, <2>6
  <2>7. ASSUME NEW p \in Rank, NEW d \in armed'[p], Home[d.req] = p
        PROVE  posted'[p].req = d.req /\ posted'[p].seq = d.seq
    BY <2>3, <2>5, <2>7
  <2>8. ASSUME NEW p \in Rank, NEW i \in 1..Len(committed'[p]), Home[committed'[p][i].req] = p
        PROVE  posted'[p].req = committed'[p][i].req /\ posted'[p].seq = committed'[p][i].seq
    BY <2>4, <2>5, <2>8
  <2>9. seqr'.gathering # None => posted'[Home[seqr'.gathering.req]].req = seqr'.gathering.req
    BY <2>1, <2>5
  <2> QED
    BY <2>6, <2>7, <2>8, <2>9, AwaitedBy
<1>22. Numbered(seqr, T)'
  <2>1. \A p \in Rank : posted'[p] = posted[p] \/ posted'[p].seq = -1
    BY <1>9
  <2> QED
    BY <1>2, <2>1 DEF Books, Numbered, Numbers
<1>23. Refusals(down, T)'
  <2> SUFFICES ASSUME NEW p \in Rank, NEW i \in 1..Len(down[p]), Bare(down, p, i)
               PROVE  posted'[p] = posted[p]
    BY <1>2, SMTT(40) DEF Refusals, Bare, Books
  <2>1. down[p][i].m.seq \in Numbers(seqr) /\ posted[p].req = T[down[p][i].m.seq].req
    BY DEF Refusals, Books, Letters, Fits
  <2>2. posted[p].req \in Request
    BY <2>1 DEF Books, Minutes, Entry
  <2> QED
    BY <1>9, <1>10, <2>2
<1> QED
  BY <1>12, <1>13, <1>14, <1>15, <1>16, <1>17, <1>19, <1>20, <1>21, <1>22, <1>23 DEF Books

-----------------------------------------------------------------------------
(* The rendezvous: the sequencer sends.                                    *)

\* One outbound message, put on the links of those it is for.
Sent(dn, o) == [r \in Rank |-> IF r \in o.to THEN Append(dn[r], Stamp(o.m)) ELSE dn[r]]

\* Links to which x was sent for the ranks in to.
Sends(dn, d2, to, x) ==
    /\ d2 \in [Rank -> Seq(Letter)]
    /\ \A r \in Rank :
           /\ Len(dn[r]) \in Nat
           /\ \A i \in 1..Len(dn[r]) : i \in 1..Len(d2[r]) /\ d2[r][i] = dn[r][i]
           /\ r \in to => Len(dn[r]) + 1 \in 1..Len(d2[r]) /\ d2[r][Len(dn[r]) + 1] = x
           /\ \A i \in 1..Len(d2[r]) : i \in 1..Len(dn[r]) \/ (r \in to /\ i = Len(dn[r]) + 1)

\* That is what sending does.
LEMMA SentFacts ==
    ASSUME NEW dn \in [Rank -> Seq(Letter)], NEW o \in Outbound, Now \in Nat
    PROVE  /\ Stamp(o.m) \in Letter /\ Stamp(o.m).m = o.m /\ Stamp(o.m).due = Now + Latency
           /\ Sends(dn, Sent(dn, o), o.to, Stamp(o.m))
<1>1. PICK x : x = Stamp(o.m)
  OBVIOUS
<1>2. x \in Letter /\ x.m = o.m /\ x.due = Now + Latency
  BY <1>1, TimeFacts DEF Stamp, Outbound, Letter
<1>3. PICK d2 : d2 = Sent(dn, o)
  OBVIOUS
<1>4. \A r \in Rank : d2[r] = IF r \in o.to THEN Append(dn[r], x) ELSE dn[r]
  BY <1>1, <1>3 DEF Sent
<1>5. ASSUME NEW r \in Rank
      PROVE  /\ d2[r] \in Seq(Letter) /\ Len(dn[r]) \in Nat
             /\ \A i \in 1..Len(dn[r]) : i \in 1..Len(d2[r]) /\ d2[r][i] = dn[r][i]
             /\ r \in o.to => Len(dn[r]) + 1 \in 1..Len(d2[r]) /\ d2[r][Len(dn[r]) + 1] = x
             /\ \A i \in 1..Len(d2[r]) : i \in 1..Len(dn[r]) \/ (r \in o.to /\ i = Len(dn[r]) + 1)
  <2>1. dn[r] \in Seq(Letter) /\ Len(dn[r]) \in Nat
    BY LinkTypes
  <2>2. CASE r \notin o.to
    BY <1>4, <2>1, <2>2
  <2>3. CASE r \in o.to
    <3>1. PICK t : t = Append(dn[r], x)
      OBVIOUS
    <3>2. /\ t \in Seq(Letter) /\ Len(t) = Len(dn[r]) + 1
          /\ t[Len(dn[r]) + 1] = x /\ \A i \in 1..Len(dn[r]) : t[i] = dn[r][i]
          /\ \A i \in 1..Len(t) : i = Len(dn[r]) + 1 \/ i \in 1..Len(dn[r])
      BY <1>2, <2>1, <3>1, AppendFacts
    <3>3. d2[r] = t
      BY <1>4, <2>3, <3>1
    <3> QED
      BY <2>1, <2>3, <3>2, <3>3
  <2> QED
    BY <2>2, <2>3
<1>6. d2 \in [Rank -> Seq(Letter)]
  BY <1>3, <1>5 DEF Sent
<1>7. Sends(dn, d2, o.to, x)
  BY <1>5, <1>6 DEF Sends
<1> QED
  BY <1>1, <1>2, <1>3, <1>7

\* Appending after concatenating.
LEMMA ConcatAppend ==
    ASSUME NEW L, NEW a \in Seq(L), NEW b \in Seq(L), NEW x \in L
    PROVE  a \o Append(b, x) = Append(a \o b, x)
<1>1. <<x>> \in Seq(L) /\ a \o b \in Seq(L)
  BY ConcatProperties
<1>2. Append(b, x) = b \o <<x>> /\ Append(a \o b, x) = (a \o b) \o <<x>>
  BY <1>1, AppendIsConcat
<1>3. a \o (b \o <<x>>) = (a \o b) \o <<x>>
  BY <1>1, ConcatAssociative
<1> QED
  BY <1>2, <1>3

\* Delivering a list of messages is sending them one by one.
LEMMA DeliverSteps ==
    ASSUME NEW links \in [Rank -> Seq(Letter)], NEW out \in Seq(Outbound), Now \in Nat
    PROVE  \E D : /\ D[0] = links /\ D[Len(out)] = Deliver(links, out)
                  /\ \A i \in 1..Len(out) : D[i] = Sent(D[i - 1], out[i])
<1>0. PICK L \in Nat : L = Len(out) /\ \A i \in 1..L : out[i] \in Outbound
  BY LenProperties
<1>1. PICK K : K = [r \in Rank |-> CHOOSE g : MailTable(r, out, g, L)]
  OBVIOUS
<1>2. ASSUME NEW r \in Rank
      PROVE  Mail(r, out) = K[r][L] /\ \A i \in 0..L : K[r][i] = MailStep(r, out, K[r], i)
  <2>1. PICK k : k = CHOOSE g : MailTable(r, out, g, L)
    OBVIOUS
  <2>2. MailTable(r, out, k, L)
    BY <2>1, MailTabled
  <2>3. Mail(r, out) = k[L]
    BY <1>0, <2>1 DEF Mail, MailTable, MailStep
  <2>4. \A i \in 0..L : k[i] = MailStep(r, out, k, i)
    BY <2>2 DEF MailTable
  <2>5. K[r] = k
    BY <1>1, <2>1
  <2> QED
    BY <2>3, <2>4, <2>5
<1>3. ASSUME NEW r \in Rank PROVE \A i \in 0..L : K[r][i] \in Seq(Letter)
  <2>1. PICK B : B = {i \in 0..L : K[r][i] \notin Seq(Letter)}
    OBVIOUS
  <2>2. ASSUME B # {} PROVE FALSE
    <3>1. B \subseteq Nat
      BY <2>1
    <3>2. PICK n \in B : \A y \in B : n <= y
      BY <2>2, <3>1, LeastNumber
    <3>3. n \in 0..L /\ K[r][n] \notin Seq(Letter) /\ K[r][n] = MailStep(r, out, K[r], n)
      BY <1>2, <2>1
    <3>4. n # 0
      BY <3>3 DEF MailStep
    <3>5. n \in 1..L /\ n - 1 \in 0..L /\ ~ (n <= n - 1)
      BY <3>3, <3>4, <1>0
    <3>6. K[r][n - 1] \in Seq(Letter)
      BY <2>1, <3>2, <3>5
    <3>7. Stamp(out[n].m) \in Letter
      BY <1>0, <3>5, TimeFacts DEF Stamp, Outbound, Letter
    <3>8. Append(K[r][n - 1], Stamp(out[n].m)) \in Seq(Letter)
      BY <3>6, <3>7, AppendFacts
    <3> QED
      BY <3>3, <3>4, <3>6, <3>8 DEF MailStep
  <2> QED
    BY <2>1, <2>2
<1>4. PICK D : D = [i \in 0..L |-> [r \in Rank |-> links[r] \o K[r][i]]]
  OBVIOUS
<1>5. D[0] = links
  <2>1. \A r \in Rank : links[r] \o K[r][0] = links[r]
    <3> SUFFICES ASSUME NEW r \in Rank PROVE links[r] \o K[r][0] = links[r]
      OBVIOUS
    <3>1. K[r][0] = <<>> /\ links[r] \in Seq(Letter)
      BY <1>0, <1>2 DEF MailStep
    <3> QED
      BY <3>1, ConcatEmptySeq
  <2>2. D[0] = [r \in Rank |-> links[r] \o K[r][0]]
    BY <1>0, <1>4
  <2> QED
    BY <2>1, <2>2
<1>6. D[L] = Deliver(links, out)
  <2>1. D[L] = [r \in Rank |-> links[r] \o K[r][L]]
    BY <1>0, <1>4
  <2>2. \A r \in Rank : links[r] \o K[r][L] = links[r] \o Mail(r, out)
    BY <1>2
  <2> QED
    BY <2>1, <2>2 DEF Deliver
<1>7. ASSUME NEW i \in 1..L PROVE D[i] = Sent(D[i - 1], out[i])
  <2>1. i \in 0..L /\ i - 1 \in 0..L /\ i # 0
    BY <1>0
  <2>2. D[i] = [r \in Rank |-> links[r] \o K[r][i]] /\ D[i - 1] = [r \in Rank |-> links[r] \o K[r][i - 1]]
    BY <1>4, <2>1
  <2>3. ASSUME NEW r \in Rank
        PROVE  links[r] \o K[r][i] = IF r \in out[i].to THEN Append(D[i - 1][r], Stamp(out[i].m)) ELSE D[i - 1][r]
    <3>0. PICK h, x : h = K[r][i - 1] /\ x = Stamp(out[i].m)
      OBVIOUS
    <3>1. D[i - 1][r] = links[r] \o h
      BY <2>2, <3>0
    <3>2. K[r][i] = IF r \in out[i].to THEN Append(h, x) ELSE h
      BY <1>2, <2>1, <3>0 DEF MailStep
    <3>3. links[r] \in Seq(Letter) /\ h \in Seq(Letter)
      BY <1>3, <2>1, <3>0
    <3>4. x \in Letter
      BY <1>0, <3>0, TimeFacts DEF Stamp, Outbound, Letter
    <3>5. links[r] \o Append(h, x) = Append(links[r] \o h, x)
      BY <3>3, <3>4, ConcatAppend
    <3>6. CASE r \in out[i].to
      BY <3>0, <3>1, <3>2, <3>5, <3>6, Zenon
    <3>7. CASE r \notin out[i].to
      BY <3>1, <3>2, <3>7
    <3> QED
      BY <3>6, <3>7
  <2> QED
    BY <2>2, <2>3 DEF Sent
<1> QED
  BY <1>0, <1>5, <1>6, <1>7

\* A sequencer, its links and its minutes.
Office(s, u, dn) ==
    s \in Sequencer /\ s.floor >= -1 /\ u \in [Rank -> Seq(Report)] /\ dn \in [Rank -> Seq(Letter)]
Desk(s, u, dn, T) == Office(s, u, dn) /\ Books(s, u, dn, T) /\ Promised(dn)

\* A request that is posted is in nobody's fallback.
LEMMA PostedState ==
    ASSUME SlotInv, NEW q \in Request, posted[Home[q]].req = q
    PROVE  /\ Home[q] \in Rank /\ state[q] = "posted"
           /\ \A r \in Rank : fallback[r] # NoPost => fallback[r].req # q
<1>1. Home[q] \in Rank /\ q # NoReq
  BY K3Assumption
<1>2. posted[Home[q]] # NoPost
  BY <1>1 DEF NoPost
<1> QED
  BY <1>1, <1>2 DEF SlotInv, Posts, Hers

\* The head of the queue gets the next number: it is gathered, or refused.
LEMMA Numbering ==
    ASSUME SlotInv, NEW s, NEW u, NEW dn, NEW T, Desk(s, u, dn, T), s.gathering = None, Len(s.queue) >= 1,
           NEW f \in {Open, Dropped}, NEW s2 \in Sequencer,
           s2.next = s.next + 1, s2.floor = s.floor, Len(s2.queue) = Len(s.queue) - 1,
           \A i \in 1..Len(s2.queue) : s2.queue[i] = s.queue[i + 1],
           f = Open => s2.gathering = [seq |-> s.next, req |-> s.queue[1]] /\ s2.replies = {},
           f = Dropped => s2.gathering = None,
           NEW o, o = IF f = Open THEN Gather(s, 1) ELSE Refusal(s, 1)
    PROVE  \E T2 : Desk(s2, u, Sent(dn, o), T2)
<1>0. Open = -2 /\ Dropped = -1
  BY DEF Open, Dropped
<1>1. /\ s \in Sequencer /\ s.floor >= -1 /\ u \in [Rank -> Seq(Report)] /\ dn \in [Rank -> Seq(Letter)]
      /\ s.floor \in Int /\ s.next \in Nat /\ s.queue \in Seq(Request) /\ Len(s.queue) \in Nat
      /\ 1 \in 1..Len(s.queue)
  BY SequencerFields, LenProperties DEF Desk, Office
<1>2. PICK q \in Request : q = s.queue[1]
  BY <1>1, ElementOfSeq
<1>3. /\ posted[Home[q]].req = q /\ posted[Home[q]].seq = -1 /\ Unnumbered(s, T, q)
      /\ \A j \in 1..Len(s.queue) : s.queue[j] = q => j = 1
  BY <1>1, <1>2 DEF Desk, Books, InLine, Own
<1>4. /\ Home[q] \in Rank /\ state[q] = "posted"
      /\ \A r \in Rank : fallback[r] # NoPost => fallback[r].req # q
  BY <1>3, PostedState
<1>5. /\ o \in Outbound /\ o.m.seq = s.next
      /\ f = Open => o.to = Gang(Home[q]) /\ o.m.type = "Gather" /\ o.m.req = q
      /\ f = Dropped => o.to = {Home[q]} /\ o.m.type = "Cancel"
  <2>1. Refusal(s, 1) \in Outbound /\ Gather(s, 1) \in Outbound
    BY <1>1, OutboundFacts
  <2>2. s.next + 1 - 1 = s.next
    BY <1>1
  <2>3. CASE f = Open
    BY <1>0, <1>2, <2>1, <2>2, <2>3 DEF Gather
  <2>4. CASE f = Dropped
    BY <1>0, <1>2, <2>1, <2>2, <2>4 DEF Refusal
  <2> QED
    BY <2>3, <2>4
<1>6. PICK d2 : d2 = Sent(dn, o)
  OBVIOUS
<1>7. PICK x : x = Stamp(o.m)
  OBVIOUS
<1>8. Now \in Nat /\ \E p \in Rank : Now = count[p]
  BY NowFacts DEF SlotInv, TypeOK
<1>9. x \in Letter /\ x.m = o.m /\ x.due = Now + Latency /\ Sends(dn, d2, o.to, x)
  BY <1>1, <1>5, <1>6, <1>7, <1>8, SentFacts
<1>10. /\ \A k \in Numbers(s2) : k \in Numbers(s) \/ k = s.next
       /\ \A k \in Numbers(s) : k \in Numbers(s2) /\ k < s.next /\ k \in Nat
       /\ s.next \in Numbers(s2) /\ s.next \notin Numbers(s)
  <2>1. s.next \in Nat /\ s2.next = s.next + 1
    BY <1>1
  <2> QED
    BY <2>1 DEF Numbers
<1>11. PICK T2 : T2 = [k \in Numbers(s2) |-> IF k = s.next THEN [req |-> q, fate |-> f] ELSE T[k]]
  OBVIOUS
<1>12. /\ T2[s.next].req = q /\ T2[s.next].fate = f
       /\ \A k \in Numbers(s) : T2[k] = T[k]
  BY <1>10, <1>11
<1>13. ASSUME NEW r \in Rank, NEW i \in 1..Len(d2[r])
       PROVE  \/ i \in 1..Len(dn[r]) /\ d2[r][i] = dn[r][i]
              \/ r \in o.to /\ i = Len(dn[r]) + 1 /\ d2[r][i] = x
  BY <1>9 DEF Sends
<1>14. \A r \in Rank : \A i \in 1..Len(dn[r]) : dn[r][i].m.seq \in Numbers(s)
  BY DEF Desk, Books, Letters, Fits
<1>15. Minutes(s2, T2)
  <2>0. Minutes(s, T)
    BY DEF Desk, Books
  <2>1. T2 \in [Numbers(s2) -> Entry]
    <3>1. \A k \in Numbers(s) : T[k] \in Entry
      BY <2>0 DEF Minutes
    <3>2. [req |-> q, fate |-> f] \in Entry
      BY <1>0 DEF Entry
    <3> QED
      BY <1>10, <1>11, <3>1, <3>2
  <2>2. s.gathering.seq = -1
    BY DEF None
  <2>3. \A k \in Numbers(s2) : /\ T2[k].fate >= Open /\ T2[k].fate <= s2.floor
                               /\ state[T2[k].req] \notin {"new", "queued"}
    <3> SUFFICES ASSUME NEW k \in Numbers(s2)
                 PROVE  /\ T2[k].fate >= Open /\ T2[k].fate <= s2.floor
                        /\ state[T2[k].req] \notin {"new", "queued"}
      OBVIOUS
    <3>1. CASE k \in Numbers(s)
      <4>1. /\ T[k].fate >= Open /\ T[k].fate <= s.floor
            /\ state[T[k].req] \notin {"new", "queued"}
        BY <2>0, <3>1 DEF Minutes
      <4> QED
        BY <1>1, <1>12, <3>1, <4>1
    <3>2. CASE k = s.next
      BY <1>0, <1>1, <1>4, <1>12, <3>2, SMTT(40)
    <3> QED
      BY <1>10, <3>1, <3>2
  <2>4. \A k \in Numbers(s) : T[k].fate # Open
    BY <1>10, <2>0, <2>2 DEF Minutes
  <2>5. \A k \in Numbers(s2) : T2[k].fate = Open <=> k = s2.gathering.seq
    <3>1. f = Open => s2.gathering.seq = s.next
      OBVIOUS
    <3>2. f = Dropped => s2.gathering.seq = -1
      BY DEF None
    <3>3. CASE f = Open
      <4>1. \A k \in Numbers(s) : T2[k].fate # Open /\ k # s.next
        BY <1>10, <1>12, <2>4
      <4> QED
        BY <1>10, <1>12, <3>1, <3>3, <4>1
    <3>4. CASE f = Dropped
      <4>1. \A k \in Numbers(s2) : k # -1
        BY <1>1, <1>10
      <4>2. \A k \in Numbers(s) : T2[k].fate # Open
        BY <1>12, <2>4
      <4> QED
        BY <1>0, <1>10, <1>12, <3>2, <3>4, <4>1, <4>2
    <3> QED
      BY <3>3, <3>4
  <2>6. \A j, k \in Numbers(s2) : T2[j].req = T2[k].req => j = k
    BY <1>3, <1>10, <1>12, <2>0 DEF Minutes, Unnumbered
  <2>7. \A j, k \in Numbers(s2) : j < k /\ T2[j].fate >= 0 /\ T2[k].fate >= 0 => T2[j].fate < T2[k].fate
    BY <1>0, <1>10, <1>12, <2>0 DEF Minutes
  <2>8. s2.gathering # None => /\ s2.gathering.seq = s2.next - 1 /\ s2.next > 0
                               /\ T2[s2.next - 1].req = s2.gathering.req
    <3>1. s2.next - 1 = s.next /\ s2.next > 0
      BY <1>1
    <3> QED
      BY <1>2, <1>12, <3>1
  <2> QED
    BY <2>1, <2>3, <2>5, <2>6, <2>7, <2>8 DEF Minutes
<1>16. Letters(s2, d2, T2)
  <2> SUFFICES ASSUME NEW r \in Rank, NEW i \in 1..Len(d2[r]) PROVE Fits(s2, T2, r, d2[r][i].m)
    BY DEF Letters
  <2>1. CASE i \in 1..Len(dn[r]) /\ d2[r][i] = dn[r][i]
    <3>1. Fits(s, T, r, dn[r][i].m)
      BY <2>1 DEF Desk, Books, Letters
    <3> QED
      BY <1>10, <1>12, <2>1, <3>1 DEF Fits
  <2>2. CASE r \in o.to /\ d2[r][i] = x
    <3>1. d2[r][i].m = o.m
      BY <1>9, <2>2
    <3>2. f = Open => o.m.type = "Gather" /\ o.m.req = q /\ f < 0
      BY <1>0, <1>5
    <3> QED
      BY <1>5, <1>10, <1>12, <3>1, <3>2 DEF Fits
  <2> QED
    BY <1>13, <2>1, <2>2
<1>17. \A r \in Rank : \A i \in 1..Len(dn[r]) : dn[r][i].due \in Nat /\ dn[r][i].due <= x.due
  <2> SUFFICES ASSUME NEW r \in Rank, NEW i \in 1..Len(dn[r]) PROVE dn[r][i].due \in Nat /\ dn[r][i].due <= x.due
    OBVIOUS
  <2>1. dn[r][i].due \in Nat
    BY <1>1, LinkTypes, BodyFacts
  <2>2. PICK p \in Rank : dn[r][i].due <= count[p] + Latency
    BY DEF Desk, Promised
  <2>3. count[p] <= Now /\ count[p] \in Nat
    BY NowFacts DEF SlotInv, TypeOK
  <2>4. PICK y : y = dn[r][i].due
    OBVIOUS
  <2>5. y \in Nat /\ y <= count[p] + Latency
    BY <2>1, <2>2, <2>4
  <2>6. y <= x.due
    BY <1>8, <1>9, <2>3, <2>5, TimeFacts
  <2> QED
    BY <2>4, <2>5, <2>6
<1>18. Ordered(d2)
  <2> SUFFICES ASSUME NEW r \in Rank, NEW i \in 1..Len(d2[r]), NEW j \in 1..Len(d2[r]), i < j
               PROVE  Follows(d2[r][i], d2[r][j])
    BY DEF Ordered
  <2>0. Len(dn[r]) \in Nat
    BY <1>9 DEF Sends
  <2>1. CASE j \in 1..Len(dn[r]) /\ d2[r][j] = dn[r][j]
    <3>1. i \in 1..Len(dn[r]) /\ d2[r][i] = dn[r][i]
      BY <1>13, <2>0, <2>1
    <3> QED
      BY <2>1, <3>1 DEF Desk, Books, Ordered
  <2>2. CASE j = Len(dn[r]) + 1 /\ d2[r][j] = x
    <3>1. i \in 1..Len(dn[r]) /\ d2[r][i] = dn[r][i]
      BY <1>13, <2>0, <2>2
    <3>2. PICK a : a = dn[r][i]
      OBVIOUS
    <3>3. a.m.seq \in Numbers(s) /\ a.due <= x.due
      BY <1>14, <1>17, <3>1, <3>2
    <3>4. a.m.seq < x.m.seq /\ a.m.seq \in Nat /\ x.m.seq \in Nat
      BY <1>1, <1>5, <1>9, <1>10, <3>3
    <3>5. Follows(a, x)
      BY <3>3, <3>4 DEF Follows
    <3> QED
      BY <2>2, <3>1, <3>2, <3>5
  <2> QED
    BY <1>13, <2>1, <2>2
<1>19. Armed(s2, T2) /\ Boarded(s2, T2)
  BY <1>10, <1>12 DEF Desk, Books, Armed, Boarded
<1>20. Agreement(s2, d2, T2)
  <2>0. Agreement(s, dn, T)
    BY DEF Desk, Books
  <2>1. ASSUME NEW r \in Rank, NEW i \in 1..Len(committed[r]), NEW j \in 1..Len(d2[r]), d2[r][j].m.type = "Commit"
        PROVE  committed[r][i].seq < d2[r][j].m.seq
    <3>1. j \in 1..Len(dn[r]) /\ d2[r][j] = dn[r][j]
      BY <1>0, <1>5, <1>9, <1>13, <2>1
    <3> QED
      BY <2>0, <2>1, <3>1 DEF Agreement
  <2>2. ASSUME NEW r \in Rank, NEW i \in 1..Len(committed[r])
        PROVE  /\ committed[r][i].seq \in Numbers(s2) /\ committed[r][i].req = T2[committed[r][i].seq].req
               /\ committed[r][i].launch = T2[committed[r][i].seq].fate
    <3>1. PICK v : v = committed[r][i]
      OBVIOUS
    <3>2. v.seq \in Numbers(s) /\ v.req = T[v.seq].req /\ v.launch = T[v.seq].fate
      BY <2>0, <3>1 DEF Agreement
    <3>3. v.seq \in Numbers(s2) /\ T2[v.seq] = T[v.seq]
      BY <1>10, <1>12, <3>2
    <3> QED
      BY <3>1, <3>2, <3>3
  <2>3. ASSUME NEW r \in Rank, NEW i \in 1..Len(committed[r])
        PROVE  /\ \A d \in armed[r] : d.seq # committed[r][i].seq
               /\ \A j \in 1..Len(committed[r]) : i < j => committed[r][i].seq < committed[r][j].seq
    BY <2>0 DEF Agreement
  <2> QED
    BY <2>1, <2>2, <2>3 DEF Agreement
<1>21. \A r \in Rank : \A i \in 1..Len(u[r]) : u[r][i].m.type = "Ready" => u[r][i].m.seq \in Numbers(s)
  BY DEF Desk, Books, Replies
<1>22. Gathering(s2, u, d2)
  <2> SUFFICES ASSUME s2.gathering # None, NEW r \in Rank
               PROVE  /\ r \in Gang(Home[s2.gathering.req]) <=> Asked(s2, d2, r)
                      /\ ~ Heard(s2, r)
                      /\ \A i \in 1..Len(u[r]) : ~ SaidAt(s2, u, r, i)
    BY DEF Gathering, Said
  <2>1. f = Open /\ s2.gathering.seq = s.next /\ s2.gathering.req = q /\ s2.replies = {}
    BY <1>2
  <2>2. \A i \in 1..Len(u[r]) : ~ SaidAt(s2, u, r, i)
    BY <1>10, <1>21, <2>1 DEF SaidAt
  <2>3. ~ Heard(s2, r)
    BY <2>1 DEF Heard
  <2>4. ASSUME r \in Gang(Home[q]) PROVE Asked(s2, d2, r)
    <3>1. Len(dn[r]) + 1 \in 1..Len(d2[r]) /\ d2[r][Len(dn[r]) + 1] = x
      BY <1>5, <1>9, <2>1, <2>4 DEF Sends
    <3> QED
      BY <1>5, <1>9, <2>1, <3>1 DEF Asked
  <2>5. ASSUME Asked(s2, d2, r) PROVE r \in Gang(Home[q])
    <3>1. PICK i \in 1..Len(d2[r]) : d2[r][i].m.seq = s.next
      BY <2>1, <2>5 DEF Asked
    <3>2. ~ (i \in 1..Len(dn[r]) /\ d2[r][i] = dn[r][i])
      BY <1>10, <1>14, <3>1
    <3> QED
      BY <1>5, <1>13, <2>1, <3>2
  <2> QED
    BY <2>1, <2>2, <2>3, <2>4, <2>5
<1>23. Replies(s2, u)
  BY <1>10, <1>21 DEF Replies
<1>24. Asking(s2, u, T2)
  <2>0. Asking(s, u, T)
    BY DEF Desk, Books
  <2> SUFFICES ASSUME NEW r \in Rank, NEW i \in 1..Len(u[r]), u[r][i].m.type = "Request"
               PROVE  /\ Unnumbered(s2, T2, u[r][i].m.req)
                      /\ \A j \in 1..Len(s2.queue) : s2.queue[j] # u[r][i].m.req
    <3>1. \A r \in Rank : \A i \in 1..Len(u[r]) : u[r][i].m.type = "Request" =>
              /\ Home[u[r][i].m.req] = r /\ Own(u[r][i].m.req, -1)
              /\ \A j \in 1..Len(u[r]) : u[r][j].m.type = "Request" => i = j
      BY <2>0 DEF Asking
    <3> QED
      BY <3>1 DEF Asking
  <2>1. /\ Unnumbered(s, T, u[r][i].m.req)
        /\ \A j \in 1..Len(s.queue) : s.queue[j] # u[r][i].m.req
    BY <2>0 DEF Asking
  <2>2. u[r][i].m.req # q
    BY <1>1, <1>2, <2>1
  <2>3. \A j \in 1..Len(s2.queue) : s2.queue[j] # u[r][i].m.req
    BY <1>1, <2>1
  <2>4. Unnumbered(s2, T2, u[r][i].m.req)
    BY <1>10, <1>12, <2>1, <2>2 DEF Unnumbered
  <2> QED
    BY <2>3, <2>4
<1>25. InLine(s2, T2)
  <2>0. InLine(s, T)
    BY DEF Desk, Books
  <2> SUFFICES ASSUME NEW i \in 1..Len(s2.queue)
               PROVE  /\ Own(s2.queue[i], -1) /\ Unnumbered(s2, T2, s2.queue[i])
                      /\ \A j \in 1..Len(s2.queue) : s2.queue[i] = s2.queue[j] => i = j
    BY DEF InLine
  <2>1. i + 1 \in 1..Len(s.queue) /\ s2.queue[i] = s.queue[i + 1] /\ i + 1 # 1
    BY <1>1
  <2>2. Own(s2.queue[i], -1) /\ Unnumbered(s, T, s2.queue[i]) /\ s2.queue[i] # q
    BY <1>3, <2>0, <2>1 DEF InLine
  <2>3. Unnumbered(s2, T2, s2.queue[i])
    BY <1>10, <1>12, <2>2 DEF Unnumbered
  <2>4. ASSUME NEW j \in 1..Len(s2.queue), s2.queue[i] = s2.queue[j] PROVE i = j
    <3>0. s2.queue[j] = s.queue[j + 1]
      OBVIOUS
    <3>1. j + 1 \in 1..Len(s.queue) /\ s2.queue[j] = s.queue[j + 1]
      BY <1>1, <3>0
    <3>2. PICK a, b : a = i + 1 /\ b = j + 1
      OBVIOUS
    <3>3. a \in 1..Len(s.queue) /\ b \in 1..Len(s.queue) /\ s.queue[a] = s.queue[b]
      BY <2>1, <2>4, <3>1, <3>2
    <3>4. a = b
      BY <2>0, <3>3 DEF InLine
    <3> QED
      BY <1>1, <3>2, <3>4
  <2> QED
    BY <2>2, <2>3, <2>4
<1>26. Awaited(s2, d2)
  <2>0. Awaited(s, dn)
    BY DEF Desk, Books
  <2>1. s2.gathering # None => posted[Home[s2.gathering.req]].req = s2.gathering.req
    BY <1>2, <1>3
  <2>2. ASSUME NEW r \in Rank, NEW i \in 1..Len(d2[r]), d2[r][i].m.type = "Gather", Home[d2[r][i].m.req] = r
        PROVE  Own(d2[r][i].m.req, -1)
    <3>1. CASE i \in 1..Len(dn[r]) /\ d2[r][i] = dn[r][i]
      BY <2>0, <2>2, <3>1 DEF Awaited
    <3>2. CASE d2[r][i] = x
      <4>1. x.m.req = q
        BY <1>5, <1>9, <2>2, <3>2
      <4> QED
        BY <1>3, <3>2, <4>1 DEF Own
    <3> QED
      BY <1>13, <3>1, <3>2
  <2> QED
    BY <2>0, <2>1, <2>2 DEF Awaited
<1>27. Numbered(s2, T2)
  BY <1>10, <1>12 DEF Desk, Books, Numbered
<1>28. Refusals(d2, T2)
  <2> SUFFICES ASSUME NEW r \in Rank, NEW i \in 1..Len(d2[r]), Bare(d2, r, i)
               PROVE  posted[r].req = T2[d2[r][i].m.seq].req /\ posted[r].seq = -1
    BY DEF Refusals
  <2>0. Len(dn[r]) \in Nat
    BY <1>9 DEF Sends
  <2>1. CASE i \in 1..Len(dn[r]) /\ d2[r][i] = dn[r][i]
    <3>1. \A j \in 1..(i - 1) : d2[r][j] = dn[r][j]
      BY <1>9, <2>0, <2>1 DEF Sends
    <3>2. Bare(dn, r, i)
      BY <2>1, <3>1 DEF Bare
    <3>3. posted[r].req = T[dn[r][i].m.seq].req /\ posted[r].seq = -1
      BY <2>1, <3>2 DEF Desk, Books, Refusals
    <3> QED
      BY <1>12, <1>14, <2>1, <3>3
  <2>2. CASE r \in o.to /\ d2[r][i] = x
    <3>1. o.m.type = "Cancel" /\ d2[r][i].m.seq = s.next
      BY <1>5, <1>9, <2>2 DEF Bare
    <3>2. r = Home[q]
      BY <1>5, <2>2, <3>1
    <3> QED
      BY <1>3, <1>12, <3>1, <3>2
  <2> QED
    BY <1>13, <2>1, <2>2
<1>29. Fallbacks(s2, T2)
  BY <1>4, <1>10, <1>12 DEF Desk, Books, Fallbacks
<1>30. Promised(d2)
  <2> SUFFICES ASSUME NEW r \in Rank, NEW i \in 1..Len(d2[r])
               PROVE  /\ \E p \in Rank : d2[r][i].due <= count[p] + Latency
                      /\ d2[r][i].m.type = "Commit" => d2[r][i].due < d2[r][i].m.launch /\ Reach(r) <= d2[r][i].due
    BY DEF Promised
  <2>1. CASE i \in 1..Len(dn[r]) /\ d2[r][i] = dn[r][i]
    BY <2>1 DEF Desk, Promised
  <2>2. CASE d2[r][i] = x
    BY <1>5, <1>8, <1>9, <2>2, TimeFacts
  <2> QED
    BY <1>13, <2>1, <2>2
<1>31. Office(s2, u, d2)
  BY <1>1, <1>9 DEF Office, Sends
<1>32. Books(s2, u, d2, T2)
  BY <1>15, <1>16, <1>18, <1>19, <1>20, <1>22, <1>23, <1>24, <1>25, <1>26, <1>27, <1>28, <1>29 DEF Books
<1>33. Desk(s2, u, d2, T2)
  BY <1>30, <1>31, <1>32 DEF Desk
<1> QED
  BY <1>6, <1>33

\* A gathering ends: its whale is dropped, or everyone replied and it gets a
\* launch that no rank reaches before its commit.
LEMMA Concluding ==
    ASSUME SlotInv, NEW s, NEW u, NEW dn, NEW T, Desk(s, u, dn, T), s.gathering # None,
           NEW f, NEW fl, NEW o \in Outbound, NEW q, q = s.gathering.req,
           o.to = Gang(Home[q]), o.m.seq = s.gathering.seq,
           \/ f = Dropped /\ fl = s.floor /\ o.m.type = "Cancel"
           \/ /\ f \in Nat /\ f > s.floor /\ fl = f /\ Now + Latency < f
              /\ o.m.type = "Commit" /\ o.m.launch = f
              /\ \A r \in Gang(Home[q]) : Heard(s, r)
    PROVE  \E T2 : Desk(Idle(s, fl), u, Sent(dn, o), T2)
<1>0. Open = -2 /\ Dropped = -1
  BY DEF Open, Dropped
<1>1. /\ s \in Sequencer /\ s.floor >= -1 /\ u \in [Rank -> Seq(Report)] /\ dn \in [Rank -> Seq(Letter)]
      /\ s.floor \in Int /\ s.next \in Nat
  BY SequencerFields DEF Desk, Office
<1>2. f \in Int /\ f >= -1 /\ fl \in Int /\ fl >= s.floor /\ f <= fl /\ (f >= 0 => f > s.floor)
  BY <1>0, <1>1
<1>3. PICK c : c = s.gathering.seq
  OBVIOUS
<1>4. PICK s2 : s2 = Idle(s, fl)
  OBVIOUS
<1>5. /\ s2 \in Sequencer /\ s2.gathering = None /\ s2.next = s.next /\ s2.queue = s.queue
      /\ s2.floor = fl /\ Numbers(s2) = Numbers(s)
  BY <1>1, <1>2, <1>4, IdleFacts, ZenonT(30) DEF Numbers
<1>6. Minutes(s, T)
  BY DEF Desk, Books
<1>7. c = s.next - 1 /\ c \in Numbers(s) /\ T[c].req = q /\ T[c].fate = Open
  <2>1. c = s.next - 1 /\ s.next > 0 /\ T[c].req = q
    BY <1>3, <1>6 DEF Minutes
  <2>2. c \in Numbers(s)
    BY <1>1, <2>1 DEF Numbers
  <2> QED
    BY <1>3, <1>6, <2>1, <2>2 DEF Minutes
<1>8. \A k \in Numbers(s) : k \in Nat /\ k <= c /\ T[k] \in Entry /\ T[k].fate \in Int
  <2>1. \A k \in Numbers(s) : k \in Nat /\ k <= c
    BY <1>1, <1>7 DEF Numbers
  <2>2. \A k \in Numbers(s) : T[k] \in Entry
    BY <1>6 DEF Minutes
  <2>3. \A k \in Numbers(s) : T[k].fate \in Int
    BY <2>2 DEF Entry
  <2> QED
    BY <2>1, <2>2, <2>3
<1>9. PICK T2 : T2 = [k \in Numbers(s) |-> IF k = c THEN [req |-> q, fate |-> f] ELSE T[k]]
  OBVIOUS
<1>10. /\ \A k \in Numbers(s) : T2[k].req = T[k].req /\ (k # c => T2[k].fate = T[k].fate)
       /\ T2[c].fate = f
  BY <1>7, <1>9
<1>11. \A k \in Numbers(s) : (T[k].fate = Open <=> k = c) /\ T[k].fate >= Open
  BY <1>3, <1>6 DEF Minutes
<1>12. PICK d2 : d2 = Sent(dn, o)
  OBVIOUS
<1>13. PICK x : x = Stamp(o.m)
  OBVIOUS
<1>14. Now \in Nat /\ \E p \in Rank : Now = count[p]
  BY NowFacts DEF SlotInv, TypeOK
<1>15. x \in Letter /\ x.m = o.m /\ x.due = Now + Latency /\ Sends(dn, d2, o.to, x)
  BY <1>1, <1>12, <1>13, <1>14, SentFacts
<1>16. ASSUME NEW r \in Rank, NEW i \in 1..Len(d2[r])
       PROVE  \/ i \in 1..Len(dn[r]) /\ d2[r][i] = dn[r][i]
              \/ r \in Gang(Home[q]) /\ i = Len(dn[r]) + 1 /\ d2[r][i] = x
  BY <1>15 DEF Sends
<1>17. ASSUME NEW r \in Rank
       PROVE  /\ r \in Gang(Home[q]) <=> Asked(s, dn, r) \/ Said(s, u, r) \/ Heard(s, r)
              /\ Asked(s, dn, r) => ~ Said(s, u, r) /\ ~ Heard(s, r)
              /\ Said(s, u, r) \/ Heard(s, r) => \E d \in armed[r] : d.seq = c
  BY <1>3 DEF Desk, Books, Gathering
<1>18. ASSUME NEW r \in Rank, NEW i \in 1..Len(dn[r])
       PROVE  /\ Fits(s, T, r, dn[r][i].m) /\ dn[r][i].m.seq \in Numbers(s)
              /\ dn[r][i] \in Letter /\ dn[r][i].due \in Nat /\ dn[r][i].due <= x.due
              /\ dn[r][i].m.seq = c => dn[r][i].m.type = "Gather" /\ f = Dropped
  <2>1. Fits(s, T, r, dn[r][i].m) /\ dn[r][i].m.seq \in Numbers(s)
    BY DEF Desk, Books, Letters, Fits
  <2>2. dn[r][i] \in Letter
    BY <1>1, LinkTypes
  <2>3. /\ dn[r][i].due \in Nat /\ dn[r][i].m.type \in {"Gather", "Commit", "Cancel"}
        /\ dn[r][i].m.type = "Commit" => dn[r][i].m.launch \in Nat
    BY <2>2, BodyFacts
  <2>4. PICK z \in Rank : dn[r][i].due <= count[z] + Latency
    BY DEF Desk, Promised
  <2>5. count[z] <= Now /\ count[z] \in Nat
    BY NowFacts DEF SlotInv, TypeOK
  <2>6. dn[r][i].due <= x.due
    BY <1>14, <1>15, <2>3, <2>4, <2>5, TimeFacts, SMTT(40)
  <2>7. ASSUME dn[r][i].m.seq = c PROVE dn[r][i].m.type = "Gather" /\ f = Dropped
    <3>1. dn[r][i].m.type # "Cancel" /\ dn[r][i].m.type # "Commit"
      BY <1>0, <1>7, <2>1, <2>3, <2>7 DEF Fits
    <3>2. Asked(s, dn, r)
      BY <1>3, <2>7 DEF Asked
    <3>3. ~ (\A p \in Gang(Home[q]) : Heard(s, p))
      BY <1>17, <3>2
    <3> QED
      BY <2>3, <3>1, <3>3
  <2> QED
    BY <2>1, <2>2, <2>3, <2>6, <2>7
<1>19. Minutes(s2, T2)
  <2>1. T2 \in [Numbers(s2) -> Entry]
    <3>1. q \in Request
      BY <1>7, <1>8 DEF Entry
    <3>2. [req |-> q, fate |-> f] \in Entry
      BY <1>2, <3>1 DEF Entry
    <3> QED
      BY <1>5, <1>8, <1>9, <3>2
  <2>2. s2.gathering.seq = -1
    BY <1>5 DEF None
  <2>3. ASSUME NEW k \in Numbers(s2)
        PROVE  /\ T2[k].fate >= Open /\ T2[k].fate <= s2.floor
               /\ T2[k].fate = Open <=> k = s2.gathering.seq
               /\ state[T2[k].req] \notin {"new", "queued"}
    <3>1. k \in Numbers(s) /\ T[k].fate <= s.floor /\ state[T[k].req] \notin {"new", "queued"}
      BY <1>5, <1>6 DEF Minutes
    <3>2. T2[k].req = T[k].req
      BY <1>10, <3>1
    <3>3. CASE k = c
      BY <1>0, <1>2, <1>5, <1>8, <1>10, <2>2, <3>1, <3>2, <3>3
    <3>4. CASE k # c
      BY <1>0, <1>1, <1>2, <1>5, <1>8, <1>10, <1>11, <2>2, <3>1, <3>2, <3>4
    <3> QED
      BY <3>3, <3>4
  <2>4. \A j, k \in Numbers(s2) : T2[j].req = T2[k].req => j = k
    BY <1>5, <1>6, <1>10 DEF Minutes
  <2>5. ASSUME NEW j \in Numbers(s2), NEW k \in Numbers(s2), j < k, T2[j].fate >= 0, T2[k].fate >= 0
        PROVE  T2[j].fate < T2[k].fate
    <3>0. j \in Numbers(s) /\ k \in Numbers(s) /\ j # c /\ T[j].fate <= s.floor
      <4>1. j \in Numbers(s) /\ k \in Numbers(s) /\ j \in Nat /\ k \in Nat /\ k <= c /\ c \in Nat
        BY <1>5, <1>7, <1>8
      <4>2. T[j].fate <= s.floor
        BY <1>6, <4>1 DEF Minutes
      <4> QED
        BY <2>5, <4>1, <4>2
    <3>1. j # c /\ T2[j].fate = T[j].fate /\ T[j].fate <= s.floor /\ T[j].fate \in Int
      BY <1>8, <1>10, <3>0
    <3>2. CASE k = c
      BY <1>1, <1>2, <1>10, <2>5, <3>1, <3>2
    <3>3. CASE k # c
      BY <1>5, <1>6, <1>10, <2>5, <3>1, <3>3 DEF Minutes
    <3> QED
      BY <3>2, <3>3
  <2> QED
    BY <1>5, <2>1, <2>3, <2>4, <2>5 DEF Minutes
<1>20. Letters(s2, d2, T2)
  <2> SUFFICES ASSUME NEW r \in Rank, NEW i \in 1..Len(d2[r]) PROVE Fits(s2, T2, r, d2[r][i].m)
    BY DEF Letters
  <2>1. CASE i \in 1..Len(dn[r]) /\ d2[r][i] = dn[r][i]
    <3>1. Fits(s, T, r, dn[r][i].m) /\ dn[r][i].m.seq \in Numbers(s)
      BY <1>18, <2>1
    <3>2. CASE dn[r][i].m.seq # c
      BY <1>5, <1>10, <2>1, <3>1, <3>2 DEF Fits
    <3>3. CASE dn[r][i].m.seq = c
      <4>1. dn[r][i].m.type = "Gather" /\ f < 0
        BY <1>0, <1>18, <2>1, <3>3
      <4> QED
        BY <1>5, <1>10, <2>1, <3>1, <3>3, <4>1 DEF Fits
    <3> QED
      BY <3>2, <3>3
  <2>2. CASE r \in Gang(Home[q]) /\ d2[r][i] = x
    <3>1. d2[r][i].m = o.m /\ o.m.seq = c
      BY <1>3, <1>15, <2>2
    <3>2. CASE f = Dropped /\ o.m.type = "Cancel"
      BY <1>5, <1>7, <1>10, <3>1, <3>2 DEF Fits
    <3>3. CASE o.m.type = "Commit" /\ o.m.launch = f /\ \A p \in Gang(Home[q]) : Heard(s, p)
      <4>1. \E d \in armed[r] : d.seq = c
        BY <1>17, <2>2, <3>3
      <4> QED
        BY <1>5, <1>7, <1>10, <3>1, <3>3, <4>1 DEF Fits
    <3> QED
      BY <3>2, <3>3
  <2> QED
    BY <1>16, <2>1, <2>2
<1>21. Ordered(d2)
  <2> SUFFICES ASSUME NEW r \in Rank, NEW i \in 1..Len(d2[r]), NEW j \in 1..Len(d2[r]), i < j
               PROVE  Follows(d2[r][i], d2[r][j])
    BY DEF Ordered
  <2>0. Len(dn[r]) \in Nat
    BY <1>15 DEF Sends
  <2>1. CASE j \in 1..Len(dn[r]) /\ d2[r][j] = dn[r][j]
    <3>1. i \in 1..Len(dn[r]) /\ d2[r][i] = dn[r][i]
      BY <1>16, <2>0, <2>1
    <3> QED
      BY <2>1, <3>1 DEF Desk, Books, Ordered
  <2>2. CASE j = Len(dn[r]) + 1 /\ d2[r][j] = x
    <3>1. i \in 1..Len(dn[r]) /\ d2[r][i] = dn[r][i]
      BY <1>16, <2>0, <2>2
    <3>2. /\ dn[r][i].m.seq \in Nat /\ dn[r][i].m.seq <= c /\ dn[r][i].due <= x.due
          /\ dn[r][i].m.seq = c => dn[r][i].m.type = "Gather" /\ f = Dropped
      BY <1>8, <1>18, <3>1
    <3>3. x.m.seq = c /\ (f = Dropped => x.m.type = "Cancel")
      BY <1>0, <1>3, <1>15
    <3> QED
      BY <2>2, <3>1, <3>2, <3>3 DEF Follows
  <2> QED
    BY <1>16, <2>1, <2>2
<1>22. Armed(s2, T2)
  BY <1>5, <1>10 DEF Desk, Books, Armed
<1>23. Boarded(s2, T2)
  <2> SUFFICES ASSUME lane = "whale", NEW e \in entered
               PROVE  e[1] \in Numbers(s2) /\ e[3] = T2[e[1]].fate /\ e[3] >= 0
    BY DEF Boarded
  <2>1. e[1] \in Numbers(s) /\ e[3] = T[e[1]].fate /\ e[3] >= 0
    BY DEF Desk, Books, Boarded
  <2>2. e[1] # c
    BY <1>0, <1>7, <2>1
  <2> QED
    BY <1>5, <1>10, <2>1, <2>2
<1>24. Agreement(s2, d2, T2)
  <2>0. Agreement(s, dn, T)
    BY DEF Desk, Books
  <2>1. ASSUME NEW r \in Rank, NEW i \in 1..Len(committed[r])
        PROVE  /\ committed[r][i].seq \in Numbers(s) /\ committed[r][i].seq # c
               /\ committed[r][i].req = T[committed[r][i].seq].req
               /\ committed[r][i].launch = T[committed[r][i].seq].fate
    <3>1. /\ committed[r][i].seq \in Numbers(s) /\ committed[r][i].req = T[committed[r][i].seq].req
          /\ committed[r][i].launch = T[committed[r][i].seq].fate
      BY <2>0 DEF Agreement
    <3>2. committed[r][i].launch \in Nat
      BY LinkTypes, BodyFacts DEF SlotInv, HubTypes
    <3> QED
      BY <1>0, <1>7, <3>1, <3>2
  <2>2. ASSUME NEW r \in Rank, NEW i \in 1..Len(committed[r]), NEW j \in 1..Len(d2[r]), d2[r][j].m.type = "Commit"
        PROVE  committed[r][i].seq < d2[r][j].m.seq
    <3>1. CASE j \in 1..Len(dn[r]) /\ d2[r][j] = dn[r][j]
      BY <2>0, <2>2, <3>1 DEF Agreement
    <3>2. CASE d2[r][j] = x
      <4>1. d2[r][j].m.seq = c
        BY <1>3, <1>15, <3>2
      <4>2. PICK n : n = committed[r][i].seq
        OBVIOUS
      <4>3. n \in Nat /\ n <= c /\ n # c /\ c \in Nat
        BY <1>7, <1>8, <2>1, <4>2
      <4> QED
        BY <4>1, <4>2, <4>3
    <3> QED
      BY <1>16, <3>1, <3>2
  <2>3. ASSUME NEW r \in Rank, NEW i \in 1..Len(committed[r])
        PROVE  /\ committed[r][i].seq \in Numbers(s2) /\ committed[r][i].req = T2[committed[r][i].seq].req
               /\ committed[r][i].launch = T2[committed[r][i].seq].fate
    BY <1>5, <1>10, <2>1
  <2> QED
    BY <2>0, <2>2, <2>3 DEF Agreement
<1>25. Gathering(s2, u, d2) /\ Replies(s2, u)
  BY <1>5 DEF Desk, Books, Gathering, Replies
<1>26. Asking(s2, u, T2) /\ InLine(s2, T2)
  <2>1. Asking(s, u, T) /\ InLine(s, T)
    BY DEF Desk, Books
  <2>2. \A y : Unnumbered(s, T, y) => Unnumbered(s2, T2, y)
    BY <1>5, <1>10 DEF Unnumbered
  <2> QED
    BY <1>5, <2>1, <2>2 DEF Asking, InLine
<1>27. Awaited(s2, d2)
  <2>0. Awaited(s, dn)
    BY DEF Desk, Books
  <2>1. ASSUME NEW r \in Rank, NEW i \in 1..Len(d2[r]), d2[r][i].m.type = "Gather"
        PROVE  i \in 1..Len(dn[r]) /\ d2[r][i] = dn[r][i]
    BY <1>15, <1>16, <2>1
  <2> QED
    BY <1>5, <2>0, <2>1 DEF Awaited
<1>28. Numbered(s2, T2)
  BY <1>5, <1>10 DEF Desk, Books, Numbered
<1>29. Refusals(d2, T2)
  <2> SUFFICES ASSUME NEW r \in Rank, NEW i \in 1..Len(d2[r]), Bare(d2, r, i)
               PROVE  posted[r].req = T2[d2[r][i].m.seq].req /\ posted[r].seq = -1
    BY DEF Refusals
  <2>0. Len(dn[r]) \in Nat
    BY <1>15 DEF Sends
  <2>1. CASE i \in 1..Len(dn[r]) /\ d2[r][i] = dn[r][i]
    <3>1. \A j \in 1..(i - 1) : d2[r][j] = dn[r][j]
      BY <1>15, <2>0, <2>1 DEF Sends
    <3>2. Bare(dn, r, i)
      BY <2>1, <3>1 DEF Bare
    <3>3. posted[r].req = T[dn[r][i].m.seq].req /\ posted[r].seq = -1
      BY <2>1, <3>2 DEF Desk, Books, Refusals
    <3> QED
      BY <1>10, <1>18, <2>1, <3>3
  <2>2. CASE r \in Gang(Home[q]) /\ i = Len(dn[r]) + 1 /\ d2[r][i] = x
    <3>1. d2[r][i].m.seq = c
      BY <1>3, <1>15, <2>2
    <3>2. \A j \in 1..Len(dn[r]) : d2[r][j] = dn[r][j] /\ j \in 1..(i - 1)
      BY <1>15, <2>0, <2>2 DEF Sends
    <3>3. ~ Asked(s, dn, r)
      BY <1>3, <3>1, <3>2 DEF Asked, Bare
    <3>4. \A d \in armed[r] : d.seq # c
      BY <3>1 DEF Bare
    <3> QED
      BY <1>17, <2>2, <3>3, <3>4
  <2> QED
    BY <1>16, <2>1, <2>2
<1>30. Fallbacks(s2, T2)
  <2>1. q \in Request /\ posted[Home[q]].req = q
    BY <1>7, <1>8 DEF Entry, Desk, Books, Awaited
  <2>2. \A r \in Rank : fallback[r] # NoPost => fallback[r].req # q
    BY <2>1, PostedState
  <2> QED
    BY <1>5, <1>7, <1>10, <2>2 DEF Desk, Books, Fallbacks
<1>31. Promised(d2)
  <2> SUFFICES ASSUME NEW r \in Rank, NEW i \in 1..Len(d2[r])
               PROVE  /\ \E p \in Rank : d2[r][i].due <= count[p] + Latency
                      /\ d2[r][i].m.type = "Commit" => d2[r][i].due < d2[r][i].m.launch /\ Reach(r) <= d2[r][i].due
    BY DEF Promised
  <2>1. CASE i \in 1..Len(dn[r]) /\ d2[r][i] = dn[r][i]
    BY <2>1 DEF Desk, Promised
  <2>2. CASE d2[r][i] = x
    <3>1. count[r] <= Now /\ count[r] \in Nat
      BY NowFacts DEF SlotInv, TypeOK
    <3>2. Reach(r) <= Now + Latency
      BY <1>14, <3>1, TimeFacts DEF Reach
    <3>3. \E p \in Rank : x.due <= count[p] + Latency
      BY <1>14, <1>15, TimeFacts
    <3> QED
      BY <1>15, <2>2, <3>2, <3>3
  <2> QED
    BY <1>16, <2>1, <2>2
<1>32. Office(s2, u, d2)
  BY <1>1, <1>2, <1>5, <1>15 DEF Office, Sends
<1>33. Books(s2, u, d2, T2)
  BY <1>19, <1>20, <1>21, <1>22, <1>23, <1>24, <1>25, <1>26, <1>27, <1>28, <1>29, <1>30 DEF Books
<1>34. Desk(s2, u, d2, T2)
  BY <1>31, <1>32, <1>33 DEF Desk
<1> QED
  BY <1>4, <1>12, <1>34

-----------------------------------------------------------------------------
(* The rendezvous: the sequencer reads.                                    *)

\* The reports u2 are u without the first one of r.
Opens(u, u2, r) ==
    /\ u[r] # <<>> /\ u2 \in [Rank -> Seq(Report)] /\ 1 \in 1..Len(u[r]) /\ Head(u[r]) = u[r][1]
    /\ \A p \in Rank : Len(u[p]) \in Nat /\ Len(u2[p]) \in Nat
    /\ \A p \in Rank \ {r} : u2[p] = u[p]
    /\ \A j \in 1..Len(u2[r]) : j + 1 \in 1..Len(u[r]) /\ j + 1 # 1 /\ u2[r][j] = u[r][j + 1]
    /\ \A i \in 1..Len(u[r]) : i = 1 \/ (i - 1 \in 1..Len(u2[r]) /\ u2[r][i - 1] = u[r][i])

\* Taking the first report off a link.
LEMMA OpensFacts ==
    ASSUME NEW u \in [Rank -> Seq(Report)], NEW r \in Rank, u[r] # <<>>
    PROVE  Opens(u, [u EXCEPT ![r] = Tail(@)], r)
<1>1. PICK t : t = Tail(u[r])
  OBVIOUS
<1>2. PICK u2 : u2 = [u EXCEPT ![r] = Tail(@)]
  OBVIOUS
<1>3. u2[r] = t /\ \A p \in Rank \ {r} : u2[p] = u[p]
  BY <1>1, <1>2
<1>4. u[r] \in Seq(Report) /\ \A p \in Rank : Len(u[p]) \in Nat
  BY LinkTypes
<1>5. /\ t \in Seq(Report) /\ Len(u[r]) \in Nat /\ Len(u[r]) >= 1 /\ Len(t) = Len(u[r]) - 1
      /\ Head(u[r]) = u[r][1]
      /\ \A i \in 1..Len(t) : i + 1 \in 1..Len(u[r]) /\ t[i] = u[r][i + 1]
  BY <1>1, <1>4, TailFacts
<1>6. u2 \in [Rank -> Seq(Report)]
  BY <1>1, <1>2, <1>5
<1>7. \A i \in 1..Len(u[r]) : i = 1 \/ (i - 1 \in 1..Len(u2[r]) /\ u2[r][i - 1] = u[r][i])
  <2> SUFFICES ASSUME NEW i \in 1..Len(u[r]), i # 1 PROVE i - 1 \in 1..Len(t) /\ t[i - 1] = u[r][i]
    BY <1>3
  <2>1. PICK j : j = i - 1
    OBVIOUS
  <2>2. j \in 1..Len(t) /\ j + 1 = i
    BY <1>5, <2>1
  <2>3. t[j] = u[r][j + 1]
    BY <1>5, <2>2
  <2> QED
    BY <2>1, <2>2, <2>3
<1>8. 1 \in 1..Len(u[r]) /\ \A j \in 1..Len(t) : j + 1 # 1
  BY <1>5
<1> QED
  BY <1>2, <1>3, <1>4, <1>5, <1>6, <1>7, <1>8 DEF Opens

\* What reading a report can change in the books.
LEMMA ReportBooks ==
    ASSUME NEW s, NEW u, NEW dn, NEW T, Desk(s, u, dn, T), NEW r \in Rank, NEW u2, Opens(u, u2, r),
           NEW s2 \in Sequencer, s2.next = s.next, s2.floor = s.floor, s2.gathering = s.gathering,
           Gathering(s2, u2, dn), Asking(s2, u2, T), InLine(s2, T)
    PROVE  Desk(s2, u2, dn, T)
<1>1. Numbers(s2) = Numbers(s)
  BY DEF Numbers
<1>2. Minutes(s2, T) /\ Letters(s2, dn, T) /\ Armed(s2, T) /\ Agreement(s2, dn, T) /\ Boarded(s2, T)
  <2>1. Minutes(s2, T)
    BY <1>1 DEF Desk, Books, Minutes
  <2>2. Letters(s2, dn, T)
    BY <1>1 DEF Desk, Books, Letters, Fits
  <2>3. Armed(s2, T)
    BY <1>1 DEF Desk, Books, Armed
  <2>4. Agreement(s2, dn, T)
    BY <1>1 DEF Desk, Books, Agreement
  <2>5. Boarded(s2, T)
    BY <1>1 DEF Desk, Books, Boarded
  <2> QED
    BY <2>1, <2>2, <2>3, <2>4, <2>5
<1>3. Awaited(s2, dn) /\ Numbered(s2, T) /\ Fallbacks(s2, T)
  <2>1. Awaited(s2, dn)
    BY <1>1 DEF Desk, Books, Awaited
  <2>2. Numbered(s2, T)
    BY <1>1 DEF Desk, Books, Numbered
  <2>3. Fallbacks(s2, T)
    BY <1>1 DEF Desk, Books, Fallbacks
  <2> QED
    BY <2>1, <2>2, <2>3
<1>4. Replies(s2, u2)
  <2> SUFFICES ASSUME NEW p \in Rank, NEW j \in 1..Len(u2[p]), u2[p][j].m.type = "Ready"
               PROVE  u2[p][j].m.seq \in Numbers(s)
    BY <1>1 DEF Replies
  <2>1. PICK i \in 1..Len(u[p]) : u2[p][j] = u[p][i]
    <3>1. CASE p = r
      <4>1. j + 1 \in 1..Len(u[r]) /\ u2[r][j] = u[r][j + 1]
        BY <3>1 DEF Opens
      <4> QED
        BY <3>1, <4>1
    <3>2. CASE p # r
      BY <3>2 DEF Opens
    <3> QED
      BY <3>1, <3>2
  <2> QED
    BY <2>1 DEF Desk, Books, Replies
<1> QED
  BY <1>2, <1>3, <1>4 DEF Desk, Books, Office, Opens

\* The replies in flight after reading one report of r.
LEMMA SaidOpens ==
    ASSUME NEW s, NEW u, NEW dn, Gathering(s, u, dn), s.gathering # None, NEW r \in Rank, NEW u2, Opens(u, u2, r),
           NEW s2, s2.gathering = s.gathering, NEW p \in Rank
    PROVE  /\ p # r \/ ~ SaidAt(s, u, r, 1) => (Said(s2, u2, p) <=> Said(s, u, p))
           /\ p = r /\ SaidAt(s, u, r, 1) => ~ Said(s2, u2, p)
           /\ \A i, j \in 1..Len(u2[p]) : SaidAt(s2, u2, p, i) /\ SaidAt(s2, u2, p, j) => i = j
<1>1. \A i, j \in 1..Len(u[p]) : SaidAt(s, u, p, i) /\ SaidAt(s, u, p, j) => i = j
  BY DEF Gathering
<1>2. CASE p # r
  <2>1. u2[p] = u[p]
    BY <1>2 DEF Opens
  <2> QED
    BY <1>1, <1>2, <2>1 DEF Said, SaidAt
<1>3. CASE p = r
  <2>1. /\ \A j \in 1..Len(u2[r]) : j + 1 \in 1..Len(u[r]) /\ j + 1 # 1 /\ (SaidAt(s2, u2, r, j) <=> SaidAt(s, u, r, j + 1))
        /\ \A i \in 1..Len(u[r]) : i = 1 \/ (i - 1 \in 1..Len(u2[r]) /\ (SaidAt(s2, u2, r, i - 1) <=> SaidAt(s, u, r, i)))
    BY DEF Opens, SaidAt
  <2>2. ~ SaidAt(s, u, r, 1) => (Said(s2, u2, r) <=> Said(s, u, r))
    BY <2>1 DEF Said
  <2>3. SaidAt(s, u, r, 1) => ~ Said(s2, u2, r)
    <3>1. 1 \in 1..Len(u[r])
      BY DEF Opens
    <3> QED
      BY <1>1, <1>3, <2>1, <3>1 DEF Said
  <2>4. \A i, j \in 1..Len(u2[r]) : SaidAt(s2, u2, r, i) /\ SaidAt(s2, u2, r, j) => i + 1 = j + 1
    BY <1>1, <1>3, <2>1
  <2>5. \A i, j \in 1..Len(u2[r]) : i + 1 = j + 1 => i = j
    BY DEF Opens
  <2> QED
    BY <1>3, <2>2, <2>3, <2>4, <2>5
<1> QED
  BY <1>2, <1>3

\* A request joins the queue.
LEMMA Enqueued ==
    ASSUME NEW s, NEW u, NEW dn, NEW T, Desk(s, u, dn, T), NEW r \in Rank, NEW u2, Opens(u, u2, r),
           NEW q, u[r][1].m.type = "Request", q = u[r][1].m.req,
           NEW s2 \in Sequencer, s2.next = s.next, s2.floor = s.floor, s2.gathering = s.gathering,
           s2.replies = s.replies, s2.queue = Append(s.queue, q)
    PROVE  Desk(s2, u2, dn, T)
<1>0. s \in Sequencer /\ s.queue \in Seq(Request) /\ Len(s.queue) \in Nat
  BY SequencerFields, LenProperties DEF Desk, Office
<1>1. 1 \in 1..Len(u[r]) /\ Len(u[r]) \in Nat
  BY DEF Opens
<1>2. Asking(s, u, T) /\ InLine(s, T) /\ Gathering(s, u, dn)
  BY DEF Desk, Books
<1>3. /\ Home[q] = r /\ Own(q, -1) /\ Unnumbered(s, T, q)
      /\ \A j \in 1..Len(u[r]) : u[r][j].m.type = "Request" => 1 = j
      /\ \A j \in 1..Len(s.queue) : s.queue[j] # q
  BY <1>1, <1>2 DEF Asking
<1>4. q \in Request
  <2>1. u[r][1] \in Report
    BY <1>1, LinkTypes DEF Desk, Office
  <2> QED
    BY <2>1, BodyFacts
<1>5. PICK Q : Q = Append(s.queue, q)
  OBVIOUS
<1>6. /\ Q \in Seq(Request) /\ Len(Q) = Len(s.queue) + 1
      /\ Q[Len(s.queue) + 1] = q /\ \A i \in 1..Len(s.queue) : Q[i] = s.queue[i]
      /\ \A i \in 1..Len(Q) : i = Len(s.queue) + 1 \/ i \in 1..Len(s.queue)
  BY <1>0, <1>4, <1>5, AppendFacts
<1>7. /\ s2 \in Sequencer /\ s2.next = s.next /\ s2.floor = s.floor /\ s2.gathering = s.gathering
      /\ s2.replies = s.replies /\ s2.queue = Q
  BY <1>5
<1>8. Numbers(s2) = Numbers(s)
  BY <1>7 DEF Numbers
<1>9. InLine(s2, T)
  <2> SUFFICES ASSUME NEW i \in 1..Len(Q)
               PROVE  /\ Own(Q[i], -1) /\ Unnumbered(s, T, Q[i])
                      /\ \A j \in 1..Len(Q) : Q[i] = Q[j] => i = j
    BY <1>7, <1>8 DEF InLine, Unnumbered
  <2>1. Own(Q[i], -1) /\ Unnumbered(s, T, Q[i])
    BY <1>2, <1>3, <1>6 DEF InLine
  <2>2. ASSUME NEW j \in 1..Len(Q), Q[i] = Q[j] PROVE i = j
    <3>1. CASE i \in 1..Len(s.queue) /\ j \in 1..Len(s.queue)
      BY <1>2, <1>6, <2>2, <3>1 DEF InLine
    <3>2. CASE ~ (i \in 1..Len(s.queue) /\ j \in 1..Len(s.queue))
      BY <1>3, <1>6, <2>2, <3>2
    <3> QED
      BY <3>1, <3>2
  <2> QED
    BY <2>1, <2>2
<1>10. Asking(s2, u2, T)
  <2> SUFFICES ASSUME NEW p \in Rank, NEW i \in 1..Len(u2[p]), u2[p][i].m.type = "Request"
               PROVE  /\ Home[u2[p][i].m.req] = p /\ Own(u2[p][i].m.req, -1) /\ Unnumbered(s, T, u2[p][i].m.req)
                      /\ \A j \in 1..Len(u2[p]) : u2[p][j].m.type = "Request" => i = j
                      /\ \A j \in 1..Len(Q) : Q[j] # u2[p][i].m.req
    BY <1>7, <1>8 DEF Asking, Unnumbered
  <2>1. ASSUME p = r PROVE FALSE
    <3>1. PICK j : j = i + 1
      OBVIOUS
    <3>2. j \in 1..Len(u[r]) /\ j # 1 /\ u[r][j].m.type = "Request"
      BY <2>1, <3>1 DEF Opens
    <3> QED
      BY <1>3, <3>2
  <2>2. u2[p] = u[p]
    BY <2>1 DEF Opens
  <2>3. /\ Home[u[p][i].m.req] = p /\ Own(u[p][i].m.req, -1) /\ Unnumbered(s, T, u[p][i].m.req)
        /\ \A j \in 1..Len(u[p]) : u[p][j].m.type = "Request" => i = j
        /\ \A j \in 1..Len(s.queue) : s.queue[j] # u[p][i].m.req
    BY <1>2, <2>2 DEF Asking
  <2>4. \A j \in 1..Len(Q) : Q[j] # u[p][i].m.req
    BY <1>3, <1>6, <2>1, <2>3
  <2> QED
    BY <2>2, <2>3, <2>4
<1>11. Gathering(s2, u2, dn)
  <2> SUFFICES ASSUME s.gathering # None, NEW p \in Rank
               PROVE  /\ Said(s2, u2, p) <=> Said(s, u, p)
                      /\ Heard(s2, p) <=> Heard(s, p)
                      /\ Asked(s2, dn, p) <=> Asked(s, dn, p)
                      /\ \A i, j \in 1..Len(u2[p]) : SaidAt(s2, u2, p, i) /\ SaidAt(s2, u2, p, j) => i = j
    BY <1>2, <1>7 DEF Gathering
  <2>1. (Heard(s2, p) <=> Heard(s, p)) /\ (Asked(s2, dn, p) <=> Asked(s, dn, p))
    BY <1>7 DEF Heard, Asked
  <2>2. ~ SaidAt(s, u, r, 1)
    BY DEF SaidAt
  <2>3. /\ p # r \/ ~ SaidAt(s, u, r, 1) => (Said(s2, u2, p) <=> Said(s, u, p))
        /\ p = r /\ SaidAt(s, u, r, 1) => ~ Said(s2, u2, p)
        /\ \A i, j \in 1..Len(u2[p]) : SaidAt(s2, u2, p, i) /\ SaidAt(s2, u2, p, j) => i = j
    <3>1. s2.gathering = s.gathering /\ Gathering(s, u, dn)
      BY <1>2, <1>7
    <3> QED
      BY <3>1, SaidOpens
  <2> QED
    BY <2>1, <2>2, <2>3
<1> QED
  BY <1>7, <1>9, <1>10, <1>11, ReportBooks

\* A reply takes no request off the link.
LEMMA ReplyAsking ==
    ASSUME NEW s, NEW u, NEW T, Asking(s, u, T), InLine(s, T), NEW r \in Rank, NEW u2, Opens(u, u2, r),
           NEW s2, s2.next = s.next, s2.queue = s.queue
    PROVE  Asking(s2, u2, T) /\ InLine(s2, T)
<1>1. Numbers(s2) = Numbers(s)
  BY DEF Numbers
<1>2. InLine(s2, T)
  BY <1>1 DEF InLine, Unnumbered
<1>3. ASSUME NEW p \in Rank, NEW i \in 1..Len(u2[p]), u2[p][i].m.type = "Request"
      PROVE  /\ Home[u2[p][i].m.req] = p /\ Own(u2[p][i].m.req, -1) /\ Unnumbered(s, T, u2[p][i].m.req)
             /\ \A j \in 1..Len(u2[p]) : u2[p][j].m.type = "Request" => i = j
             /\ \A j \in 1..Len(s.queue) : s.queue[j] # u2[p][i].m.req
  <2>1. CASE p # r
    <3>1. u2[p] = u[p]
      BY <2>1 DEF Opens
    <3> QED
      BY <1>3, <3>1 DEF Asking
  <2>2. CASE p = r
    <3>1. \A j \in 1..Len(u2[r]) : j + 1 \in 1..Len(u[r]) /\ u2[r][j] = u[r][j + 1]
      BY DEF Opens
    <3>2. PICK k : k = i + 1
      OBVIOUS
    <3>3. k \in 1..Len(u[r]) /\ u2[r][i] = u[r][k] /\ u[r][k].m.type = "Request"
      BY <1>3, <2>2, <3>1, <3>2
    <3>4. /\ Home[u[r][k].m.req] = r /\ Own(u[r][k].m.req, -1) /\ Unnumbered(s, T, u[r][k].m.req)
          /\ \A j \in 1..Len(u[r]) : u[r][j].m.type = "Request" => k = j
          /\ \A j \in 1..Len(s.queue) : s.queue[j] # u[r][k].m.req
      BY <3>3 DEF Asking
    <3>5. ASSUME NEW j \in 1..Len(u2[r]), u2[r][j].m.type = "Request" PROVE i = j
      <4>1. k = j + 1
        BY <3>1, <3>4, <3>5
      <4> QED
        BY <2>2, <3>2, <4>1 DEF Opens
    <3> QED
      BY <2>2, <3>3, <3>4, <3>5
  <2> QED
    BY <2>1, <2>2
<1> QED
  BY <1>1, <1>2, <1>3 DEF Asking, Unnumbered

\* A reply to a gathering that is over is ignored.
LEMMA Stale ==
    ASSUME NEW s, NEW u, NEW dn, NEW T, Desk(s, u, dn, T), NEW r \in Rank, NEW u2, Opens(u, u2, r),
           s.gathering = None \/ ~ SaidAt(s, u, r, 1)
    PROVE  Desk(s, u2, dn, T)
<1>1. s \in Sequencer /\ Asking(s, u, T) /\ InLine(s, T) /\ Gathering(s, u, dn)
  BY DEF Desk, Books, Office
<1>2. Asking(s, u2, T) /\ InLine(s, T)
  BY <1>1, ReplyAsking
<1>3. Gathering(s, u2, dn)
  <2> SUFFICES ASSUME s.gathering # None, NEW p \in Rank
               PROVE  /\ Said(s, u2, p) <=> Said(s, u, p)
                      /\ \A i, j \in 1..Len(u2[p]) : SaidAt(s, u2, p, i) /\ SaidAt(s, u2, p, j) => i = j
    BY <1>1 DEF Gathering
  <2> QED
    BY <1>1, SaidOpens
<1> QED
  BY <1>1, <1>2, <1>3, ReportBooks

\* A reply to the gathering is from a member of the gang that has not replied yet.
LEMMA Counted ==
    ASSUME NEW s, NEW u, NEW dn, NEW T, Desk(s, u, dn, T), NEW r \in Rank, NEW u2, Opens(u, u2, r),
           s.gathering # None, SaidAt(s, u, r, 1), NEW e, e = [rank |-> r, count |-> u[r][1].m.count],
           NEW s2 \in Sequencer, s2.next = s.next, s2.floor = s.floor, s2.gathering = s.gathering,
           s2.replies = s.replies \cup {e}, s2.queue = s.queue
    PROVE  r \in Gang(Home[s.gathering.req]) /\ ~ Heard(s, r) /\ Desk(s2, u2, dn, T)
<1>1. s \in Sequencer /\ Asking(s, u, T) /\ InLine(s, T) /\ Gathering(s, u, dn) /\ u \in [Rank -> Seq(Report)]
  BY DEF Desk, Books, Office
<1>2. 1 \in 1..Len(u[r])
  BY DEF Opens
<1>3. Said(s, u, r)
  BY <1>2 DEF Said
<1>4. r \in Gang(Home[s.gathering.req]) /\ ~ Heard(s, r) /\ ~ Asked(s, dn, r)
  BY <1>1, <1>3 DEF Gathering
<1>5. Asking(s2, u2, T) /\ InLine(s2, T)
  BY <1>1, ReplyAsking
<1>6. Gathering(s2, u2, dn)
  <2> SUFFICES ASSUME NEW p \in Rank
               PROVE  /\ p \in Gang(Home[s2.gathering.req]) <=> Asked(s2, dn, p) \/ Said(s2, u2, p) \/ Heard(s2, p)
                      /\ Asked(s2, dn, p) => ~ Said(s2, u2, p) /\ ~ Heard(s2, p)
                      /\ Said(s2, u2, p) => ~ Heard(s2, p)
                      /\ Said(s2, u2, p) \/ Heard(s2, p) => \E d \in armed[p] : d.seq = s2.gathering.seq
                      /\ \A i, j \in 1..Len(u2[p]) : SaidAt(s2, u2, p, i) /\ SaidAt(s2, u2, p, j) => i = j
    BY DEF Gathering
  <2>1. /\ p \in Gang(Home[s.gathering.req]) <=> Asked(s, dn, p) \/ Said(s, u, p) \/ Heard(s, p)
        /\ Asked(s, dn, p) => ~ Said(s, u, p) /\ ~ Heard(s, p)
        /\ Said(s, u, p) => ~ Heard(s, p)
        /\ Said(s, u, p) \/ Heard(s, p) => \E d \in armed[p] : d.seq = s.gathering.seq
    BY <1>1 DEF Gathering
  <2>2. Asked(s2, dn, p) <=> Asked(s, dn, p)
    BY DEF Asked
  <2>3. Heard(s2, p) <=> Heard(s, p) \/ p = r
    BY DEF Heard
  <2>4. /\ p # r \/ ~ SaidAt(s, u, r, 1) => (Said(s2, u2, p) <=> Said(s, u, p))
        /\ p = r /\ SaidAt(s, u, r, 1) => ~ Said(s2, u2, p)
        /\ \A i, j \in 1..Len(u2[p]) : SaidAt(s2, u2, p, i) /\ SaidAt(s2, u2, p, j) => i = j
    <3>1. s2.gathering = s.gathering /\ Gathering(s, u, dn)
      BY <1>1
    <3> QED
      BY <3>1, SaidOpens
  <2> QED
    BY <1>3, <1>4, <2>1, <2>2, <2>3, <2>4
<1> QED
  BY <1>4, <1>5, <1>6, ReportBooks

-----------------------------------------------------------------------------
(* The rendezvous: the sequencer starts the next gather.                   *)

\* Sequencers with the same fields are the same.
LEMMA SameSequencer ==
    ASSUME NEW s \in Sequencer, NEW t \in Sequencer, t.next = s.next, t.floor = s.floor,
           t.gathering = s.gathering, t.replies = s.replies, Len(t.queue) = Len(s.queue),
           \A i \in 1..Len(s.queue) : t.queue[i] = s.queue[i]
    PROVE  t = s
<1>1. s.queue \in Seq(Request) /\ t.queue \in Seq(Request)
  BY SequencerFields
<1>2. t.queue = s.queue
  BY <1>1, SeqEqual
<1>3. /\ s = [next |-> s.next, floor |-> s.floor, gathering |-> s.gathering, replies |-> s.replies, queue |-> s.queue]
      /\ t = [next |-> t.next, floor |-> t.floor, gathering |-> t.gathering, replies |-> t.replies, queue |-> t.queue]
  BY DEF Sequencer
<1> QED
  BY <1>2, <1>3

\* The sequencer after the first n of its queue have been numbered.
Popped(s, n) == [next |-> s.next + n, floor |-> s.floor, gathering |-> None, replies |-> s.replies,
                 queue |-> SubSeq(s.queue, n + 1, Len(s.queue))]

\* The fields of the sequencer after n of its queue have been numbered.
LEMMA PoppedFacts ==
    ASSUME NEW s \in Sequencer, NEW n \in Nat, n <= Len(s.queue)
    PROVE  /\ Popped(s, n) \in Sequencer /\ Popped(s, n).next = s.next + n /\ Popped(s, n).floor = s.floor
           /\ Popped(s, n).gathering = None /\ Popped(s, n).replies = s.replies
           /\ Len(Popped(s, n).queue) = Len(s.queue) - n
           /\ \A j \in 1..(Len(s.queue) - n) : j + n \in 1..Len(s.queue) /\ Popped(s, n).queue[j] = s.queue[j + n]
<1>1. /\ s.next \in Nat /\ s.floor \in Int /\ s.replies \in SUBSET [rank : Rank, count : 0..MaxLaunch]
      /\ s.queue \in Seq(Request)
  BY SequencerFields
<1>2. Len(s.queue) \in Nat /\ \A i \in 1..Len(s.queue) : s.queue[i] \in Request
  BY <1>1, LenProperties, ElementOfSeq
<1>3. PICK Q : Q = SubSeq(s.queue, n + 1, Len(s.queue))
  OBVIOUS
<1>4. PICK L \in Nat : L = Len(s.queue)
  BY <1>2
<1>5. \A i \in (n + 1)..L : s.queue[i] \in Request
  BY <1>2, <1>4
<1>6. /\ Q \in Seq(Request) /\ Len(Q) = IF n + 1 <= L THEN L - (n + 1) + 1 ELSE 0
      /\ \A i \in 1..(L - (n + 1) + 1) : Q[i] = s.queue[(n + 1) + i - 1]
  <2>1. n + 1 \in Int /\ L \in Int
    OBVIOUS
  <2> QED
    BY <1>3, <1>4, <1>5, <2>1, SubSeqProperties, SMTT(40)
<1>7. Len(Q) = L - n /\ \A j \in 1..(L - n) : j + n \in 1..L /\ Q[j] = s.queue[j + n]
  <2>1. Len(Q) = L - n
    BY <1>4, <1>6
  <2>2. \A j \in 1..(L - n) : j + n \in 1..L /\ j \in 1..(L - (n + 1) + 1) /\ (n + 1) + j - 1 = j + n
    OBVIOUS
  <2> QED
    BY <1>6, <2>1, <2>2
<1>8. PICK t : t = Popped(s, n)
  OBVIOUS
<1>9. t = [next |-> s.next + n, floor |-> s.floor, gathering |-> None, replies |-> s.replies, queue |-> Q]
  BY <1>3, <1>8 DEF Popped
<1>10. s.next + n \in Nat /\ None \in Whale \cup {None}
  BY <1>1
<1>11. t \in Sequencer
  BY <1>1, <1>6, <1>9, <1>10, SequencerFields
<1>12. t.next = s.next + n /\ t.floor = s.floor /\ t.gathering = None /\ t.replies = s.replies /\ t.queue = Q
  BY <1>9
<1> QED
  BY <1>4, <1>7, <1>8, <1>11, <1>12

\* The head of what is left is the next of the queue.
LEMMA PoppedHead ==
    ASSUME NEW s \in Sequencer, NEW n \in Nat, n + 1 <= Len(s.queue)
    PROVE  /\ Popped(s, n).queue[1] = s.queue[n + 1] /\ Len(Popped(s, n).queue) >= 1
           /\ Refusal(Popped(s, n), 1) = Refusal(s, n + 1) /\ Gather(Popped(s, n), 1) = Gather(s, n + 1)
           /\ \A j \in 1..(Len(s.queue) - (n + 1)) : s.queue[j + (n + 1)] = Popped(s, n).queue[j + 1]
<1>1. s.next \in Nat /\ Len(s.queue) \in Nat
  BY SequencerFields, LenProperties
<1>2. PICK t : t = Popped(s, n)
  OBVIOUS
<1>3. n <= Len(s.queue)
  BY <1>1
<1>4. /\ t.next = s.next + n /\ Len(t.queue) = Len(s.queue) - n
      /\ \A j \in 1..(Len(s.queue) - n) : t.queue[j] = s.queue[j + n]
  BY <1>2, <1>3, PoppedFacts
<1>5. 1 \in 1..(Len(s.queue) - n) /\ 1 + n = n + 1 /\ t.next + 1 - 1 = s.next + (n + 1) - 1
  <2>1. t.next = s.next + n
    BY <1>4
  <2>2. 1 \in 1..(Len(s.queue) - n)
    BY <1>1
  <2> QED
    BY <1>1, <2>1, <2>2
<1>6. t.queue[1] = s.queue[n + 1]
  BY <1>4, <1>5
<1>7. \A j \in 1..(Len(s.queue) - (n + 1)) : j + 1 \in 1..(Len(s.queue) - n) /\ (j + 1) + n = j + (n + 1)
  BY <1>1
<1>8. Refusal(t, 1) = Refusal(s, n + 1) /\ Gather(t, 1) = Gather(s, n + 1)
  BY <1>5, <1>6 DEF Refusal, Gather
<1> QED
  BY <1>1, <1>2, <1>4, <1>6, <1>7, <1>8, SMTT(40)

\* The queue is numbered one by one, and every number is sent before the next.
LEMMA Popping ==
    ASSUME SlotInv, NEW s \in Sequencer, NEW u, NEW g, NEW n \in 0..Len(s.queue), Pops(s, g, n),
           NEW D, \E T : Desk(s, u, D[0], T), \A i \in 1..n : D[i] = Sent(D[i - 1], g.out[i])
    PROVE  \E T : Desk(g.s, u, D[n], T)
<1>0. n \in Nat /\ Len(s.queue) \in Nat /\ n <= Len(s.queue) /\ g.s \in Sequencer
  BY SequencerFields, LenProperties DEF Pops
<1>1. CASE n = 0
  <2>1. /\ g.s.next = s.next /\ g.s.floor = s.floor /\ g.s.gathering = s.gathering /\ g.s.replies = s.replies
        /\ Len(g.s.queue) = Len(s.queue)
    BY <1>0, <1>1, SequencerFields DEF Pops
  <2>2. \A i \in 1..Len(s.queue) : g.s.queue[i] = s.queue[i]
    <3> SUFFICES ASSUME NEW i \in 1..Len(s.queue) PROVE g.s.queue[i] = s.queue[i]
      OBVIOUS
    <3>1. i \in 1..(Len(s.queue) - n) /\ i + n = i
      BY <1>0, <1>1
    <3>2. g.s.queue[i] = s.queue[i + n]
      BY <3>1 DEF Pops
    <3> QED
      BY <3>1, <3>2
  <2>3. g.s = s
    BY <1>0, <2>1, <2>2, SameSequencer
  <2> QED
    BY <1>1, <2>3
<1>2. CASE n # 0
  <2>1. s.gathering = None
    BY <1>2 DEF Pops
  <2>2. \A k \in 1..(n - 1) : g.out[k] = Refusal(s, k)
    BY <1>0, <1>2 DEF Pops
  <2>3. Popped(s, 0) = s
    <3>1. PICK t : t = Popped(s, 0)
      OBVIOUS
    <3>2. /\ t \in Sequencer /\ t.next = s.next + 0 /\ t.floor = s.floor /\ t.gathering = None /\ t.replies = s.replies
          /\ Len(t.queue) = Len(s.queue) - 0
          /\ \A j \in 1..(Len(s.queue) - 0) : t.queue[j] = s.queue[j + 0]
      BY <1>0, <3>1, PoppedFacts
    <3>3. s.next + 0 = s.next /\ Len(s.queue) - 0 = Len(s.queue) /\ \A j \in 1..Len(s.queue) : j + 0 = j
      BY <1>0, SequencerFields
    <3>4. \A j \in 1..Len(s.queue) : t.queue[j] = s.queue[j]
      BY <3>2, <3>3
    <3>5. t = s
      BY <2>1, <3>2, <3>3, <3>4, SameSequencer
    <3> QED
      BY <3>1, <3>5
  <2>4. ASSUME NEW i \in Nat, i + 1 <= n, \E T : Desk(Popped(s, i), u, D[i], T), NEW s2 \in Sequencer,
               NEW f \in {Open, Dropped},
               s2.next = s.next + (i + 1), s2.floor = s.floor, Len(s2.queue) = Len(s.queue) - (i + 1),
               \A j \in 1..(Len(s.queue) - (i + 1)) : s2.queue[j] = s.queue[j + (i + 1)],
               f = Open => /\ s2.gathering = [seq |-> s.next + i, req |-> s.queue[i + 1]] /\ s2.replies = {}
                           /\ g.out[i + 1] = Gather(s, i + 1),
               f = Dropped => s2.gathering = None /\ g.out[i + 1] = Refusal(s, i + 1)
        PROVE  \E T : Desk(s2, u, D[i + 1], T)
    <3>1. PICK t : t = Popped(s, i)
      OBVIOUS
    <3>2. PICK T : Desk(t, u, D[i], T)
      BY <2>4, <3>1
    <3>3. i <= Len(s.queue) /\ i + 1 <= Len(s.queue)
      BY <1>0, <2>4
    <3>4. t.next = s.next + i /\ t.floor = s.floor /\ t.gathering = None /\ Len(t.queue) = Len(s.queue) - i
      BY <3>1, <3>3, PoppedFacts
    <3>5. /\ t.queue[1] = s.queue[i + 1] /\ Len(t.queue) >= 1
          /\ Refusal(t, 1) = Refusal(s, i + 1) /\ Gather(t, 1) = Gather(s, i + 1)
          /\ \A j \in 1..(Len(s.queue) - (i + 1)) : s.queue[j + (i + 1)] = t.queue[j + 1]
      BY <3>1, <3>3, PoppedHead
    <3>6. s2.next = t.next + 1 /\ s2.floor = t.floor /\ Len(s2.queue) = Len(t.queue) - 1
      <4>1. s.next \in Nat /\ Len(s.queue) \in Nat
        BY <1>0, SequencerFields
      <4>2. s2.next = s.next + (i + 1) /\ s2.floor = s.floor /\ Len(s2.queue) = Len(s.queue) - (i + 1)
        BY <2>4
      <4>3. \A x, y \in Nat : x + (i + 1) = (x + i) + 1 /\ y - (i + 1) = (y - i) - 1
        OBVIOUS
      <4>4. s.next + (i + 1) = (s.next + i) + 1 /\ Len(s.queue) - (i + 1) = (Len(s.queue) - i) - 1
        BY <4>1, <4>3
      <4> QED
        BY <3>4, <4>2, <4>4, Zenon
    <3>7. \A j \in 1..Len(s2.queue) : s2.queue[j] = t.queue[j + 1]
      BY <2>4, <3>5
    <3>8. f = Open => s2.gathering = [seq |-> t.next, req |-> t.queue[1]] /\ s2.replies = {}
      BY <2>4, <3>4, <3>5
    <3>9. PICK o : o = IF f = Open THEN Gather(t, 1) ELSE Refusal(t, 1)
      OBVIOUS
    <3>10. \E T2 : Desk(s2, u, Sent(D[i], o), T2)
      BY <2>4, <3>2, <3>4, <3>5, <3>6, <3>7, <3>8, <3>9, Numbering
    <3>11. g.out[i + 1] = o
      BY <2>4, <3>5, <3>9
    <3>12. i + 1 \in 1..n /\ (i + 1) - 1 = i
      BY <1>0, <2>4
    <3>13. D[i + 1] = Sent(D[i], o)
      BY <3>11, <3>12
    <3> QED
      BY <3>10, <3>13
  <2>5. \A i \in 0..(n - 1) : \E T : Desk(Popped(s, i), u, D[i], T)
    <3>1. PICK B : B = {i \in 0..(n - 1) : ~ \E T : Desk(Popped(s, i), u, D[i], T)}
      OBVIOUS
    <3>2. ASSUME B # {} PROVE FALSE
      <4>1. B \subseteq Nat
        BY <1>0, <3>1
      <4>2. PICK k \in B : \A y \in B : k <= y
        BY <3>2, <4>1, LeastNumber
      <4>3. k \in 0..(n - 1) /\ ~ \E T : Desk(Popped(s, k), u, D[k], T)
        BY <3>1
      <4>4. k # 0
        BY <2>3, <4>3
      <4>5. PICK i \in Nat : k = i + 1 /\ i \in 0..(n - 1) /\ i + 1 <= n /\ i + 1 \in 1..(n - 1) /\ ~ (k <= i)
        <5>1. k - 1 \in Nat /\ k = (k - 1) + 1 /\ k - 1 \in 0..(n - 1) /\ (k - 1) + 1 <= n /\ (k - 1) + 1 \in 1..(n - 1) /\ ~ (k <= k - 1)
          BY <1>0, <4>3, <4>4
        <5> QED
          BY <5>1
      <4>6. \E T : Desk(Popped(s, i), u, D[i], T)
        BY <3>1, <4>2, <4>5
      <4>7. PICK s2 : s2 = Popped(s, i + 1)
        OBVIOUS
      <4>8. i + 1 \in Nat /\ i + 1 <= Len(s.queue)
        BY <1>0, <4>5
      <4>9. /\ s2 \in Sequencer /\ s2.next = s.next + (i + 1) /\ s2.floor = s.floor /\ s2.gathering = None
            /\ Len(s2.queue) = Len(s.queue) - (i + 1)
            /\ \A j \in 1..(Len(s.queue) - (i + 1)) : s2.queue[j] = s.queue[j + (i + 1)]
        BY <4>7, <4>8, PoppedFacts
      <4>10. Dropped \in {Open, Dropped} /\ Dropped # Open /\ g.out[i + 1] = Refusal(s, i + 1)
        BY <2>2, <4>5 DEF Open, Dropped
      <4>11. \E T : Desk(s2, u, D[i + 1], T)
        BY <2>4, <4>5, <4>6, <4>9, <4>10
      <4> QED
        BY <4>3, <4>5, <4>7, <4>11
    <3> QED
      BY <3>1, <3>2
  <2>6. PICK i \in Nat : n = i + 1 /\ i \in 0..(n - 1) /\ i + 1 <= n /\ s.next + n - 1 = s.next + i
    <3>1. n - 1 \in Nat /\ n = (n - 1) + 1 /\ n - 1 \in 0..(n - 1) /\ (n - 1) + 1 <= n /\ s.next + n - 1 = s.next + (n - 1)
      BY <1>0, <1>2, SequencerFields
    <3> QED
      BY <3>1
  <2>7. /\ g.s.next = s.next + (i + 1) /\ g.s.floor = s.floor /\ Len(g.s.queue) = Len(s.queue) - (i + 1)
        /\ \A j \in 1..(Len(s.queue) - (i + 1)) : g.s.queue[j] = s.queue[j + (i + 1)]
    BY <2>6 DEF Pops
  <2>8. \E T : Desk(Popped(s, i), u, D[i], T)
    BY <2>5, <2>6
  <2>9. CASE g.s.gathering = None /\ g.out[n] = Refusal(s, n)
    <3>1. Dropped \in {Open, Dropped} /\ Dropped # Open /\ g.out[i + 1] = Refusal(s, i + 1)
      BY <2>6, <2>9 DEF Open, Dropped
    <3> QED
      BY <1>0, <2>4, <2>6, <2>7, <2>8, <2>9, <3>1
  <2>10. CASE g.s.gathering = [seq |-> s.next + n - 1, req |-> s.queue[n]] /\ g.s.replies = {} /\ g.out[n] = Gather(s, n)
    <3>1. Open \in {Open, Dropped} /\ Dropped # Open /\ g.out[i + 1] = Gather(s, i + 1)
      BY <2>6, <2>10 DEF Open, Dropped
    <3>2. g.s.gathering = [seq |-> s.next + i, req |-> s.queue[i + 1]] /\ g.s.replies = {}
      BY <2>6, <2>10
    <3> QED
      BY <1>0, <2>4, <2>6, <2>7, <2>8, <3>1, <3>2
  <2> QED
    <3>1. n \in 1..n
      BY <1>0, <1>2
    <3> QED
      BY <2>1, <2>9, <2>10, <3>1 DEF Pops
<1> QED
  BY <1>1, <1>2

\* start_next_gather, and what it sends.
LEMMA Started ==
    ASSUME SlotInv, NEW s, NEW u, NEW dn, \E T : Desk(s, u, dn, T), NEW g, g = StartNextGather(s)
    PROVE  \E T : Desk(g.s, u, Deliver(dn, g.out), T)
<1>1. s \in Sequencer /\ dn \in [Rank -> Seq(Letter)]
  BY DEF Desk, Office
<1>2. PICK n \in 0..Len(s.queue) : Pops(s, g, n)
  BY <1>1, GatherFacts
<1>3. g.out \in Seq(Outbound) /\ Len(g.out) = n
  BY <1>2 DEF Pops
<1>4. Now \in Nat
  BY NowFacts DEF SlotInv, TypeOK
<1>5. PICK D : /\ D[0] = dn /\ D[Len(g.out)] = Deliver(dn, g.out)
               /\ \A i \in 1..Len(g.out) : D[i] = Sent(D[i - 1], g.out[i])
  BY <1>1, <1>3, <1>4, DeliverSteps
<1>6. \E T : Desk(s, u, D[0], T)
  BY <1>5
<1>7. \A i \in 1..n : D[i] = Sent(D[i - 1], g.out[i])
  BY <1>3, <1>5
<1>8. \E T : Desk(g.s, u, D[n], T)
  BY <1>1, <1>2, <1>6, <1>7, Popping
<1> QED
  BY <1>3, <1>5, <1>8

\* The same behind a message that ends a gathering.
LEMMA StartedAfter ==
    ASSUME SlotInv, NEW s, NEW u, NEW dn \in [Rank -> Seq(Letter)], NEW o \in Outbound,
           \E T : Desk(s, u, Sent(dn, o), T), NEW g, g = StartNextGather(s)
    PROVE  \E T : Desk(g.s, u, Deliver(dn, <<o>> \o g.out), T)
<1>1. s \in Sequencer
  BY DEF Desk, Office
<1>2. PICK n \in 0..Len(s.queue) : Pops(s, g, n)
  BY <1>1, GatherFacts
<1>3. g.out \in Seq(Outbound) /\ Len(g.out) = n /\ n \in Nat
  BY <1>2, LenProperties DEF Pops
<1>4. Now \in Nat
  BY NowFacts DEF SlotInv, TypeOK
<1>5. PICK out : out = <<o>> \o g.out
  OBVIOUS
<1>6. <<o>> \in Seq(Outbound) /\ Len(<<o>>) = 1 /\ <<o>>[1] = o
  OBVIOUS
<1>7. out \in Seq(Outbound) /\ Len(out) = n + 1 /\ out[1] = o /\ \A i \in 1..n : out[i + 1] = g.out[i]
  <2>1. PICK f : f = <<o>>
    OBVIOUS
  <2>2. f \in Seq(Outbound) /\ Len(f) = 1 /\ f[1] = o /\ out = f \o g.out
    BY <1>5, <1>6, <2>1
  <2>3. /\ out \in Seq(Outbound) /\ Len(out) = Len(f) + Len(g.out)
        /\ \A i \in 1..(Len(f) + Len(g.out)) : out[i] = IF i <= Len(f) THEN f[i] ELSE g.out[i - Len(f)]
    BY <1>3, <2>2, ConcatProperties
  <2>4. Len(out) = n + 1 /\ \A i \in 1..(n + 1) : out[i] = IF i <= 1 THEN f[i] ELSE g.out[i - 1]
    <3>1. Len(f) + Len(g.out) = n + 1
      BY <1>3, <2>2
    <3> QED
      BY <2>2, <2>3, <3>1
  <2>5. out[1] = o
    BY <1>3, <2>2, <2>4
  <2>6. ASSUME NEW i \in 1..n PROVE out[i + 1] = g.out[i]
    <3>1. i + 1 \in 1..(n + 1) /\ ~ (i + 1 <= 1) /\ (i + 1) - 1 = i
      BY <1>3
    <3> QED
      BY <2>4, <3>1
  <2> QED
    BY <2>3, <2>4, <2>5, <2>6
<1>8. PICK D : /\ D[0] = dn /\ D[Len(out)] = Deliver(dn, out)
               /\ \A i \in 1..Len(out) : D[i] = Sent(D[i - 1], out[i])
  BY <1>4, <1>7, DeliverSteps
<1>9. PICK E : E = [i \in 0..n |-> D[i + 1]]
  OBVIOUS
<1>10. E[0] = Sent(dn, o)
  <2>1. 1 \in 1..Len(out) /\ 1 - 1 = 0 /\ 0 \in 0..n /\ 0 + 1 = 1
    BY <1>3, <1>7
  <2>2. D[1] = Sent(D[0], out[1])
    BY <1>8, <2>1
  <2> QED
    BY <1>7, <1>8, <1>9, <2>1, <2>2
<1>11. ASSUME NEW i \in 1..n PROVE E[i] = Sent(E[i - 1], g.out[i])
  <2>1. i + 1 \in 1..Len(out) /\ (i + 1) - 1 = i /\ i \in 0..n /\ i - 1 \in 0..n /\ (i - 1) + 1 = i
    BY <1>3, <1>7
  <2>2. D[i + 1] = Sent(D[i], out[i + 1])
    BY <1>8, <2>1
  <2>3. E[i] = D[i + 1] /\ E[i - 1] = D[i]
    BY <1>9, <2>1
  <2> QED
    BY <1>7, <2>2, <2>3
<1>12. \E T : Desk(s, u, E[0], T)
  BY <1>10
<1>13. \E T : Desk(g.s, u, E[n], T)
  BY <1>1, <1>2, <1>11, <1>12, Popping
<1>14. E[n] = D[n + 1]
  BY <1>3, <1>9
<1> QED
  BY <1>5, <1>7, <1>8, <1>13, <1>14

\* A step of the sequencer that leaves its desk in order.
LEMMA DeskBooks ==
    ASSUME Clock, lane # "cp", \E T : Desk(seqr', up', down', T), Reported(up)',
           UNCHANGED <<lane, count, pc, state, armed, committed, posted, fallback, entered, fatal>>
    PROVE  Clock' /\ \E T : Books(seqr, up, down, T)'
<1>1. PICK T : Desk(seqr', up', down', T)
  OBVIOUS
<1>2. PICK s, u, dn : s = seqr' /\ u = up' /\ dn = down'
  OBVIOUS
<1>3. Books(s, u, dn, T) /\ Promised(dn)
  BY <1>1, <1>2, SMTT(20) DEF Desk
<1>4. Minutes(seqr, T)' /\ Letters(seqr, down, T)' /\ Ordered(down)' /\ Armed(seqr, T)' /\ Agreement(seqr, down, T)'
  <2>1. Minutes(seqr, T)'
    BY <1>2, <1>3 DEF Books, Minutes, Numbers
  <2>2. Letters(seqr, down, T)'
    <3>1. Letters(s, dn, T) /\ armed' = armed
      BY <1>3 DEF Books
    <3> QED
      BY <1>2, <3>1, SMTT(60) DEF Letters, Fits, Numbers
  <2>3. Ordered(down)'
    BY <1>2, <1>3 DEF Books, Ordered, Follows
  <2>4. Armed(seqr, T)'
    BY <1>2, <1>3 DEF Books, Armed, Numbers
  <2>5. Agreement(seqr, down, T)'
    BY <1>2, <1>3, SMTT(60) DEF Books, Agreement, Numbers
  <2> QED
    BY <2>1, <2>2, <2>3, <2>4, <2>5
<1>5. Boarded(seqr, T)' /\ Gathering(seqr, up, down)' /\ Replies(seqr, up)'
  <2>1. Boarded(s, T) /\ Gathering(s, u, dn) /\ Replies(s, u)
    BY <1>3 DEF Books
  <2>2. Boarded(seqr, T)'
    BY <1>2, <2>1 DEF Boarded, Numbers
  <2>3. Gathering(seqr, up, down)'
    BY <1>2, <2>1 DEF Gathering, Asked, Said, SaidAt, Heard
  <2>4. Replies(seqr, up)'
    BY <1>2, <2>1 DEF Replies, Said, SaidAt, Heard
  <2> QED
    BY <2>2, <2>3, <2>4
<1>6. Asking(seqr, up, T)' /\ InLine(seqr, T)' /\ Awaited(seqr, down)'
  <2>1. Asking(s, u, T) /\ InLine(s, T) /\ Awaited(s, dn)
    BY <1>3 DEF Books
  <2>2. Asking(seqr, up, T)'
    BY <1>2, <2>1, SMTT(60) DEF Asking, Own, Unnumbered, Numbers
  <2>3. InLine(seqr, T)'
    BY <1>2, <2>1 DEF InLine, Own, Unnumbered, Numbers
  <2>4. Awaited(seqr, down)'
    BY <1>2, <2>1 DEF Awaited, Own, Unnumbered, Numbers
  <2> QED
    BY <2>2, <2>3, <2>4
<1>7. Numbered(seqr, T)' /\ Refusals(down, T)' /\ Fallbacks(seqr, T)'
  <2>1. Numbered(seqr, T)'
    BY <1>2, <1>3 DEF Books, Numbered, Numbers
  <2>2. Refusals(down, T)'
    BY <1>2, <1>3 DEF Books, Refusals, Bare
  <2>3. Fallbacks(seqr, T)'
    BY <1>2, <1>3 DEF Books, Fallbacks, Numbers
  <2> QED
    BY <2>1, <2>2, <2>3
<1>8. Promised(down)'
  BY <1>2, <1>3 DEF Promised, Reach
<1>9. Pace' /\ Ahead'
  BY DEF Clock, Pace, Paired, Ahead, Reach
<1>10. Lanes'
  BY DEF Clock, Lanes, IsQuiet
<1>11. Books(seqr, up, down, T)'
  BY <1>4, <1>5, <1>6, <1>7 DEF Books
<1> QED
  BY <1>8, <1>9, <1>10, <1>11 DEF Clock

\* The books of the running system are a desk.
LEMMA OpenDesk ==
    ASSUME SlotInv, Clock, NEW T, Books(seqr, up, down, T)
    PROVE  Desk(seqr, up, down, T)
  BY DEF Desk, Office, SlotInv, HubTypes, Clock

\* Reports that are left are as timely as they were.
LEMMA ReportedKept ==
    ASSUME Reported(up), NEW r \in Rank, Opens(up, up', r), UNCHANGED count
    PROVE  Reported(up)'
<1> SUFFICES ASSUME NEW p \in Rank, NEW j \in 1..Len(up'[p])
             PROVE  /\ \A y \in Rank : count[y] <= up'[p][j].due
                    /\ up'[p][j].m.type = "Ready" => up'[p][j].due <= up'[p][j].m.count + 1 + Latency
  BY DEF Reported
<1>1. PICK i \in 1..Len(up[p]) : up'[p][j] = up[p][i]
  <2>1. CASE p = r
    <3>1. j + 1 \in 1..Len(up[r]) /\ up'[r][j] = up[r][j + 1]
      BY <2>1 DEF Opens
    <3> QED
      BY <2>1, <3>1
  <2>2. CASE p # r
    BY <2>2 DEF Opens
  <2> QED
    BY <2>1, <2>2
<1> QED
  BY <1>1 DEF Reported

\* The commit of a full gathering leaves everyone the time to read it.
LEMMA CommitAhead ==
    ASSUME SlotInv, Clock, NEW r \in Rank, 1 \in 1..Len(up[r]), up[r][1].m.type = "Ready",
           NEW launch \in Nat, launch >= up[r][1].m.count + Slack
    PROVE  Now + Latency < launch
<1>1. up[r][1] \in Report
  BY LinkTypes DEF SlotInv, HubTypes
<1>2. PICK c \in Nat : c = up[r][1].m.count
  BY <1>1, BodyFacts
<1>3. PICK d \in Nat : d = up[r][1].due
  BY <1>1, BodyFacts
<1>4. (\A p \in Rank : count[p] <= d) /\ d <= c + 1 + Latency
  BY <1>2, <1>3 DEF Clock, Reported
<1>5. Now \in Nat /\ Now <= d
  <2>1. Now \in Nat /\ \E p \in Rank : Now = count[p]
    BY NowFacts DEF SlotInv, TypeOK
  <2> QED
    BY <1>4, <2>1
<1>6. launch >= c + Slack
  BY <1>2
<1> QED
  BY <1>4, <1>5, <1>6, TimeFacts

\* The sequencer reads a report: it never refuses one.
LEMMA SequencerBooks ==
    ASSUME SlotInv, Clock, NEW T, Books(seqr, up, down, T), NEW r \in Rank, SequencerStep(r)
    PROVE  Clock' /\ \E T2 : Books(seqr, up, down, T2)'
<1>1. Desk(seqr, up, down, T)
  BY OpenDesk
<1>2. /\ up[r] # <<>> /\ up' = [up EXCEPT ![r] = Tail(@)]
      /\ UNCHANGED <<lane, count, state, armed, committed, posted, fallback, entered>>
  BY DEF SequencerStep, const, batch, member, post
<1>3. PICK u : u = up'
  OBVIOUS
<1>4. Opens(up, u, r) /\ Opens(up, up', r)
  BY <1>2, <1>3, OpensFacts DEF SlotInv, HubTypes
<1>5. Reported(up)'
  BY <1>2, <1>4, ReportedKept DEF Clock
<1>6. lane # "cp"
  BY <1>2 DEF Clock, Lanes
<1>7. PICK m : m = up[r][1].m
  OBVIOUS
<1>8. 1 \in 1..Len(up[r]) /\ Head(up[r]).m = m
  BY <1>4, <1>7 DEF Opens
<1>9. up[r][1] \in Report
  BY <1>8, LinkTypes DEF SlotInv, HubTypes
<1>10. seqr \in Sequencer /\ down \in [Rank -> Seq(Letter)] /\ seqr.floor >= -1
  BY DEF SlotInv, HubTypes
<1>11. SUFFICES (\E T2 : Desk(seqr', up', down', T2)) /\ UNCHANGED <<fatal, pc>>
  BY <1>2, <1>5, <1>6, DeskBooks
<1>12. CASE m.type = "Request"
  <2>1. m.req \in Request
    BY <1>7, <1>9, <1>12, BodyFacts
  <2>2. PICK s : s = [seqr EXCEPT !.queue = Append(@, m.req)]
    OBVIOUS
  <2>3. s = [next |-> seqr.next, floor |-> seqr.floor, gathering |-> seqr.gathering,
             replies |-> seqr.replies, queue |-> Append(seqr.queue, m.req)]
    BY <2>2, <1>10 DEF Sequencer
  <2>4. s \in Sequencer
    BY <2>1, <2>3, <1>10, SequencerFields, AppendProperties
  <2>5. /\ s.next = seqr.next /\ s.floor = seqr.floor /\ s.gathering = seqr.gathering
        /\ s.replies = seqr.replies /\ s.queue = Append(seqr.queue, m.req)
    BY <2>3
  <2>6. PICK q : q = m.req
    OBVIOUS
  <2>7. Desk(s, u, down, T)
    BY <1>1, <1>4, <1>7, <1>12, <2>4, <2>5, <2>6, Enqueued
  <2>8. PICK g : g = StartNextGather(s)
    OBVIOUS
  <2>9. \E T2 : Desk(g.s, u, Deliver(down, g.out), T2)
    BY <2>7, <2>8, Started
  <2>10. seqr' = g.s /\ down' = Deliver(down, g.out) /\ UNCHANGED <<fatal, pc>>
    BY <1>8, <1>12, <2>2, <2>8 DEF SequencerStep, Ask
  <2> QED
    BY <1>3, <2>9, <2>10
<1>13. CASE m.type # "Request"
  <2>1. m.type = "Ready" /\ m.seq \in Nat /\ m.count \in Nat /\ Reply(r, m)
    BY <1>7, <1>8, <1>9, <1>13, BodyFacts DEF SequencerStep
  <2>2. CASE seqr.gathering = None \/ seqr.gathering.seq # m.seq
    <3>1. seqr.gathering = None \/ ~ SaidAt(seqr, up, r, 1)
      BY <1>7, <2>2 DEF SaidAt
    <3>2. Desk(seqr, u, down, T)
      BY <1>1, <1>4, <3>1, Stale
    <3>3. UNCHANGED <<seqr, down, fatal, pc>>
      BY <2>1, <2>2 DEF Reply
    <3> QED
      BY <1>3, <3>2, <3>3
  <2>3. CASE seqr.gathering # None /\ seqr.gathering.seq = m.seq
    <3>1. PICK e : e = [rank |-> r, count |-> m.count]
      OBVIOUS
    <3>2. PICK s : s = [seqr EXCEPT !.replies = @ \cup {e}]
      OBVIOUS
    <3>3. s = [next |-> seqr.next, floor |-> seqr.floor, gathering |-> seqr.gathering,
               replies |-> seqr.replies \cup {e}, queue |-> seqr.queue]
      BY <1>10, <3>2 DEF Sequencer
    <3>4. /\ s.next = seqr.next /\ s.floor = seqr.floor /\ s.gathering = seqr.gathering
          /\ s.replies = seqr.replies \cup {e} /\ s.queue = seqr.queue
      BY <3>3
    <3>5. s \in Sequencer
      <4>1. e \in [rank : Rank, count : 0..MaxLaunch]
        BY <1>7, <1>9, <2>1, <3>1 DEF Report, UpBody
      <4>2. seqr.replies \cup {e} \in SUBSET [rank : Rank, count : 0..MaxLaunch]
        BY <1>10, <4>1, SequencerFields
      <4> QED
        BY <1>10, <3>3, <4>2, SequencerFields
    <3>6. SaidAt(seqr, up, r, 1)
      BY <1>7, <2>1, <2>3 DEF SaidAt
    <3>7. r \in Gang(Home[seqr.gathering.req]) /\ ~ Heard(seqr, r) /\ Desk(s, u, down, T)
      BY <1>1, <1>4, <1>7, <2>3, <3>1, <3>4, <3>5, <3>6, Counted
    <3>8. ~ \E f \in seqr.replies : f.rank = r
      BY <3>7 DEF Heard
    <3>9. PICK launch : launch = CommitLaunch(s)
      OBVIOUS
    <3>10. launch \in Nat /\ launch > s.floor /\ launch >= m.count + Slack
      <4>1. s.floor >= -1 /\ e \in s.replies
        BY <1>10, <3>4
      <4>2. CommitLaunch(s) \in Nat /\ CommitLaunch(s) > s.floor /\ CommitLaunch(s) >= e.count + Slack
        BY <3>5, <4>1, CommitFacts
      <4> QED
        BY <3>1, <3>9, <4>2
    <3>11. PICK t : t = [s EXCEPT !.gathering = None, !.replies = {}, !.floor = launch]
      OBVIOUS
    <3>12. t = Idle(s, launch)
      BY <3>5, <3>11, Ended
    <3>13. PICK g : g = StartNextGather(t)
      OBVIOUS
    <3>14. PICK b : b = [type |-> "Commit", seq |-> seqr.gathering.seq, launch |-> launch]
      OBVIOUS
    <3>15. PICK o : o = [to |-> Gang(Home[seqr.gathering.req]), m |-> b]
      OBVIOUS
    <3>16. \/ /\ seqr' = s /\ UNCHANGED <<down, fatal, pc>>
           \/ /\ {f.rank : f \in s.replies} = Gang(Home[seqr.gathering.req])
              /\ seqr' = g.s /\ down' = Deliver(down, <<o>> \o g.out) /\ UNCHANGED <<fatal, pc>>
      BY <2>1, <2>3, <3>1, <3>2, <3>7, <3>8, <3>9, <3>11, <3>13, <3>14, <3>15, Zenon DEF Reply
    <3>17. CASE seqr' = s /\ UNCHANGED <<down, fatal, pc>>
      BY <1>3, <3>7, <3>17
    <3>18. CASE /\ {f.rank : f \in s.replies} = Gang(Home[seqr.gathering.req])
                /\ seqr' = g.s /\ down' = Deliver(down, <<o>> \o g.out) /\ UNCHANGED <<fatal, pc>>
      <4>1. \A p \in Gang(Home[seqr.gathering.req]) : Heard(s, p)
        BY <3>18 DEF Heard
      <4>2. b \in DownBody /\ Gang(Home[seqr.gathering.req]) \subseteq Rank
        BY <2>3, <3>10, <3>14, GatheringHome, GangFacts DEF DownBody, SlotInv
      <4>3. o \in Outbound
        BY <3>15, <4>2 DEF Outbound
      <4>4. PICK q : q = s.gathering.req
        OBVIOUS
      <4>5. /\ o.to = Gang(Home[q]) /\ o.m.seq = s.gathering.seq /\ o.m.type = "Commit" /\ o.m.launch = launch
            /\ \A p \in Gang(Home[q]) : Heard(s, p)
        BY <3>4, <3>14, <3>15, <4>1, <4>4
      <4>6. Now + Latency < launch
        BY <1>7, <1>8, <2>1, <3>10, CommitAhead
      <4>7. s.gathering # None
        BY <2>3, <3>4
      <4>8. \E T2 : Desk(Idle(s, launch), u, Sent(down, o), T2)
        BY <3>7, <3>10, <4>3, <4>4, <4>5, <4>6, <4>7, Concluding
      <4>9. \E T2 : Desk(t, u, Sent(down, o), T2)
        BY <3>12, <4>8
      <4>10. \E T2 : Desk(g.s, u, Deliver(down, <<o>> \o g.out), T2)
        BY <1>10, <3>13, <4>3, <4>9, StartedAfter
      <4> QED
        BY <1>3, <3>18, <4>10
    <3> QED
      BY <3>16, <3>17, <3>18
  <2> QED
    BY <2>2, <2>3
<1> QED
  BY <1>12, <1>13

\* A gather times out.
LEMMA TimeoutBooks ==
    ASSUME SlotInv, Clock, NEW T, Books(seqr, up, down, T), GatherTimeout
    PROVE  Clock' /\ \E T2 : Books(seqr, up, down, T2)'
<1>1. Desk(seqr, up, down, T)
  BY OpenDesk
<1>2. /\ seqr.gathering # None
      /\ UNCHANGED <<lane, count, pc, state, up, armed, committed, posted, fallback, entered, fatal>>
  BY DEF GatherTimeout, const, batch, member, post
<1>3. lane # "cp"
  BY <1>2 DEF Clock, Lanes
<1>4. Reported(up)'
  BY <1>2 DEF Clock, Reported
<1>5. seqr \in Sequencer /\ down \in [Rank -> Seq(Letter)] /\ seqr.floor \in Int
  BY SequencerFields DEF SlotInv, HubTypes
<1>6. PICK t : t = [seqr EXCEPT !.gathering = None, !.replies = {}]
  OBVIOUS
<1>7. t = Idle(seqr, seqr.floor)
  BY <1>5, <1>6, Ended
<1>8. PICK g : g = StartNextGather(t)
  OBVIOUS
<1>9. PICK b : b = [type |-> "Cancel", seq |-> seqr.gathering.seq]
  OBVIOUS
<1>10. PICK o : o = [to |-> Gang(Home[seqr.gathering.req]), m |-> b]
  OBVIOUS
<1>11. seqr' = g.s /\ down' = Deliver(down, <<o>> \o g.out)
  BY <1>6, <1>8, <1>9, <1>10 DEF GatherTimeout
<1>12. b \in DownBody /\ Gang(Home[seqr.gathering.req]) \subseteq Rank
  BY <1>2, <1>9, GatheringHome, GangFacts DEF DownBody, SlotInv
<1>13. o \in Outbound
  BY <1>10, <1>12 DEF Outbound
<1>14. PICK q : q = seqr.gathering.req
  OBVIOUS
<1>15. o.to = Gang(Home[q]) /\ o.m.seq = seqr.gathering.seq /\ o.m.type = "Cancel"
  BY <1>9, <1>10, <1>14
<1>16. \E T2 : Desk(Idle(seqr, seqr.floor), up, Sent(down, o), T2)
  BY <1>1, <1>2, <1>13, <1>14, <1>15, Concluding
<1>17. \E T2 : Desk(t, up, Sent(down, o), T2)
  BY <1>7, <1>16
<1>18. \E T2 : Desk(g.s, up, Deliver(down, <<o>> \o g.out), T2)
  BY <1>5, <1>8, <1>13, <1>17, StartedAfter
<1>19. up' = up
  BY <1>2
<1>20. \E T2 : Desk(seqr', up', down', T2)
  BY <1>11, <1>18, <1>19
<1> QED
  BY <1>2, <1>3, <1>4, <1>20, DeskBooks

-----------------------------------------------------------------------------
(* The rendezvous: every step keeps the agreement.                         *)

\* At first nothing is numbered and nobody has launched.
LEMMA InitPact ==
    ASSUME Init
    PROVE  Pact
<1>1. SlotInv
  BY InitSlots
<1>2. /\ seqr.next = 0 /\ seqr.gathering = None /\ seqr.queue = <<>> /\ entered = {} /\ fatal = {}
      /\ \A r \in Rank : /\ count[r] = 0 /\ pc[r] = "top" /\ up[r] = <<>> /\ down[r] = <<>> /\ armed[r] = {}
                         /\ committed[r] = <<>> /\ posted[r] = NoPost /\ fallback[r] = NoPost
  BY DEF Init
<1>3. Len(<<>>) = 0 /\ 1..0 = {} /\ Numbers(seqr) = {}
  BY <1>2 DEF Numbers
<1>4. \A r \in Rank : 1..Len(up[r]) = {} /\ 1..Len(down[r]) = {} /\ 1..Len(committed[r]) = {}
  BY <1>2, <1>3
<1>5. 1..Len(seqr.queue) = {}
  BY <1>2, <1>3
<1>6. Clock
  <2>1. Pace
    BY <1>2 DEF Pace, Paired
  <2>2. Lanes
    BY <1>2 DEF Lanes, IsQuiet, Busy, AtBoard
  <2>3. Reported(up) /\ Promised(down) /\ Ahead
    BY <1>4 DEF Reported, Promised, Ahead
  <2> QED
    BY <2>1, <2>2, <2>3 DEF Clock
<1>7. PICK T : T = [k \in Numbers(seqr) |-> k]
  OBVIOUS
<1>8. Minutes(seqr, T)
  BY <1>2, <1>3, <1>7 DEF Minutes
<1>9. Letters(seqr, down, T) /\ Ordered(down) /\ Armed(seqr, T) /\ Agreement(seqr, down, T) /\ Boarded(seqr, T)
  <2>1. Letters(seqr, down, T)
    BY <1>2, <1>4 DEF Letters
  <2>2. Ordered(down)
    BY <1>2, <1>4 DEF Ordered
  <2>3. Armed(seqr, T)
    BY <1>2, <1>4 DEF Armed
  <2>4. Agreement(seqr, down, T)
    BY <1>2, <1>4 DEF Agreement
  <2>5. Boarded(seqr, T)
    BY <1>2, <1>4 DEF Boarded
  <2> QED
    BY <2>1, <2>2, <2>3, <2>4, <2>5
<1>10. Gathering(seqr, up, down) /\ Replies(seqr, up) /\ Asking(seqr, up, T) /\ InLine(seqr, T)
  <2>1. Gathering(seqr, up, down)
    BY <1>2, <1>4, <1>5 DEF Gathering
  <2>2. Replies(seqr, up)
    BY <1>2, <1>4, <1>5 DEF Replies
  <2>3. Asking(seqr, up, T)
    BY <1>2, <1>4, <1>5 DEF Asking
  <2>4. InLine(seqr, T)
    BY <1>2, <1>4, <1>5 DEF InLine
  <2> QED
    BY <2>1, <2>2, <2>3, <2>4
<1>11. Awaited(seqr, down) /\ Refusals(down, T) /\ Fallbacks(seqr, T)
  <2>1. Awaited(seqr, down)
    BY <1>2, <1>4 DEF Awaited
  <2>2. Refusals(down, T)
    BY <1>2, <1>4 DEF Refusals
  <2>3. Fallbacks(seqr, T)
    BY <1>2, <1>4 DEF Fallbacks
  <2> QED
    BY <2>1, <2>2, <2>3
<1>12. Numbered(seqr, T)
  BY <1>2 DEF Numbered, NoPost
<1> QED
  BY <1>1, <1>6, <1>8, <1>9, <1>10, <1>11, <1>12 DEF Pact, Books

\* A step of a rank.
LEMMA RankPact ==
    ASSUME SlotInv, Clock, NEW T, Books(seqr, up, down, T), NEW r \in Rank, RankStep(r)
    PROVE  Clock' /\ Books(seqr, up, down, T)'
<1>1. CASE ServeMessage(r)
  <2>1. Head(down[r]).m.type \in {"Gather", "Commit", "Cancel"}
    <3>1. down[r] \in Seq(Letter) /\ down[r] # <<>>
      BY <1>1 DEF ServeMessage, SlotInv, HubTypes
    <3>2. Head(down[r]) \in Letter
      BY <3>1, HeadTailProperties
    <3> QED
      BY <3>2, BodyFacts
  <2> QED
    BY <1>1, <2>1, TakeGatherBooks, TakeCommitBooks, TakeCancelBooks
<1>2. CASE ServeEnter(r) \/ PostWhale(r)
  BY <1>2, ServeEnterBooks, PostWhaleBooks
<1>3. CASE ServeFree(r)
  BY <1>3, ServeFreeClock, AsideBooks
<1>4. CASE WhaleLaunch(r) \/ PumpLaunch(r) \/ CpLaunch(r) \/ PrefillLaunch(r) \/ DecodeLaunch(r)
  <2>1. Launches(r)
    BY <1>4, LaunchSteps
  <2>2. Letters(seqr, down, T) /\ Aside
    BY <2>1 DEF Books, Launches, Elsewhere
  <2> QED
    BY <2>1, <2>2, LaunchesClock, AsideBooks
<1>5. CASE \/ StepStart(r) \/ WhaleReturn(r) \/ AdmitVerdict(r) \/ PrefillStart(r) \/ PrefillReturn(r)
           \/ PostJob(r) \/ GangPass(r) \/ PumpReturn(r) \/ CpReturn(r) \/ DecodeReturn(r)
  <2>1. Moves(r) /\ (pc'[r] \notin {"admitHeld", "whale"} \/ pc'[r] = pc[r])
    BY <1>5, MoveSteps
  <2>2. Aside
    BY <2>1 DEF Moves, Elsewhere
  <2> QED
    BY <2>1, <2>2, MovesClock, AsideBooks
<1> QED
  BY <1>1, <1>2, <1>3, <1>4, <1>5 DEF RankStep

\* Every step keeps the pact.
LEMMA NextPact ==
    ASSUME Pact, [Next]_vars
    PROVE  Pact'
<1>1. PICK T : Books(seqr, up, down, T)
  BY DEF Pact
<1>2. SlotInv /\ Clock /\ SlotInv'
  BY NextSlots DEF Pact
<1>3. SUFFICES Clock' /\ \E T2 : Books(seqr, up, down, T2)'
  BY <1>2 DEF Pact
<1>4. ASSUME NEW r \in Rank, RankStep(r) PROVE Clock' /\ \E T2 : Books(seqr, up, down, T2)'
  BY <1>1, <1>2, <1>4, RankPact
<1>5. ASSUME NEW r \in Rank, SequencerStep(r) PROVE Clock' /\ \E T2 : Books(seqr, up, down, T2)'
  BY <1>1, <1>2, <1>5, SequencerBooks
<1>6. CASE GatherTimeout
  BY <1>1, <1>2, <1>6, TimeoutBooks
<1>7. CASE (\E q \in Request : Submit(q) \/ Abort(q)) \/ UNCHANGED vars
  BY <1>1, <1>2, <1>7, ClientSteps, AsideBooks
<1> QED
  BY <1>4, <1>5, <1>6, <1>7 DEF Next, Progress, Horizon

\* The ranks, the links and the sequencer agree on every whale in every
\* reachable state, however messages, launches, timeouts and aborts interleave.
THEOREM PactInvariant == Spec => []Pact
<1>1. Init => Pact
  BY InitPact
<1>2. Pact /\ [Next]_vars => Pact'
  BY NextPact
<1> QED
  BY <1>1, <1>2, PTL DEF Spec

\* No rank ever takes an engine-fatal path of the rendezvous: no commit is late,
\* out of order or for a whale its member did not gather, no boundary is passed,
\* no reply is refused and no owner has lost its post (whale.rs on_message and
\* at_launch, mod.rs enter_whale).
THEOREM NeverFatalHolds == Spec => []NeverFatal
<1>1. Pact => NeverFatal
  BY DEF Pact, Clock, Pace, NeverFatal
<1> QED
  BY <1>1, PactInvariant, PTL

\* A request that fell back to a local prefill is nowhere committed, nor armed
\* where it fell back: a cancel is paired with the right post (mod.rs
\* track_own_post).
THEOREM FallbackMeansCancelledHolds == Spec => []FallbackMeansCancelled
<1>1. ASSUME Pact PROVE FallbackMeansCancelled
  <2>1. SlotInv /\ \E T : Books(seqr, up, down, T)
    BY <1>1 DEF Pact
  <2>2. PICK T : Books(seqr, up, down, T)
    BY <2>1
  <2> SUFFICES ASSUME NEW r \in Rank, fallback[r] # NoPost
               PROVE  /\ \A d \in armed[r] : d.req # fallback[r].req
                      /\ \A p \in Rank : \A i \in 1 .. Len(committed[p]) : committed[p][i].req # fallback[r].req
    BY DEF FallbackMeansCancelled
  <2>3. fallback[r].req \in Request /\ Home[fallback[r].req] = r
    BY <2>1 DEF SlotInv, Posts, Hers
  <2>4. ASSUME NEW d \in armed[r], d.req = fallback[r].req PROVE FALSE
    <3>1. posted[Home[d.req]].req = d.req
      BY <2>2, <2>3, <2>4 DEF Books, Awaited, Own
    <3> QED
      BY <2>1, <2>3, <2>4, <3>1, PostedState
  <2>5. ASSUME NEW p \in Rank, NEW i \in 1..Len(committed[p]), committed[p][i].req = fallback[r].req PROVE FALSE
    <3>1. PICK k : k = committed[p][i].seq
      OBVIOUS
    <3>2. k \in Numbers(seqr) /\ T[k].req = fallback[r].req /\ T[k].fate = committed[p][i].launch
      BY <2>2, <2>5, <3>1 DEF Books, Agreement
    <3>3. T[k].fate = Dropped
      BY <2>2, <3>2 DEF Books, Fallbacks
    <3>4. committed[p][i].launch \in Nat
      BY <2>1, LinkTypes, BodyFacts DEF SlotInv, HubTypes
    <3> QED
      BY <3>2, <3>3, <3>4 DEF Dropped
  <2> QED
    BY <2>4, <2>5
<1>2. Pact => FallbackMeansCancelled
  BY <1>1
<1> QED
  BY <1>2, PactInvariant, PTL

-----------------------------------------------------------------------------
(* The gang board: levelling.                                              *)

\* What a rank that serves the board has written on the job it is at.
Mark(r) == IF pc[r] = "pump" THEN count[r] + 1 ELSE IF pc[r] = "cpWait" THEN count[r] - 1 ELSE count[r]

\* A rank checks in on one job at a time, the oldest it has not run.
CheckedIn ==
    \A i \in DOMAIN jobs : \A r \in Rank :
        /\ jobs[i].entries[r] >= -1 /\ jobs[i].entries[r] <= count[r] + 1
        /\ jobs[i].entries[r] # -1 /\ r \notin jobs[i].done =>
               /\ pc[r] \in AtBoard /\ i <= horizon[r] /\ jobs[i].entries[r] = Mark(r)
               /\ \A k \in DOMAIN jobs : k < i => r \in jobs[k].done

\* Who computes a job has entered its superstep, and is at it until it is done.
Aboard ==
    /\ \A r \in Rank : pc[r] \in {"cp", "cpWait"} =>
           <<job[r].seq, r, jobs[job[r].seq].entries[r]>> \in entered
    /\ \A e \in entered : e[1] \in DOMAIN jobs /\ e[2] \notin jobs[e[1]].done =>
           pc[e[2]] \in {"cp", "cpWait"} /\ job[e[2]].seq = e[1]

\* Once a superstep is entered its launch is the highest mark.
Levelled ==
    \A e \in entered : e[1] \in DOMAIN jobs =>
        /\ jobs[e[1]].entries[e[2]] = e[3]
        /\ \A p \in Rank : jobs[e[1]].entries[p] # -1 /\ jobs[e[1]].entries[p] <= e[3]

\* The launch of a superstep is behind whoever left it.
Behind ==
    \A e \in entered : /\ e[1] \in 0..(nextId - 1) /\ e[2] \in Rank /\ e[3] \in Nat /\ e[3] <= count[e[2]]
                       /\ e[3] = count[e[2]] => pc[e[2]] = "cp" /\ job[e[2]].seq = e[1]

\* Everyone enters every superstep, in the order of the board ...
InTurn ==
    /\ \A i \in 0..(nextId - 1) : \A r \in Rank :
           i \notin DOMAIN jobs \/ r \in jobs[i].done => Entered(r, i)
    /\ \A e \in entered : \A i \in 0..(e[1] - 1) : Entered(e[2], i)
    /\ \A e, f \in entered : e[2] = f[2] /\ e[1] < f[1] => e[3] < f[3]

\* ... and at the same launch.
Unanimous == \A e, f \in entered : e[1] = f[1] => e[3] = f[3]

Levelling == CheckedIn /\ Aboard /\ Levelled /\ Behind /\ InTurn /\ Unanimous
BoardPact == lane = "cp" => Levelling

\* What the board's types say of a job and of the ranks.
LEMMA BoardFacts ==
    ASSUME SlotInv
    PROVE  /\ nextId \in Nat /\ DOMAIN jobs \subseteq 0..(nextId - 1) /\ DOMAIN jobs \subseteq Nat
           /\ \A i \in DOMAIN jobs : /\ jobs[i] \in Job /\ jobs[i].entries \in [Rank -> Int] /\ jobs[i].done \subseteq Rank
                                     /\ \A r \in Rank : jobs[i].entries[r] \in Int
           /\ \A r \in Rank : count[r] \in Nat /\ horizon[r] \in Int
<1>1. /\ nextId \in Nat /\ DOMAIN jobs \subseteq 0..(nextId - 1) /\ jobs \in [DOMAIN jobs -> Job]
      /\ horizon \in [Rank -> Int]
  BY DEF SlotInv, Board, BoardTypes
<1>2. \A i \in DOMAIN jobs : jobs[i] \in Job
  BY <1>1
<1>3. \A i \in DOMAIN jobs : jobs[i].entries \in [Rank -> Int] /\ jobs[i].done \subseteq Rank
  BY <1>2 DEF Job
<1>4. \A r \in Rank : count[r] \in Nat
  BY DEF SlotInv, TypeOK
<1> QED
  BY <1>1, <1>2, <1>3, <1>4

\* A step of r away from the board.
Offboard(r) ==
    /\ UNCHANGED <<lane, jobs, nextId, entered>>
    /\ pc[r] \notin AtBoard /\ pc'[r] \notin {"cp", "cpWait"} /\ count[r] <= count'[r]
    /\ \A p \in Rank \ {r} :
           pc'[p] = pc[p] /\ count'[p] = count[p] /\ job'[p] = job[p] /\ horizon'[p] = horizon[p]

\* A step away from the board keeps it level.
LEMMA OffboardKept ==
    ASSUME SlotInv, SlotInv', Levelling, NEW r \in Rank, Offboard(r)
    PROVE  Levelling'
<1>0. /\ UNCHANGED <<jobs, nextId, entered>>
      /\ pc[r] \notin AtBoard /\ pc'[r] \notin {"cp", "cpWait"} /\ count[r] <= count'[r]
      /\ \A p \in Rank \ {r} :
             pc'[p] = pc[p] /\ count'[p] = count[p] /\ job'[p] = job[p] /\ horizon'[p] = horizon[p]
  BY DEF Offboard
<1>1. \A p \in Rank : count[p] \in Nat /\ count'[p] \in Nat /\ count[p] <= count'[p]
  BY <1>0 DEF SlotInv, TypeOK
<1>2. \A i \in DOMAIN jobs : \A p \in Rank : jobs[i].entries[p] \in Int
  BY BoardFacts
<1>3. CheckedIn'
  <2> SUFFICES ASSUME NEW i \in DOMAIN jobs, NEW p \in Rank
               PROVE  /\ jobs[i].entries[p] >= -1 /\ jobs[i].entries[p] <= count'[p] + 1
                      /\ jobs[i].entries[p] # -1 /\ p \notin jobs[i].done =>
                             /\ pc'[p] \in AtBoard /\ i <= horizon'[p] /\ jobs[i].entries[p] = Mark(p)'
                             /\ \A k \in DOMAIN jobs : k < i => p \in jobs[k].done
    BY <1>0 DEF CheckedIn
  <2>1. /\ jobs[i].entries[p] >= -1 /\ jobs[i].entries[p] <= count[p] + 1
        /\ jobs[i].entries[p] # -1 /\ p \notin jobs[i].done =>
               /\ pc[p] \in AtBoard /\ i <= horizon[p] /\ jobs[i].entries[p] = Mark(p)
               /\ \A k \in DOMAIN jobs : k < i => p \in jobs[k].done
    BY DEF Levelling, CheckedIn
  <2>2. jobs[i].entries[p] >= -1 /\ jobs[i].entries[p] <= count'[p] + 1
    BY <1>1, <1>2, <2>1
  <2>3. CASE p = r
    BY <1>0, <2>1, <2>2, <2>3
  <2>4. CASE p # r
    BY <1>0, <2>1, <2>2, <2>4 DEF Mark
  <2> QED
    BY <2>3, <2>4
<1>4. Aboard'
  <2>1. Aboard
    BY DEF Levelling
  <2>2. ASSUME NEW p \in Rank, pc'[p] \in {"cp", "cpWait"}
        PROVE  <<job'[p].seq, p, jobs[job'[p].seq].entries[p]>> \in entered
    <3>1. p # r
      BY <1>0, <2>2
    <3> QED
      BY <1>0, <2>1, <2>2, <3>1 DEF Aboard
  <2>3. ASSUME NEW e \in entered, e[1] \in DOMAIN jobs, e[2] \notin jobs[e[1]].done
        PROVE  pc'[e[2]] \in {"cp", "cpWait"} /\ job'[e[2]].seq = e[1]
    <3>1. pc[e[2]] \in {"cp", "cpWait"} /\ job[e[2]].seq = e[1] /\ e[2] \in Rank
      BY <2>1, <2>3 DEF Aboard, Levelling, Behind
    <3>2. e[2] # r
      BY <1>0, <3>1 DEF AtBoard
    <3> QED
      BY <1>0, <3>1, <3>2
  <2> QED
    BY <1>0, <2>2, <2>3 DEF Aboard
<1>5. Levelled' /\ InTurn' /\ Unanimous'
  BY <1>0 DEF Levelling, Levelled, InTurn, Unanimous, Entered
<1>6. Behind'
  <2> SUFFICES ASSUME NEW e \in entered
               PROVE  /\ e[1] \in 0..(nextId - 1) /\ e[2] \in Rank /\ e[3] \in Nat /\ e[3] <= count'[e[2]]
                      /\ e[3] = count'[e[2]] => pc'[e[2]] = "cp" /\ job'[e[2]].seq = e[1]
    BY <1>0 DEF Behind
  <2>1. /\ e[1] \in 0..(nextId - 1) /\ e[2] \in Rank /\ e[3] \in Nat /\ e[3] <= count[e[2]]
        /\ e[3] = count[e[2]] => pc[e[2]] = "cp" /\ job[e[2]].seq = e[1]
    BY DEF Levelling, Behind
  <2>2. CASE e[2] = r
    <3>1. e[3] # count[r]
      BY <1>0, <2>1, <2>2 DEF AtBoard
    <3> QED
      BY <1>0, <1>1, <2>1, <2>2, <3>1
  <2>3. CASE e[2] # r
    BY <1>0, <2>1, <2>3
  <2> QED
    BY <2>2, <2>3
<1> QED
  BY <1>3, <1>4, <1>5, <1>6 DEF Levelling

\* A launch at the board, and the wait for it: the rank's mark stands.
OnMark(r) ==
    /\ UNCHANGED <<lane, jobs, nextId, entered, job, horizon>>
    /\ pc[r] \in AtBoard /\ pc'[r] \in AtBoard /\ Mark(r)' = Mark(r)
    /\ pc[r] \in {"cp", "cpWait"} <=> pc'[r] \in {"cp", "cpWait"}
    /\ count[r] < count'[r] \/ (count'[r] = count[r] /\ pc[r] # "cp")
    /\ \A p \in Rank \ {r} : pc'[p] = pc[p] /\ count'[p] = count[p]

\* The launches at the board, and the end of a pump.
LEMMA OnMarkSteps ==
    ASSUME SlotInv, NEW r \in Rank, PumpLaunch(r) \/ PumpReturn(r) \/ CpLaunch(r)
    PROVE  OnMark(r)
<1>1. pc \in [Rank -> Place] /\ \A p \in Rank : count[p] \in Nat
  BY DEF SlotInv, TypeOK, Place
<1>2. UNCHANGED <<lane, jobs, nextId, entered, job, horizon>>
  BY DEF PumpLaunch, PumpReturn, CpLaunch, const, board
<1>3. CASE PumpLaunch(r) \/ CpLaunch(r)
  <2>1. count'[r] = count[r] + 1 /\ \A p \in Rank \ {r} : count'[p] = count[p]
    BY <1>3 DEF PumpLaunch, CpLaunch, Launch, SlotInv, TypeOK
  <2>2. /\ \A p \in Rank \ {r} : pc'[p] = pc[p]
        /\ \/ pc[r] = "pump" /\ pc'[r] = "pumpWait"
           \/ pc[r] = "cp" /\ pc'[r] = "cpWait"
    BY <1>1, <1>3 DEF PumpLaunch, CpLaunch, Goto
  <2> QED
    BY <1>1, <1>2, <2>1, <2>2 DEF OnMark, Mark, AtBoard
<1>4. CASE PumpReturn(r)
  <2>1. count' = count /\ pc[r] = "pumpWait" /\ pc'[r] = "gang" /\ \A p \in Rank \ {r} : pc'[p] = pc[p]
    BY <1>1, <1>4 DEF PumpReturn, Goto
  <2> QED
    BY <1>1, <1>2, <2>1 DEF OnMark, Mark, AtBoard
<1> QED
  BY <1>3, <1>4

\* A launch at the board keeps it level.
LEMMA OnMarkKept ==
    ASSUME SlotInv, SlotInv', Levelling, NEW r \in Rank, OnMark(r)
    PROVE  Levelling'
<1>0. /\ UNCHANGED <<jobs, nextId, entered, job, horizon>>
      /\ pc[r] \in AtBoard /\ pc'[r] \in AtBoard /\ Mark(r)' = Mark(r)
      /\ pc[r] \in {"cp", "cpWait"} <=> pc'[r] \in {"cp", "cpWait"}
      /\ count[r] < count'[r] \/ (count'[r] = count[r] /\ pc[r] # "cp")
      /\ \A p \in Rank \ {r} : pc'[p] = pc[p] /\ count'[p] = count[p]
  BY DEF OnMark
<1>1. \A p \in Rank : count[p] \in Nat /\ count'[p] \in Nat /\ count[p] <= count'[p]
  BY <1>0 DEF SlotInv, TypeOK
<1>2. \A i \in DOMAIN jobs : \A p \in Rank : jobs[i].entries[p] \in Int
  BY BoardFacts
<1>3. \A p \in Rank : /\ Mark(p)' = Mark(p) /\ (pc[p] \in AtBoard => pc'[p] \in AtBoard)
                      /\ (pc[p] \in {"cp", "cpWait"} <=> pc'[p] \in {"cp", "cpWait"})
  BY <1>0 DEF Mark
<1>4. CheckedIn'
  <2> SUFFICES ASSUME NEW i \in DOMAIN jobs, NEW p \in Rank
               PROVE  /\ jobs[i].entries[p] >= -1 /\ jobs[i].entries[p] <= count'[p] + 1
                      /\ jobs[i].entries[p] # -1 /\ p \notin jobs[i].done =>
                             /\ pc'[p] \in AtBoard /\ i <= horizon'[p] /\ jobs[i].entries[p] = Mark(p)'
                             /\ \A k \in DOMAIN jobs : k < i => p \in jobs[k].done
    BY <1>0 DEF CheckedIn
  <2>1. /\ jobs[i].entries[p] >= -1 /\ jobs[i].entries[p] <= count[p] + 1
        /\ jobs[i].entries[p] # -1 /\ p \notin jobs[i].done =>
               /\ pc[p] \in AtBoard /\ i <= horizon[p] /\ jobs[i].entries[p] = Mark(p)
               /\ \A k \in DOMAIN jobs : k < i => p \in jobs[k].done
    BY DEF Levelling, CheckedIn
  <2>2. jobs[i].entries[p] >= -1 /\ jobs[i].entries[p] <= count'[p] + 1
    BY <1>1, <1>2, <2>1
  <2> QED
    BY <1>0, <1>3, <2>1, <2>2
<1>5. Aboard'
  <2>1. \A e \in entered : e[2] \in Rank
    BY DEF Levelling, Behind
  <2> QED
    BY <1>0, <1>3, <2>1 DEF Levelling, Aboard
<1>6. Levelled' /\ InTurn' /\ Unanimous'
  BY <1>0 DEF Levelling, Levelled, InTurn, Unanimous, Entered
<1>7. Behind'
  <2> SUFFICES ASSUME NEW e \in entered
               PROVE  /\ e[1] \in 0..(nextId - 1) /\ e[2] \in Rank /\ e[3] \in Nat /\ e[3] <= count'[e[2]]
                      /\ e[3] = count'[e[2]] => pc'[e[2]] = "cp" /\ job'[e[2]].seq = e[1]
    BY <1>0 DEF Behind
  <2>1. /\ e[1] \in 0..(nextId - 1) /\ e[2] \in Rank /\ e[3] \in Nat /\ e[3] <= count[e[2]]
        /\ e[3] = count[e[2]] => pc[e[2]] = "cp" /\ job[e[2]].seq = e[1]
    BY DEF Levelling, Behind
  <2>2. CASE e[2] = r
    <3>1. e[3] < count'[r]
      BY <1>0, <1>1, <2>1, <2>2
    <3> QED
      BY <1>1, <2>1, <2>2, <3>1
  <2>3. CASE e[2] # r
    BY <1>0, <2>1, <2>3
  <2> QED
    BY <2>2, <2>3
<1> QED
  BY <1>4, <1>5, <1>6, <1>7 DEF Levelling

\* A job is posted: nobody has checked in on it.
LEMMA PostJobKept ==
    ASSUME SlotInv, Levelling, NEW r \in Rank, PostJob(r)
    PROVE  Levelling'
<1>0. /\ pc[r] = "admit" /\ nextId' = nextId + 1 /\ horizon' = [horizon EXCEPT ![r] = nextId]
      /\ pc' = [pc EXCEPT ![r] = "gang"] /\ UNCHANGED <<count, entered, job>>
  BY DEF PostJob, Goto
<1>1. PICK new : /\ jobs' = [i \in DOMAIN jobs \cup {nextId} |-> IF i = nextId THEN new ELSE jobs[i]]
                 /\ new.entries = [p \in Rank |-> -1] /\ new.done = {}
  BY DEF PostJob
<1>2. nextId \in Nat /\ DOMAIN jobs \subseteq 0..(nextId - 1) /\ nextId \notin DOMAIN jobs /\ \A p \in Rank : count[p] \in Nat
  <2>1. nextId \in Nat /\ DOMAIN jobs \subseteq 0..(nextId - 1) /\ \A p \in Rank : count[p] \in Nat
    BY BoardFacts
  <2>2. nextId \notin 0..(nextId - 1)
    BY <2>1
  <2> QED
    BY <2>1, <2>2
<1>3. /\ \A i \in DOMAIN jobs' : i = nextId \/ i \in DOMAIN jobs
      /\ \A i \in DOMAIN jobs : i \in DOMAIN jobs' /\ jobs'[i] = jobs[i]
      /\ nextId \in DOMAIN jobs' /\ jobs'[nextId] = new
  BY <1>1, <1>2
<1>4. pc \in [Rank -> Place] /\ horizon \in [Rank -> Int]
  BY DEF SlotInv, TypeOK, Place, Board, BoardTypes
<1>5. pc'[r] = "gang" /\ \A p \in Rank \ {r} : pc'[p] = pc[p] /\ horizon'[p] = horizon[p]
  BY <1>0, <1>4
<1>6. CheckedIn'
  <2> SUFFICES ASSUME NEW i \in DOMAIN jobs', NEW p \in Rank
               PROVE  /\ jobs'[i].entries[p] >= -1 /\ jobs'[i].entries[p] <= count[p] + 1
                      /\ jobs'[i].entries[p] # -1 /\ p \notin jobs'[i].done =>
                             /\ pc'[p] \in AtBoard /\ i <= horizon'[p] /\ jobs'[i].entries[p] = Mark(p)'
                             /\ \A k \in DOMAIN jobs' : k < i => p \in jobs'[k].done
    BY <1>0 DEF CheckedIn
  <2>1. CASE i = nextId
    BY <1>1, <1>2, <1>3, <2>1
  <2>2. CASE i \in DOMAIN jobs
    <3>1. /\ jobs[i].entries[p] >= -1 /\ jobs[i].entries[p] <= count[p] + 1
          /\ jobs[i].entries[p] # -1 /\ p \notin jobs[i].done =>
                 /\ pc[p] \in AtBoard /\ i <= horizon[p] /\ jobs[i].entries[p] = Mark(p)
                 /\ \A k \in DOMAIN jobs : k < i => p \in jobs[k].done
      BY <2>2 DEF Levelling, CheckedIn
    <3>2. jobs'[i] = jobs[i]
      BY <1>3, <2>2
    <3>3. ASSUME jobs[i].entries[p] # -1, p \notin jobs[i].done
          PROVE  /\ pc'[p] \in AtBoard /\ i <= horizon'[p] /\ jobs[i].entries[p] = Mark(p)'
                 /\ \A k \in DOMAIN jobs' : k < i => p \in jobs'[k].done
      <4>1. p # r
        BY <1>0, <3>1, <3>3 DEF AtBoard
      <4>2. Mark(p)' = Mark(p)
        BY <1>0, <1>5, <4>1 DEF Mark
      <4>3. ~ (nextId < i)
        BY <1>2, <2>2
      <4> QED
        BY <1>3, <1>5, <3>1, <3>3, <4>1, <4>2, <4>3
    <3> QED
      BY <3>1, <3>2, <3>3
  <2> QED
    BY <1>3, <2>1, <2>2
<1>7. ASSUME NEW e \in entered
      PROVE  /\ e[1] \in 0..(nextId - 1) /\ e[2] \in Rank /\ e[3] \in Nat /\ e[3] <= count[e[2]]
             /\ e[3] = count[e[2]] => pc[e[2]] = "cp" /\ job[e[2]].seq = e[1]
             /\ e[1] # nextId /\ e[1] \in 0..(nextId' - 1)
             /\ e[1] \in DOMAIN jobs' => e[1] \in DOMAIN jobs /\ jobs'[e[1]] = jobs[e[1]]
  <2>1. /\ e[1] \in 0..(nextId - 1) /\ e[2] \in Rank /\ e[3] \in Nat /\ e[3] <= count[e[2]]
        /\ e[3] = count[e[2]] => pc[e[2]] = "cp" /\ job[e[2]].seq = e[1]
    BY DEF Levelling, Behind
  <2>2. e[1] # nextId /\ e[1] \in 0..(nextId' - 1)
    BY <1>0, <1>2, <2>1
  <2> QED
    BY <1>3, <2>1, <2>2
<1>8. Aboard'
  <2>1. Aboard
    BY DEF Levelling
  <2>2. ASSUME NEW p \in Rank, pc'[p] \in {"cp", "cpWait"}
        PROVE  <<job[p].seq, p, jobs'[job[p].seq].entries[p]>> \in entered
    <3>1. p # r /\ pc[p] \in {"cp", "cpWait"}
      BY <1>5, <2>2
    <3>2. job[p].seq \in DOMAIN jobs /\ jobs'[job[p].seq] = jobs[job[p].seq]
      BY <1>3, <3>1 DEF SlotInv, Board, Computing
    <3> QED
      BY <2>1, <3>1, <3>2 DEF Aboard
  <2>3. ASSUME NEW e \in entered, e[1] \in DOMAIN jobs', e[2] \notin jobs'[e[1]].done
        PROVE  pc'[e[2]] \in {"cp", "cpWait"} /\ job[e[2]].seq = e[1]
    <3>1. pc[e[2]] \in {"cp", "cpWait"} /\ job[e[2]].seq = e[1] /\ e[2] \in Rank
      BY <1>7, <2>1, <2>3 DEF Aboard
    <3>2. e[2] # r
      BY <1>0, <3>1
    <3> QED
      BY <1>5, <3>1, <3>2
  <2> QED
    BY <1>0, <2>2, <2>3 DEF Aboard
<1>9. Levelled'
  BY <1>0, <1>7 DEF Levelling, Levelled
<1>10. Behind'
  <2>1. \A e \in entered : e[3] = count[e[2]] => pc'[e[2]] = "cp"
    BY <1>0, <1>5, <1>7
  <2> QED
    BY <1>0, <1>7, <2>1 DEF Behind
<1>11. InTurn'
  <2>1. InTurn
    BY DEF Levelling
  <2>2. ASSUME NEW i \in 0..(nextId' - 1), NEW p \in Rank, i \notin DOMAIN jobs' \/ p \in jobs'[i].done
        PROVE  Entered(p, i)
    <3>1. i # nextId
      BY <1>1, <1>3, <2>2
    <3>2. i \in 0..(nextId - 1)
      BY <1>0, <1>2, <3>1
    <3>3. i \notin DOMAIN jobs \/ p \in jobs[i].done
      BY <1>3, <2>2
    <3> QED
      BY <2>1, <3>2, <3>3 DEF InTurn
  <2>3. \A p, i : Entered(p, i)' <=> Entered(p, i)
    BY <1>0 DEF Entered
  <2> QED
    BY <1>0, <2>1, <2>2, <2>3 DEF InTurn
<1>12. Unanimous'
  BY <1>0 DEF Levelling, Unanimous
<1> QED
  BY <1>6, <1>8, <1>9, <1>10, <1>11, <1>12 DEF Levelling

\* The level of a board on which everyone has checked in is the highest mark.
LEMMA LevelFacts ==
    ASSUME NEW h \in [Rank -> Int], NEW n \in Int, \A p \in Rank : h[p] <= n, NEW r \in Rank, h[r] \in Nat
    PROVE  /\ Level(h) = h[r] => \A p \in Rank : h[p] # -1 /\ h[p] <= h[r]
           /\ Level(h) # h[r] /\ (\A p \in Rank : h[p] # -1) => \E p \in Rank : h[r] < h[p]
<1>1. h[r] # -1
  OBVIOUS
<1>2. CASE \E p \in Rank : h[p] = -1
  BY <1>1, <1>2 DEF Level
<1>3. CASE ~ \E p \in Rank : h[p] = -1
  <2>1. PICK S : S = {h[p] : p \in Rank}
    OBVIOUS
  <2>2. S \subseteq Int /\ h[r] \in S /\ \A x \in S : x <= n
    BY <2>1
  <2>3. Max(S) \in S /\ \A x \in S : x <= Max(S)
    BY <2>2, MaxFacts
  <2>4. Level(h) = Max(S)
    BY <1>3, <2>1 DEF Level
  <2>5. PICK p \in Rank : Max(S) = h[p]
    BY <2>1, <2>3
  <2>6. \A q \in Rank : h[q] <= h[p] /\ h[q] \in Int
    BY <2>1, <2>3, <2>5
  <2>7. ASSUME h[p] # h[r]
        PROVE  h[r] < h[p]
    BY <2>6, <2>7
  <2> QED
    BY <1>3, <2>4, <2>5, <2>6, <2>7
<1> QED
  BY <1>2, <1>3

\* The job a rank turns to: the oldest it has not run, which it has not entered
\* and is alone to have checked in on.
LEMMA TurnFacts ==
    ASSUME SlotInv, Levelling, NEW r \in Rank, pc[r] = "gang", Pending(r) # {},
           NEW at, at = Min(Pending(r))
    PROVE  /\ at \in DOMAIN jobs /\ at \in 0..(nextId - 1) /\ at <= horizon[r] /\ r \notin jobs[at].done
           /\ \A k \in DOMAIN jobs : k < at => r \in jobs[k].done
           /\ \A i \in DOMAIN jobs : jobs[i].entries[r] # -1 /\ r \notin jobs[i].done =>
                  i = at /\ jobs[i].entries[r] = count[r]
           /\ \A e \in entered : e[2] = r => e[1] # at
<1>1. /\ nextId \in Nat /\ DOMAIN jobs \subseteq 0..(nextId - 1) /\ DOMAIN jobs \subseteq Nat
      /\ horizon[r] \in Int
  BY BoardFacts
<1>2. Pending(r) \subseteq DOMAIN jobs /\ Pending(r) \subseteq Nat
  BY <1>1 DEF Pending
<1>3. at \in Pending(r) /\ \A k \in Pending(r) : at <= k
  BY <1>2, MinFacts
<1>4. at \in DOMAIN jobs /\ at <= horizon[r] /\ r \notin jobs[at].done
  BY <1>3 DEF Pending
<1>5. at \in 0..(nextId - 1) /\ at \in Nat
  BY <1>1, <1>4
<1>6. ASSUME NEW k \in DOMAIN jobs, k < at
      PROVE  r \in jobs[k].done
  <2>1. k \in Nat /\ ~ (at <= k)
    BY <1>1, <1>5, <1>6
  <2>2. k <= horizon[r]
    BY <1>1, <1>4, <1>5, <1>6, <2>1
  <2> QED
    BY <1>3, <2>1, <2>2 DEF Pending
<1>7. ASSUME NEW i \in DOMAIN jobs, jobs[i].entries[r] # -1, r \notin jobs[i].done
      PROVE  i = at /\ jobs[i].entries[r] = count[r]
  <2>1. /\ i <= horizon[r] /\ jobs[i].entries[r] = Mark(r)
        /\ \A k \in DOMAIN jobs : k < i => r \in jobs[k].done
    BY <1>7 DEF Levelling, CheckedIn
  <2>2. i \in Pending(r)
    BY <1>7, <2>1 DEF Pending
  <2>3. at <= i /\ ~ (at < i) /\ i \in Nat
    BY <1>1, <1>3, <1>4, <2>1, <2>2
  <2> QED
    BY <1>5, <2>1, <2>3 DEF Mark
<1>8. ASSUME NEW e \in entered, e[2] = r, e[1] = at
      PROVE  FALSE
  BY <1>4, <1>8 DEF Levelling, Aboard
<1> QED
  BY <1>4, <1>5, <1>6, <1>7, <1>8

\* A rank with nothing pending leaves the board.
LEMMA LeaveKept ==
    ASSUME SlotInv, Levelling, NEW r \in Rank, pc[r] = "gang", Pending(r) = {},
           pc' = [pc EXCEPT ![r] = "admit"], UNCHANGED <<jobs, job, entered, count, nextId, horizon>>
    PROVE  Levelling'
<1>1. pc'[r] = "admit" /\ \A p \in Rank \ {r} : pc'[p] = pc[p]
  BY DEF SlotInv, TypeOK
<1>2. \A e \in entered : e[2] \in Rank
  BY DEF Levelling, Behind
<1>3. CheckedIn'
  <2> SUFFICES ASSUME NEW i \in DOMAIN jobs, NEW p \in Rank
               PROVE  /\ jobs[i].entries[p] >= -1 /\ jobs[i].entries[p] <= count[p] + 1
                      /\ jobs[i].entries[p] # -1 /\ p \notin jobs[i].done =>
                             /\ pc'[p] \in AtBoard /\ i <= horizon[p] /\ jobs[i].entries[p] = Mark(p)'
                             /\ \A k \in DOMAIN jobs : k < i => p \in jobs[k].done
    BY DEF CheckedIn
  <2>1. /\ jobs[i].entries[p] >= -1 /\ jobs[i].entries[p] <= count[p] + 1
        /\ jobs[i].entries[p] # -1 /\ p \notin jobs[i].done =>
               /\ pc[p] \in AtBoard /\ i <= horizon[p] /\ jobs[i].entries[p] = Mark(p)
               /\ \A k \in DOMAIN jobs : k < i => p \in jobs[k].done
    BY DEF Levelling, CheckedIn
  <2>2. CASE p = r
    BY <2>1, <2>2 DEF Pending
  <2>3. CASE p # r
    BY <1>1, <2>1, <2>3 DEF Mark
  <2> QED
    BY <2>2, <2>3
<1>4. Aboard' /\ Behind'
  <2>1. \A p \in Rank : /\ (pc[p] \in {"cp", "cpWait"} <=> pc'[p] \in {"cp", "cpWait"})
                        /\ (pc[p] = "cp" <=> pc'[p] = "cp")
    BY <1>1
  <2> QED
    BY <1>2, <2>1 DEF Levelling, Aboard, Behind
<1>5. Levelled' /\ InTurn' /\ Unanimous'
  BY DEF Levelling, Levelled, InTurn, Unanimous, Entered
<1> QED
  BY <1>3, <1>4, <1>5 DEF Levelling

\* A rank below the level announces its next launch and pumps.
LEMMA PumpKept ==
    ASSUME SlotInv, Levelling, NEW r \in Rank, pc[r] = "gang", Pending(r) # {},
           NEW at, at = Min(Pending(r)),
           NEW here, here = [jobs[at].entries EXCEPT ![r] = count[r]], Level(here) # count[r],
           jobs' = [jobs EXCEPT ![at].entries = [here EXCEPT ![r] = count[r] + 1]],
           pc' = [pc EXCEPT ![r] = "pump"], UNCHANGED <<job, entered, count, nextId, horizon>>
    PROVE  Levelling'
<1>1. pc'[r] = "pump" /\ \A p \in Rank \ {r} : pc'[p] = pc[p]
  BY DEF SlotInv, TypeOK
<1>2. /\ at \in DOMAIN jobs /\ at \in 0..(nextId - 1) /\ at <= horizon[r] /\ r \notin jobs[at].done
      /\ \A k \in DOMAIN jobs : k < at => r \in jobs[k].done
      /\ \A i \in DOMAIN jobs : jobs[i].entries[r] # -1 /\ r \notin jobs[i].done =>
             i = at /\ jobs[i].entries[r] = count[r]
      /\ \A e \in entered : e[2] = r => e[1] # at
  BY TurnFacts
<1>3. /\ \A i \in DOMAIN jobs : /\ jobs[i] \in Job /\ jobs[i].entries \in [Rank -> Int]
                                /\ \A p \in Rank : jobs[i].entries[p] \in Int
      /\ \A p \in Rank : count[p] \in Nat /\ count[p] <= MaxLaunch
      /\ MaxLaunch \in Nat
  BY BoardFacts, K3Assumption DEF SlotInv, TypeOK
<1>4. /\ DOMAIN jobs' = DOMAIN jobs
      /\ \A i \in DOMAIN jobs : jobs'[i].done = jobs[i].done /\ (i # at => jobs'[i] = jobs[i])
      /\ jobs'[at].entries = [here EXCEPT ![r] = count[r] + 1]
  <2>1. jobs[at] \in Job
    BY <1>2, <1>3
  <2> QED
    BY <1>2, <2>1 DEF Job
<1>5. here \in [Rank -> Int] /\ here[r] = count[r] /\ \A p \in Rank \ {r} : here[p] = jobs[at].entries[p]
  BY <1>2, <1>3
<1>6. /\ jobs'[at].entries[r] = count[r] + 1
      /\ \A p \in Rank \ {r} : jobs'[at].entries[p] = jobs[at].entries[p]
  BY <1>4, <1>5
<1>7. \A i \in DOMAIN jobs : \A p \in Rank \ {r} : jobs'[i].entries[p] = jobs[i].entries[p]
  BY <1>4, <1>6
<1>8. \A p \in Rank \ {r} : Mark(p)' = Mark(p)
  BY <1>1 DEF Mark
<1>9. CheckedIn'
  <2> SUFFICES ASSUME NEW i \in DOMAIN jobs, NEW p \in Rank
               PROVE  /\ jobs'[i].entries[p] >= -1 /\ jobs'[i].entries[p] <= count[p] + 1
                      /\ jobs'[i].entries[p] # -1 /\ p \notin jobs[i].done =>
                             /\ pc'[p] \in AtBoard /\ i <= horizon[p] /\ jobs'[i].entries[p] = Mark(p)'
                             /\ \A k \in DOMAIN jobs : k < i => p \in jobs[k].done
    BY <1>4, SMTT(40) DEF CheckedIn
  <2>1. /\ jobs[i].entries[p] >= -1 /\ jobs[i].entries[p] <= count[p] + 1
        /\ jobs[i].entries[p] # -1 /\ p \notin jobs[i].done =>
               /\ pc[p] \in AtBoard /\ i <= horizon[p] /\ jobs[i].entries[p] = Mark(p)
               /\ \A k \in DOMAIN jobs : k < i => p \in jobs[k].done
    BY DEF Levelling, CheckedIn
  <2>2. CASE p # r
    BY <1>1, <1>7, <1>8, <2>1, <2>2
  <2>3. CASE p = r /\ i # at
    BY <1>2, <1>4, <2>1, <2>3
  <2>4. CASE p = r /\ i = at
    <3>1. Mark(r)' = count[r] + 1 /\ pc'[r] \in AtBoard
      BY <1>1 DEF Mark, AtBoard
    <3>2. count[r] + 1 >= -1
      BY <1>3
    <3> QED
      BY <1>2, <1>3, <1>6, <2>4, <3>1, <3>2
  <2> QED
    BY <2>2, <2>3, <2>4
<1>10. ASSUME NEW e \in entered
       PROVE  /\ e[1] \in 0..(nextId - 1) /\ e[2] \in Rank /\ e[3] \in Nat /\ e[3] <= count[e[2]]
              /\ e[3] = count[e[2]] => pc[e[2]] = "cp" /\ job[e[2]].seq = e[1]
              /\ e[1] = at => e[2] # r
  BY <1>2 DEF Levelling, Behind
<1>11. Aboard'
  <2>1. \A p \in Rank : pc'[p] \in {"cp", "cpWait"} => p # r /\ pc[p] \in {"cp", "cpWait"} /\ job[p].seq \in DOMAIN jobs
    BY <1>1 DEF SlotInv, Board, Computing
  <2>2. \A p \in Rank : pc[p] \in {"cp", "cpWait"} => pc'[p] \in {"cp", "cpWait"}
    BY <1>1
  <2> QED
    BY <1>4, <1>7, <1>10, <2>1, <2>2 DEF Levelling, Aboard
<1>12. Levelled'
  <2> SUFFICES ASSUME NEW e \in entered, e[1] \in DOMAIN jobs
               PROVE  /\ jobs'[e[1]].entries[e[2]] = e[3]
                      /\ \A p \in Rank : jobs'[e[1]].entries[p] # -1 /\ jobs'[e[1]].entries[p] <= e[3]
    BY <1>4 DEF Levelled
  <2>1. /\ jobs[e[1]].entries[e[2]] = e[3]
        /\ \A p \in Rank : jobs[e[1]].entries[p] # -1 /\ jobs[e[1]].entries[p] <= e[3]
    BY DEF Levelling, Levelled
  <2>2. CASE e[1] # at
    BY <1>4, <2>1, <2>2
  <2>3. CASE e[1] = at
    <3>1. jobs[at].entries[r] = count[r]
      BY <1>2, <2>1, <2>3
    <3>2. \A p \in Rank : here[p] = jobs[at].entries[p]
      BY <1>5, <3>1
    <3>3. \A p \in Rank : here[p] # -1 /\ here[p] <= e[3] /\ here[p] \in Int
      BY <1>5, <2>1, <2>3, <3>2
    <3>4. PICK p \in Rank : count[r] < here[p]
      <4>1. e[3] \in Int /\ here[r] \in Nat /\ Level(here) # here[r]
        BY <1>3, <1>5, <1>10
      <4> QED
        BY <1>5, <3>3, <4>1, LevelFacts
    <3>5. count[r] + 1 <= e[3] /\ count[r] + 1 # -1
      BY <1>3, <1>10, <3>3, <3>4
    <3> QED
      BY <1>6, <1>10, <2>1, <2>3, <3>5
  <2> QED
    BY <2>2, <2>3
<1>13. Behind'
  <2>1. \A p \in Rank : pc[p] = "cp" => pc'[p] = "cp"
    BY <1>1
  <2> QED
    BY <1>10, <2>1 DEF Behind
<1>14. InTurn' /\ Unanimous'
  BY <1>4 DEF Levelling, InTurn, Unanimous, Entered
<1> QED
  BY <1>9, <1>11, <1>12, <1>13, <1>14 DEF Levelling

\* A rank on the level enters the superstep.
LEMMA EnterKept ==
    ASSUME SlotInv, Levelling, NEW r \in Rank, pc[r] = "gang", Pending(r) # {},
           NEW at, at = Min(Pending(r)),
           NEW here, here = [jobs[at].entries EXCEPT ![r] = count[r]], Level(here) = count[r],
           jobs' = [jobs EXCEPT ![at].entries = here],
           job' = [job EXCEPT ![r] = [seq |-> at, req |-> jobs[at].req]],
           entered' = entered \cup {<<at, r, count[r]>>},
           pc' = [pc EXCEPT ![r] = "cp"], UNCHANGED <<count, nextId, horizon>>
    PROVE  Levelling'
<1>1. /\ pc'[r] = "cp" /\ \A p \in Rank \ {r} : pc'[p] = pc[p]
      /\ job'[r].seq = at /\ \A p \in Rank \ {r} : job'[p] = job[p]
  BY DEF SlotInv, TypeOK, Board, BoardTypes
<1>2. /\ at \in DOMAIN jobs /\ at \in 0..(nextId - 1) /\ at <= horizon[r] /\ r \notin jobs[at].done
      /\ \A k \in DOMAIN jobs : k < at => r \in jobs[k].done
      /\ \A i \in DOMAIN jobs : jobs[i].entries[r] # -1 /\ r \notin jobs[i].done =>
             i = at /\ jobs[i].entries[r] = count[r]
      /\ \A e \in entered : e[2] = r => e[1] # at
  BY TurnFacts
<1>3. /\ \A i \in DOMAIN jobs : /\ jobs[i] \in Job /\ jobs[i].entries \in [Rank -> Int]
                                /\ \A p \in Rank : jobs[i].entries[p] \in Int
      /\ \A p \in Rank : count[p] \in Nat /\ count[p] <= MaxLaunch
      /\ nextId \in Nat /\ MaxLaunch \in Nat
  BY BoardFacts, K3Assumption DEF SlotInv, TypeOK
<1>4. /\ DOMAIN jobs' = DOMAIN jobs
      /\ \A i \in DOMAIN jobs : jobs'[i].done = jobs[i].done /\ (i # at => jobs'[i] = jobs[i])
      /\ jobs'[at].entries = here
  <2>1. jobs[at] \in Job
    BY <1>2, <1>3
  <2> QED
    BY <1>2, <2>1 DEF Job
<1>5. here \in [Rank -> Int] /\ here[r] = count[r] /\ \A p \in Rank \ {r} : here[p] = jobs[at].entries[p]
  BY <1>2, <1>3
<1>6. \A i \in DOMAIN jobs : \A p \in Rank \ {r} : jobs'[i].entries[p] = jobs[i].entries[p]
  BY <1>4, <1>5
<1>7. \A p \in Rank \ {r} : Mark(p)' = Mark(p)
  BY <1>1 DEF Mark
<1>8. \A p \in Rank : here[p] # -1 /\ here[p] <= count[r] /\ here[p] \in Int
  <2>1. MaxLaunch + 1 \in Int /\ \A p \in Rank : here[p] <= MaxLaunch + 1
    <3>1. \A p \in Rank : jobs[at].entries[p] <= count[p] + 1
      BY <1>2 DEF Levelling, CheckedIn
    <3>2. \A p \in Rank : jobs[at].entries[p] <= MaxLaunch + 1
      BY <1>2, <1>3, <3>1
    <3>3. count[r] <= MaxLaunch + 1
      BY <1>3
    <3> QED
      BY <1>3, <1>5, <3>2, <3>3
  <2>2. here[r] \in Nat /\ Level(here) = here[r]
    BY <1>3, <1>5
  <2>3. \A p \in Rank : here[p] # -1 /\ here[p] <= here[r]
    BY <1>5, <2>1, <2>2, LevelFacts
  <2> QED
    BY <1>5, <2>3
<1>9. CheckedIn'
  <2> SUFFICES ASSUME NEW i \in DOMAIN jobs, NEW p \in Rank
               PROVE  /\ jobs'[i].entries[p] >= -1 /\ jobs'[i].entries[p] <= count[p] + 1
                      /\ jobs'[i].entries[p] # -1 /\ p \notin jobs[i].done =>
                             /\ pc'[p] \in AtBoard /\ i <= horizon[p] /\ jobs'[i].entries[p] = Mark(p)'
                             /\ \A k \in DOMAIN jobs : k < i => p \in jobs[k].done
    BY <1>4 DEF CheckedIn
  <2>1. /\ jobs[i].entries[p] >= -1 /\ jobs[i].entries[p] <= count[p] + 1
        /\ jobs[i].entries[p] # -1 /\ p \notin jobs[i].done =>
               /\ pc[p] \in AtBoard /\ i <= horizon[p] /\ jobs[i].entries[p] = Mark(p)
               /\ \A k \in DOMAIN jobs : k < i => p \in jobs[k].done
    BY DEF Levelling, CheckedIn
  <2>2. CASE p # r
    BY <1>1, <1>6, <1>7, <2>1, <2>2
  <2>3. CASE p = r /\ i # at
    BY <1>2, <1>4, <2>1, <2>3
  <2>4. CASE p = r /\ i = at
    <3>1. Mark(r)' = count[r] /\ pc'[r] \in AtBoard
      BY <1>1 DEF Mark, AtBoard
    <3>2. count[r] >= -1 /\ count[r] <= count[r] + 1
      BY <1>3
    <3> QED
      BY <1>2, <1>4, <1>5, <2>4, <3>1, <3>2
  <2> QED
    BY <2>2, <2>3, <2>4
<1>10. ASSUME NEW e \in entered
       PROVE  /\ e[1] \in 0..(nextId - 1) /\ e[2] \in Rank /\ e[3] \in Nat /\ e[3] <= count[e[2]]
              /\ e[3] = count[e[2]] => pc[e[2]] = "cp" /\ job[e[2]].seq = e[1]
              /\ e[1] = at => e[2] # r
  BY <1>2 DEF Levelling, Behind
<1>11. Aboard'
  <2>1. ASSUME NEW p \in Rank, pc'[p] \in {"cp", "cpWait"}
        PROVE  <<job'[p].seq, p, jobs'[job'[p].seq].entries[p]>> \in entered'
    <3>1. CASE p = r
      BY <1>1, <1>4, <1>5, <3>1
    <3>2. CASE p # r
      <4>1. pc[p] \in {"cp", "cpWait"} /\ job'[p] = job[p] /\ job[p].seq \in DOMAIN jobs
        BY <1>1, <2>1, <3>2 DEF SlotInv, Board, Computing
      <4>2. <<job[p].seq, p, jobs[job[p].seq].entries[p]>> \in entered
        BY <4>1 DEF Levelling, Aboard
      <4> QED
        BY <1>6, <3>2, <4>1, <4>2
    <3> QED
      BY <3>1, <3>2
  <2>2. ASSUME NEW e \in entered', e[1] \in DOMAIN jobs, e[2] \notin jobs[e[1]].done
        PROVE  pc'[e[2]] \in {"cp", "cpWait"} /\ job'[e[2]].seq = e[1]
    <3>1. CASE e = <<at, r, count[r]>>
      BY <1>1, <3>1
    <3>2. CASE e \in entered
      <4>1. pc[e[2]] \in {"cp", "cpWait"} /\ job[e[2]].seq = e[1] /\ e[2] \in Rank
        BY <1>10, <2>2, <3>2 DEF Levelling, Aboard
      <4> QED
        BY <1>1, <4>1
    <3> QED
      BY <3>1, <3>2
  <2> QED
    BY <1>4, <2>1, <2>2 DEF Aboard
<1>12. ASSUME NEW e \in entered, e[1] = at
       PROVE  /\ e[3] = count[r] /\ here = jobs[at].entries
  <2>1. /\ jobs[at].entries[e[2]] = e[3]
        /\ \A p \in Rank : jobs[at].entries[p] # -1 /\ jobs[at].entries[p] <= e[3]
    BY <1>2, <1>12 DEF Levelling, Levelled
  <2>2. jobs[at].entries[r] = count[r]
    BY <1>2, <2>1
  <2>3. here = jobs[at].entries
    BY <1>2, <1>3, <2>2
  <2>4. e[3] <= count[r] /\ count[r] <= e[3]
    BY <1>8, <1>10, <2>1, <2>2, <2>3
  <2>5. e[3] \in Nat /\ count[r] \in Nat
    BY <1>3, <1>10
  <2>6. e[3] = count[r]
    BY <2>4, <2>5
  <2> QED
    BY <2>3, <2>6
<1>13. Levelled'
  <2> SUFFICES ASSUME NEW e \in entered', e[1] \in DOMAIN jobs
               PROVE  /\ jobs'[e[1]].entries[e[2]] = e[3]
                      /\ \A p \in Rank : jobs'[e[1]].entries[p] # -1 /\ jobs'[e[1]].entries[p] <= e[3]
    BY <1>4 DEF Levelled
  <2>1. CASE e = <<at, r, count[r]>>
    BY <1>4, <1>5, <1>8, <2>1
  <2>2. CASE e \in entered
    <3>1. /\ jobs[e[1]].entries[e[2]] = e[3]
          /\ \A p \in Rank : jobs[e[1]].entries[p] # -1 /\ jobs[e[1]].entries[p] <= e[3]
      BY <2>2 DEF Levelling, Levelled
    <3>2. jobs'[e[1]].entries = jobs[e[1]].entries
      BY <1>4, <1>12, <2>2
    <3> QED
      BY <3>1, <3>2
  <2> QED
    BY <2>1, <2>2
<1>14. Behind'
  <2> SUFFICES ASSUME NEW e \in entered'
               PROVE  /\ e[1] \in 0..(nextId - 1) /\ e[2] \in Rank /\ e[3] \in Nat /\ e[3] <= count[e[2]]
                      /\ e[3] = count[e[2]] => pc'[e[2]] = "cp" /\ job'[e[2]].seq = e[1]
    BY DEF Behind
  <2>1. CASE e = <<at, r, count[r]>>
    BY <1>1, <1>2, <1>3, <2>1
  <2>2. CASE e \in entered
    <3>1. pc[e[2]] = "cp" => e[2] # r
      OBVIOUS
    <3> QED
      BY <1>1, <1>10, <2>2, <3>1
  <2> QED
    BY <2>1, <2>2
<1>15. \A p, i : Entered(p, i) => Entered(p, i)'
  BY DEF Entered
<1>16. InTurn'
  <2>1. InTurn
    BY DEF Levelling
  <2>2. \A i \in 0..(nextId - 1) : \A p \in Rank : i \notin DOMAIN jobs' \/ p \in jobs'[i].done => Entered(p, i)'
    BY <1>4, <1>15, <2>1 DEF InTurn
  <2>3. ASSUME NEW e \in entered', NEW i \in 0..(e[1] - 1)
        PROVE  Entered(e[2], i)'
    <3>1. CASE e = <<at, r, count[r]>>
      <4>1. i \in 0..(nextId - 1) /\ i < at
        BY <1>2, <1>3, <2>3, <3>1
      <4>2. i \notin DOMAIN jobs \/ r \in jobs[i].done
        BY <1>2, <4>1
      <4>3. Entered(r, i)
        BY <2>1, <4>1, <4>2 DEF InTurn
      <4> QED
        BY <1>15, <3>1, <4>3
    <3>2. CASE e \in entered
      BY <1>15, <2>1, <3>2 DEF InTurn
    <3> QED
      BY <3>1, <3>2
  <2>4. ASSUME NEW e \in entered', NEW f \in entered', e[2] = f[2], e[1] < f[1]
        PROVE  e[3] < f[3]
    <3>1. CASE e \in entered /\ f \in entered
      BY <2>1, <2>4, <3>1 DEF InTurn
    <3>2. CASE e \in entered /\ f = <<at, r, count[r]>>
      <4>1. e[3] \in Nat /\ e[3] <= count[r] /\ e[3] # count[r]
        BY <1>10, <2>4, <3>2
      <4>2. e[3] < count[r]
        <5>1. count[r] \in Nat
          BY <1>3
        <5> QED
          BY <4>1, <5>1
      <4>3. f[3] = count[r]
        BY <3>2
      <4> QED
        BY <4>2, <4>3
    <3>3. CASE e = <<at, r, count[r]>> /\ f \in entered
      <4>1. at \in 0..(f[1] - 1) /\ f[2] = r
        BY <1>2, <1>3, <1>10, <2>4, <3>3
      <4>2. Entered(r, at)
        BY <2>1, <3>3, <4>1 DEF InTurn
      <4> QED
        BY <1>2, <4>2 DEF Entered
    <3>4. CASE e = <<at, r, count[r]>> /\ f = <<at, r, count[r]>>
      <4>1. ~ (at < at)
        BY <1>2
      <4> QED
        BY <2>4, <3>4, <4>1
    <3> QED
      BY <3>1, <3>2, <3>3, <3>4
  <2> QED
    BY <2>2, <2>3, <2>4 DEF InTurn
<1>17. Unanimous'
  <2> SUFFICES ASSUME NEW e \in entered', NEW f \in entered', e[1] = f[1]
               PROVE  e[3] = f[3]
    BY DEF Unanimous
  <2>1. \A g \in entered' : g[1] = at => g[3] = count[r]
    BY <1>12
  <2>2. CASE e[1] = at
    BY <2>1, <2>2
  <2>3. CASE e[1] # at
    <3>1. e \in entered /\ f \in entered
      BY <2>3
    <3> QED
      BY <3>1 DEF Levelling, Unanimous
  <2> QED
    BY <2>2, <2>3
<1> QED
  BY <1>9, <1>11, <1>13, <1>14, <1>16, <1>17 DEF Levelling

\* One pass over the board.
LEMMA GangPassKept ==
    ASSUME SlotInv, Levelling, NEW r \in Rank, GangPass(r)
    PROVE  Levelling'
<1>1. pc[r] = "gang" /\ UNCHANGED <<count, nextId, horizon>>
  BY DEF GangPass
<1>2. PICK at : at = Min(Pending(r))
  OBVIOUS
<1>3. PICK here : here = [jobs[at].entries EXCEPT ![r] = count[r]]
  OBVIOUS
<1>4. CASE Pending(r) = {}
  <2>1. pc' = [pc EXCEPT ![r] = "admit"] /\ UNCHANGED <<jobs, job, entered, count, nextId, horizon>>
    BY <1>1, <1>4 DEF GangPass, Goto
  <2> QED
    BY <1>1, <1>4, <2>1, LeaveKept
<1>5. CASE Pending(r) # {} /\ Level(here) = count[r]
  <2>1. /\ jobs' = [jobs EXCEPT ![at].entries = here]
        /\ job' = [job EXCEPT ![r] = [seq |-> at, req |-> jobs[at].req]]
        /\ entered' = entered \cup {<<at, r, count[r]>>} /\ pc' = [pc EXCEPT ![r] = "cp"]
    BY <1>2, <1>3, <1>5 DEF GangPass, Goto
  <2> QED
    BY <1>1, <1>2, <1>3, <1>5, <2>1, EnterKept
<1>6. CASE Pending(r) # {} /\ Level(here) # count[r]
  <2>1. /\ jobs' = [jobs EXCEPT ![at].entries = [here EXCEPT ![r] = count[r] + 1]]
        /\ pc' = [pc EXCEPT ![r] = "pump"] /\ UNCHANGED <<job, entered, count, nextId, horizon>>
    BY <1>1, <1>2, <1>3, <1>6 DEF GangPass, Goto
  <2> QED
    BY <1>1, <1>2, <1>3, <1>6, <2>1, PumpKept
<1> QED
  BY <1>4, <1>5, <1>6

\* A rank that has computed its segment marks the job; the last one drops it.
LEMMA CpReturnKept ==
    ASSUME SlotInv, Levelling, NEW r \in Rank, CpReturn(r)
    PROVE  Levelling'
<1>0. pc[r] = "cpWait" /\ UNCHANGED <<count, nextId, horizon, entered>>
  BY DEF CpReturn
<1>1. /\ \A p \in Rank \ {r} : pc'[p] = pc[p] /\ job'[p] = job[p]
      /\ pc'[r] \in {"gang", "admit"}
  <2>1. pc \in [Rank -> Place] /\ job \in [Rank -> [seq : Int, req : Request \cup {NoReq}]]
    BY DEF SlotInv, TypeOK, Place, Board, BoardTypes
  <2>2. job' = [job EXCEPT ![r] = None]
    BY DEF CpReturn
  <2>3. pc' = [pc EXCEPT ![r] = "gang"] \/ pc' = [pc EXCEPT ![r] = "admit"]
    BY DEF CpReturn, Goto
  <2> QED
    BY <2>1, <2>2, <2>3
<1>2. PICK j : j = job[r].seq
  OBVIOUS
<1>3. j \in DOMAIN jobs /\ r \notin jobs[j].done
  BY <1>0, <1>2 DEF SlotInv, Board, Computing
<1>4. /\ nextId \in Nat /\ DOMAIN jobs \subseteq 0..(nextId - 1) /\ DOMAIN jobs \subseteq Nat
      /\ \A i \in DOMAIN jobs : jobs[i] \in Job
  BY BoardFacts
<1>5. PICK marked : marked = [jobs EXCEPT ![j].done = @ \cup {r}]
  OBVIOUS
<1>6. /\ \A i \in DOMAIN jobs : /\ marked[i].entries = jobs[i].entries
                                /\ \A p \in Rank \ {r} : p \in marked[i].done <=> p \in jobs[i].done
                                /\ r \in marked[i].done <=> r \in jobs[i].done \/ i = j
  <2>1. \A i \in DOMAIN jobs : i # j => marked[i] = jobs[i]
    BY <1>5
  <2>2. marked[j].entries = jobs[j].entries /\ marked[j].done = jobs[j].done \cup {r}
    <3>1. jobs[j] \in Job
      BY <1>3, <1>4
    <3> QED
      BY <1>3, <1>5, <3>1 DEF Job
  <2> QED
    BY <1>3, <2>1, <2>2
<1>7. /\ DOMAIN jobs' = {i \in DOMAIN jobs : marked[i].done # Rank}
      /\ \A i \in DOMAIN jobs' : jobs'[i] = marked[i] /\ i \in DOMAIN jobs
  <2>1. jobs' = [id \in {i \in DOMAIN jobs : marked[i].done # Rank} |-> marked[id]]
    BY <1>2, <1>5 DEF CpReturn
  <2> QED
    BY <2>1
<1>8. Entered(r, j) /\ jobs[j].entries[r] # -1
  <2>1. <<j, r, jobs[j].entries[r]>> \in entered
    BY <1>0, <1>2 DEF Levelling, Aboard
  <2>2. Entered(r, j)
    BY <2>1 DEF Entered
  <2>3. PICK e \in entered : e[1] = j
    BY <2>1
  <2>4. jobs[j].entries[r] # -1
    BY <1>3, <2>3 DEF Levelling, Levelled
  <2> QED
    BY <2>2, <2>4
<1>9. \A p \in Rank \ {r} : Mark(p)' = Mark(p)
  BY <1>0, <1>1 DEF Mark
<1>10. CheckedIn'
  <2> SUFFICES ASSUME NEW i \in DOMAIN jobs', NEW p \in Rank
               PROVE  /\ jobs'[i].entries[p] >= -1 /\ jobs'[i].entries[p] <= count[p] + 1
                      /\ jobs'[i].entries[p] # -1 /\ p \notin jobs'[i].done =>
                             /\ pc'[p] \in AtBoard /\ i <= horizon[p] /\ jobs'[i].entries[p] = Mark(p)'
                             /\ \A k \in DOMAIN jobs' : k < i => p \in jobs'[k].done
    BY <1>0 DEF CheckedIn
  <2>1. i \in DOMAIN jobs /\ jobs'[i].entries = jobs[i].entries
    BY <1>6, <1>7
  <2>2. /\ jobs[i].entries[p] >= -1 /\ jobs[i].entries[p] <= count[p] + 1
        /\ jobs[i].entries[p] # -1 /\ p \notin jobs[i].done =>
               /\ pc[p] \in AtBoard /\ i <= horizon[p] /\ jobs[i].entries[p] = Mark(p)
               /\ \A k \in DOMAIN jobs : k < i => p \in jobs[k].done
    BY <2>1 DEF Levelling, CheckedIn
  <2>3. ASSUME jobs[i].entries[p] # -1, p \notin jobs'[i].done, p = r
        PROVE  FALSE
    <3>1. r \notin jobs[i].done /\ i # j
      BY <1>6, <1>7, <2>1, <2>3
    <3>2. \A k \in DOMAIN jobs : k < i => r \in jobs[k].done
      BY <2>2, <2>3, <3>1
    <3>3. \A k \in DOMAIN jobs : k < j => r \in jobs[k].done
      BY <1>3, <1>8 DEF Levelling, CheckedIn
    <3>4. i < j \/ j < i
      BY <1>3, <1>4, <2>1, <3>1
    <3> QED
      BY <1>3, <2>1, <3>1, <3>2, <3>3, <3>4
  <2>4. ASSUME jobs[i].entries[p] # -1, p \notin jobs'[i].done, p # r
        PROVE  /\ pc'[p] \in AtBoard /\ i <= horizon[p] /\ jobs[i].entries[p] = Mark(p)'
               /\ \A k \in DOMAIN jobs' : k < i => p \in jobs'[k].done
    <3>1. p \notin jobs[i].done
      BY <1>6, <1>7, <2>1, <2>4
    <3> QED
      BY <1>1, <1>6, <1>7, <1>9, <2>2, <2>4, <3>1
  <2> QED
    BY <2>1, <2>2, <2>3, <2>4
<1>11. Aboard'
  <2>1. ASSUME NEW p \in Rank, pc'[p] \in {"cp", "cpWait"}
        PROVE  <<job'[p].seq, p, jobs'[job'[p].seq].entries[p]>> \in entered
    <3>1. p # r /\ pc[p] \in {"cp", "cpWait"} /\ job'[p] = job[p]
      BY <1>1, <2>1
    <3>2. job[p].seq \in DOMAIN jobs /\ p \notin jobs[job[p].seq].done
      BY <3>1 DEF SlotInv, Board, Computing
    <3>3. p \notin marked[job[p].seq].done
      BY <1>6, <3>1, <3>2
    <3>4. job[p].seq \in DOMAIN jobs'
      BY <1>7, <3>2, <3>3
    <3>5. <<job[p].seq, p, jobs[job[p].seq].entries[p]>> \in entered
      BY <3>1 DEF Levelling, Aboard
    <3> QED
      BY <1>6, <1>7, <3>1, <3>2, <3>4, <3>5
  <2>2. ASSUME NEW e \in entered, e[1] \in DOMAIN jobs', e[2] \notin jobs'[e[1]].done
        PROVE  pc'[e[2]] \in {"cp", "cpWait"} /\ job'[e[2]].seq = e[1]
    <3>1. e[2] \in Rank
      BY DEF Levelling, Behind
    <3>2. e[1] \in DOMAIN jobs /\ e[2] \notin jobs[e[1]].done /\ (e[2] = r => e[1] # j)
      BY <1>6, <1>7, <2>2, <3>1
    <3>3. pc[e[2]] \in {"cp", "cpWait"} /\ job[e[2]].seq = e[1]
      BY <3>2 DEF Levelling, Aboard
    <3>4. e[2] # r
      BY <1>2, <3>2, <3>3
    <3> QED
      BY <1>1, <3>1, <3>3, <3>4
  <2> QED
    BY <1>0, <2>1, <2>2 DEF Aboard
<1>12. Levelled'
  BY <1>0, <1>6, <1>7 DEF Levelling, Levelled
<1>13. Behind'
  <2>1. \A p \in Rank : pc[p] = "cp" => pc'[p] = "cp" /\ job'[p] = job[p]
    BY <1>0, <1>1
  <2> QED
    BY <1>0, <2>1 DEF Levelling, Behind
<1>14. InTurn'
  <2>1. InTurn
    BY DEF Levelling
  <2>2. ASSUME NEW i \in 0..(nextId - 1), NEW p \in Rank, i \notin DOMAIN jobs' \/ p \in jobs'[i].done
        PROVE  Entered(p, i)
    <3>1. CASE i \notin DOMAIN jobs
      BY <2>1, <3>1 DEF InTurn
    <3>2. CASE i \in DOMAIN jobs
      <4>1. p \in marked[i].done
        BY <1>7, <2>2, <3>2
      <4>2. p \in jobs[i].done \/ (i = j /\ p = r)
        BY <1>6, <3>2, <4>1
      <4> QED
        BY <1>8, <2>1, <4>2 DEF InTurn
    <3> QED
      BY <3>1, <3>2
  <2>3. \A p, i : Entered(p, i)' <=> Entered(p, i)
    BY <1>0 DEF Entered
  <2> QED
    BY <1>0, <2>1, <2>2, <2>3 DEF InTurn
<1>15. Unanimous'
  BY <1>0 DEF Levelling, Unanimous
<1> QED
  BY <1>10, <1>11, <1>12, <1>13, <1>14, <1>15 DEF Levelling

\* The steps a rank takes away from the board.
LEMMA OffboardSteps ==
    ASSUME SlotInv, NEW r \in Rank,
           \/ StepStart(r) \/ WhaleLaunch(r) \/ WhaleReturn(r) \/ AdmitVerdict(r) \/ PostWhale(r)
           \/ PrefillStart(r) \/ PrefillLaunch(r) \/ PrefillReturn(r) \/ DecodeLaunch(r) \/ DecodeReturn(r)
    PROVE  Offboard(r)
<1>1. /\ pc \in [Rank -> Place] /\ count \in [Rank -> 0..MaxLaunch] /\ horizon \in [Rank -> Int]
      /\ job \in [Rank -> [seq : Int, req : Request \cup {NoReq}]] /\ \A p \in Rank : count[p] \in Nat
  BY DEF SlotInv, TypeOK, Place, Board, BoardTypes
<1>2. CASE StepStart(r)
  <2>1. UNCHANGED <<lane, count, jobs, nextId, job, entered>> /\ pc[r] = "top"
    BY <1>2 DEF StepStart, const
  <2>2. \/ pc' = [pc EXCEPT ![r] = "gang"] /\ horizon' = [horizon EXCEPT ![r] = Max(DOMAIN jobs)]
        \/ pc' = [pc EXCEPT ![r] = "admit"] /\ horizon' = horizon
    BY <1>2 DEF StepStart, Goto
  <2>3. pc'[r] \in {"gang", "admit"} /\ \A p \in Rank \ {r} : pc'[p] = pc[p] /\ horizon'[p] = horizon[p]
    BY <1>1, <2>2
  <2> QED
    BY <1>1, <2>1, <2>3 DEF Offboard, AtBoard
<1>3. CASE WhaleLaunch(r) \/ PrefillLaunch(r) \/ DecodeLaunch(r)
  <2>1. UNCHANGED <<lane, jobs, nextId, horizon, job, entered>>
    BY <1>3 DEF WhaleLaunch, PrefillLaunch, DecodeLaunch, const, board
  <2>2. count' = [count EXCEPT ![r] = @ + 1]
    BY <1>3 DEF WhaleLaunch, PrefillLaunch, DecodeLaunch, Launch
  <2>3. /\ pc[r] \in {"whale", "prefill", "admit", "admitHeld"} /\ pc'[r] \in {"whaleWait", "prefill", "decodeWait"}
        /\ \A p \in Rank \ {r} : pc'[p] = pc[p]
    BY <1>1, <1>3 DEF WhaleLaunch, PrefillLaunch, DecodeLaunch, AdmitDone, Goto
  <2>4. count[r] <= count'[r] /\ \A p \in Rank \ {r} : count'[p] = count[p]
    BY <1>1, <2>2
  <2> QED
    BY <2>1, <2>3, <2>4 DEF Offboard, AtBoard
<1>4. CASE WhaleReturn(r) \/ PrefillReturn(r) \/ DecodeReturn(r)
  <2>1. UNCHANGED <<lane, count, jobs, nextId, horizon, entered>>
    BY <1>4 DEF WhaleReturn, PrefillReturn, DecodeReturn, const, board
  <2>2. \A p \in Rank \ {r} : job'[p] = job[p]
    BY <1>1, <1>4 DEF WhaleReturn, PrefillReturn, DecodeReturn, board
  <2>3. /\ pc[r] \in {"whaleWait", "prefill", "decodeWait"} /\ pc'[r] \in {"top", "admit"}
        /\ \A p \in Rank \ {r} : pc'[p] = pc[p]
    BY <1>1, <1>4 DEF WhaleReturn, PrefillReturn, DecodeReturn, Goto
  <2> QED
    BY <1>1, <2>1, <2>2, <2>3 DEF Offboard, AtBoard
<1>5. CASE AdmitVerdict(r) \/ PostWhale(r) \/ PrefillStart(r)
  <2>1. UNCHANGED <<lane, count, jobs, nextId, horizon, job, entered>>
    BY <1>5 DEF AdmitVerdict, PostWhale, PrefillStart, const, board
  <2>2. /\ pc[r] \in {"admit", "admitHeld"} /\ pc'[r] \in {"admit", "admitHeld", "prefill"}
        /\ \A p \in Rank \ {r} : pc'[p] = pc[p]
    BY <1>1, <1>5 DEF AdmitVerdict, PostWhale, PrefillStart, Goto
  <2> QED
    BY <1>1, <2>1, <2>2 DEF Offboard, AtBoard
<1> QED
  BY <1>2, <1>3, <1>4, <1>5

\* Initially nothing is on the board.
LEMMA InitBoard ==
    ASSUME Init
    PROVE  BoardPact
<1>1. jobs = <<>> /\ entered = {} /\ nextId = 0 /\ \A r \in Rank : pc[r] = "top"
  BY DEF Init
<1>2. DOMAIN jobs = {} /\ 0..(nextId - 1) = {}
  BY <1>1
<1>3. CheckedIn /\ Aboard /\ Levelled /\ Behind /\ InTurn /\ Unanimous
  BY <1>1, <1>2 DEF CheckedIn, Aboard, Levelled, Behind, InTurn, Unanimous
<1> QED
  BY <1>3 DEF BoardPact, Levelling

\* Every step keeps the board level.
LEMMA NextBoard ==
    ASSUME Pact, BoardPact, [Next]_vars
    PROVE  BoardPact'
<1>1. SlotInv /\ Lanes /\ SlotInv'
  <2>1. SlotInv /\ Clock
    BY DEF Pact
  <2>2. SlotInv'
    BY <2>1, NextSlots
  <2> QED
    BY <2>1, <2>2 DEF Clock
<1>2. lane' = lane
  <2>1. ASSUME NEW r \in Rank, RankStep(r)
        PROVE  lane' = lane
    <3>1. CASE \/ StepStart(r) \/ ServeMessage(r) \/ ServeEnter(r) \/ ServeFree(r) \/ WhaleLaunch(r) \/ WhaleReturn(r)
               \/ AdmitVerdict(r) \/ PostWhale(r) \/ PrefillStart(r)
      BY <3>1, Zenon DEF StepStart, ServeMessage, ServeEnter, ServeFree, WhaleLaunch, WhaleReturn, AdmitVerdict,
                         PostWhale, PrefillStart, const
    <3>2. CASE \/ PrefillLaunch(r) \/ PrefillReturn(r) \/ PostJob(r) \/ GangPass(r) \/ PumpLaunch(r) \/ PumpReturn(r)
               \/ CpLaunch(r) \/ CpReturn(r) \/ DecodeLaunch(r) \/ DecodeReturn(r)
      BY <3>2, Zenon DEF PrefillLaunch, PrefillReturn, PostJob, GangPass, PumpLaunch, PumpReturn, CpLaunch, CpReturn,
                         DecodeLaunch, DecodeReturn, const
    <3> QED
      BY <2>1, <3>1, <3>2 DEF RankStep
  <2>2. ASSUME \/ \E r \in Rank : SequencerStep(r)
               \/ GatherTimeout \/ (\E q \in Request : Submit(q) \/ Abort(q)) \/ UNCHANGED vars
        PROVE  lane' = lane
    BY <2>2 DEF SequencerStep, GatherTimeout, Submit, Abort, vars, const
  <2> QED
    BY <2>1, <2>2 DEF Next, Progress, Horizon
<1>3. SUFFICES ASSUME lane = "cp"
               PROVE  Levelling'
  BY <1>2 DEF BoardPact
<1>4. Levelling
  BY <1>3 DEF BoardPact
<1>5. seqr.gathering = None /\ \A r \in Rank : up[r] = <<>> /\ down[r] = <<>>
  BY <1>1, <1>3 DEF Lanes
<1>6. ASSUME NEW r \in Rank, RankStep(r)
      PROVE  Levelling'
  <2>1. CASE \/ StepStart(r) \/ WhaleLaunch(r) \/ WhaleReturn(r) \/ AdmitVerdict(r) \/ PostWhale(r)
             \/ PrefillStart(r) \/ PrefillLaunch(r) \/ PrefillReturn(r) \/ DecodeLaunch(r) \/ DecodeReturn(r)
    <3>1. Offboard(r)
      BY <1>1, <2>1, OffboardSteps
    <3> QED
      BY <1>1, <1>4, <3>1, OffboardKept
  <2>2. CASE PumpLaunch(r) \/ PumpReturn(r) \/ CpLaunch(r)
    <3>1. OnMark(r)
      BY <1>1, <2>2, OnMarkSteps
    <3> QED
      BY <1>1, <1>4, <3>1, OnMarkKept
  <2>3. CASE PostJob(r)
    BY <1>1, <1>4, <2>3, PostJobKept
  <2>4. CASE GangPass(r)
    BY <1>1, <1>4, <2>4, GangPassKept
  <2>5. CASE CpReturn(r)
    BY <1>1, <1>4, <2>5, CpReturnKept
  <2>6. CASE ServeMessage(r) \/ ServeEnter(r) \/ ServeFree(r)
    BY <1>3, <1>5, <2>6 DEF ServeMessage, ServeEnter, ServeFree
  <2> QED
    BY <1>6, <2>1, <2>2, <2>3, <2>4, <2>5, <2>6 DEF RankStep
<1>7. ~ GatherTimeout /\ \A r \in Rank : ~ SequencerStep(r)
  BY <1>5 DEF GatherTimeout, SequencerStep
<1>8. ASSUME (\E q \in Request : Submit(q) \/ Abort(q)) \/ UNCHANGED vars
      PROVE  Levelling'
  <2>1. UNCHANGED <<count, pc, jobs, nextId, horizon, job, entered>>
    BY <1>8 DEF Submit, Abort, vars, board
  <2> QED
    BY <1>4, <2>1 DEF Levelling, CheckedIn, Aboard, Levelled, Behind, InTurn, Unanimous, Entered, Mark
<1> QED
  BY <1>6, <1>7, <1>8 DEF Next, Progress, Horizon

\* The partitions of a gang agree on every job of the board in every reachable
\* state, however their passes over it interleave.
THEOREM BoardInvariant == Spec => []BoardPact
<1>1. Init => BoardPact
  BY InitBoard
<1>2. Pact /\ BoardPact /\ [Next]_vars => BoardPact'
  BY NextBoard
<1> QED
  BY <1>1, <1>2, PactInvariant, PTL DEF Spec

\* Unanimity: everyone who enters a superstep does so at the same launch, and a
\* launch belongs to at most one superstep, in either lane (headers of whale.rs
\* and gang.rs).
THEOREM OneLaunchPerSuperstepHolds == Spec => []OneLaunchPerSuperstep
<1>1. ASSUME Pact, BoardPact
      PROVE  OneLaunchPerSuperstep
  <2> SUFFICES ASSUME NEW e \in entered, NEW f \in entered
               PROVE  (e[1] = f[1]) <=> (e[3] = f[3])
    BY DEF OneLaunchPerSuperstep
  <2>1. lane \in {"whale", "cp"} /\ nextId \in Nat
    BY <1>1, BoardFacts DEF Pact, SlotInv, Deployed
  <2>2. CASE lane = "whale"
    <3>1. PICK T : Books(seqr, up, down, T)
      BY <1>1 DEF Pact
    <3>2. \A g \in entered : g[1] \in Numbers(seqr) /\ g[3] = T[g[1]].fate /\ g[3] >= 0
      BY <2>2, <3>1 DEF Books, Boarded
    <3>3. seqr.next \in Nat
      BY <1>1, SequencerFields DEF Pact, SlotInv, HubTypes
    <3>4. /\ T \in [Numbers(seqr) -> Entry]
          /\ \A j, k \in Numbers(seqr) : j < k /\ T[j].fate >= 0 /\ T[k].fate >= 0 => T[j].fate < T[k].fate
      BY <3>1 DEF Books, Minutes
    <3>5. \A k \in Numbers(seqr) : k \in Nat /\ T[k].fate \in Int
      BY <3>3, <3>4 DEF Numbers, Entry
    <3>6. ASSUME NEW g \in entered, NEW h \in entered, g[1] < h[1]
          PROVE  g[3] # h[3]
      <4>1. T[g[1]].fate < T[h[1]].fate
        BY <3>2, <3>4, <3>6
      <4>2. T[g[1]].fate \in Int /\ T[h[1]].fate \in Int
        BY <3>2, <3>5
      <4>3. T[g[1]].fate # T[h[1]].fate
        BY <4>1, <4>2
      <4> QED
        BY <3>2, <4>3
    <3>7. e[1] = f[1] \/ e[1] < f[1] \/ f[1] < e[1]
      <4>1. e[1] \in Nat /\ f[1] \in Nat
        BY <3>2, <3>5
      <4> QED
        BY <4>1
    <3> QED
      BY <3>2, <3>6, <3>7
  <2>3. CASE lane = "cp"
    <3>1. Behind /\ InTurn /\ Unanimous
      BY <1>1, <2>3 DEF BoardPact, Levelling
    <3>2. \A g \in entered : g[1] \in 0..(nextId - 1) /\ g[2] \in Rank /\ g[3] \in Nat
      BY <3>1 DEF Behind
    <3>3. ASSUME NEW g \in entered, NEW h \in entered, g[1] < h[1]
          PROVE  g[3] # h[3]
      <4>1. g[1] \in 0..(h[1] - 1)
        BY <2>1, <3>2, <3>3
      <4>2. Entered(h[2], g[1])
        BY <3>1, <4>1 DEF InTurn
      <4>3. PICK k \in entered : k[1] = g[1] /\ k[2] = h[2]
        BY <4>2 DEF Entered
      <4>4. k[3] < h[3]
        BY <3>1, <3>3, <4>3 DEF InTurn
      <4>5. k[3] = g[3]
        BY <3>1, <4>3 DEF Unanimous
      <4>6. k[3] # h[3]
        BY <3>2, <4>4
      <4> QED
        BY <4>5, <4>6
    <3>4. e[1] = f[1] \/ e[1] < f[1] \/ f[1] < e[1]
      <4>1. e[1] \in Nat /\ f[1] \in Nat
        BY <2>1, <3>2
      <4> QED
        BY <4>1
    <3>5. e[1] = f[1] => e[3] = f[3]
      BY <3>1 DEF Unanimous
    <3> QED
      BY <3>3, <3>4, <3>5
  <2> QED
    BY <2>1, <2>2, <2>3
<1>2. Pact /\ BoardPact => OneLaunchPerSuperstep
  BY <1>1
<1> QED
  BY <1>2, PactInvariant, BoardInvariant, PTL
=============================================================================
