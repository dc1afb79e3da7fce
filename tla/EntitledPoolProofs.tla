--------------------------- MODULE EntitledPoolProofs ---------------------------
(***************************************************************************)
(* Safety of the pool's arbitration for any number of requests and blocks: *)
(* the counter is exact, a hold's credit is redeemed by the match, and     *)
(* neither reservations nor sequences eat into what admitted requests are  *)
(* owed.                                                                   *)
(***************************************************************************)
EXTENDS EntitledPool, FiniteSetTheorems, SequenceTheorems, WellFoundedInduction, TLAPS

-----------------------------------------------------------------------------
(* The inductive invariant.  Its first half is about blocks, as a relation *)
(* between contents c, primaries p, holds h, reservations v, registered    *)
(* blocks a and drawn blocks d.                                            *)

OneCanonical(c, p) ==
    \A x, y \in Block :
        c[x] = c[y] /\ c[x] # NoHash /\ p[x] = NoBlock /\ p[y] = NoBlock => x = y

Kept(b, h, a) == \E r \in Req : b \in Ran(h[r]) \/ b \in Ran(a[r])

\* A duplicate is held, and stands for a canonical block with its content.
Duplicates(c, p, h, a) ==
    \A b \in Block : p[b] # NoBlock =>
        /\ c[b] # NoHash /\ Kept(b, h, a)
        /\ p[b] \in Block /\ c[p[b]] = c[b] /\ p[p[b]] = NoBlock

\* A hold is a prefix of its request's chain; registered blocks have content.
Filled(c, h, a) ==
    \A r \in Req :
        /\ Len(h[r]) <= Len(Chain[r])
        /\ \A i \in 1..Len(h[r]) : c[h[r][i]] = Chain[r][i]
        /\ \A i \in 1..Len(a[r]) : c[a[r][i]] # NoHash

\* Reserved and drawn blocks have none, and one owner.
Raw(c, v, d) ==
    \A r \in Req : /\ \A b \in v[r] : c[b] = NoHash
                   /\ \A i \in 1..Len(d[r]) : c[d[r][i]] = NoHash
Exclusive(v, d) ==
    /\ \A q, r \in Req : q # r => v[q] \cap v[r] = {} /\ Ran(d[q]) \cap Ran(d[r]) = {}
    /\ \A q, r \in Req : v[q] \cap Ran(d[r]) = {}
    /\ \A r \in Req : \A i, j \in 1..Len(d[r]) : i # j => d[r][i] # d[r][j]

Sound(c, p, h, v, a, d) ==
    OneCanonical(c, p) /\ Duplicates(c, p, h, a) /\ Filled(c, h, a) /\ Raw(c, v, d) /\ Exclusive(v, d)

\* What a request holds at each stage.
StageFacts(r) ==
    /\ admitted[r] = (stage[r] \in {"admitted", "matched", "running"})
    /\ stage[r] \notin {"matched", "running", "retired"} => assigned[r] = <<>> /\ drawn[r] = <<>>
    /\ stage[r] = "new" => hold[r] = <<>>
    /\ stage[r] = "reserving" => gate = r /\ Len(hold[r]) + want <= Cap[r]
    /\ stage[r] \in {"leased", "loading", "committing"} =>
           Len(hold[r]) + Cardinality(reserved[r]) <= Cap[r]
    /\ stage[r] \in {"queued", "admitted", "matched"} => Len(hold[r]) <= Cap[r]

OneAdmitting == \A q, r \in Admitting : q = r

\* The blocks credited to a request between its admission and its match, its
\* hold and what its duplicates pin, are not what the others are owed from.
Credited ==
    UNION {Ran(hold[r]) \cup Behind(Ran(hold[r]), primary) : r \in {q \in Req : stage[q] = "admitted"}}
Backed ==
    LET spare == Cardinality(Unowned \ Credited)
    IN IF gate = NoReq THEN spare + CreditPending >= entitled ELSE spare >= want + entitled

IInv ==
    /\ TypeOK /\ CounterExact /\ CreditRedeemed
    /\ Sound(content, primary, hold, reserved, assigned, drawn)
    /\ \A r \in Req : StageFacts(r)
    /\ OneAdmitting /\ Backed

-----------------------------------------------------------------------------
(* Numbers, sequences, counting.                                           *)

\* A non-empty set of natural numbers has a least element.
LEMMA LeastNat ==
    ASSUME NEW T, T \subseteq Nat, T # {}
    PROVE  \E x \in T : \A y \in T : x <= y
<1> PICK R : R = {ss \in Nat \X Nat : ss[1] < ss[2]}
  OBVIOUS
<1>1. IsWellFoundedOn(R, Nat)
  BY NatLessThanWellFounded DEF OpToRel
<1>2. PICK x \in T : \A y \in T : ~ (<<y, x>> \in R)
  BY <1>1, WFMin, Zenon
<1>3. \A y \in T : ~ (y < x)
  BY <1>2
<1> QED
  BY <1>3

\* Max is defined on a bounded set of natural numbers.
LEMMA MaxOfBounded ==
    ASSUME NEW n \in Nat, NEW T, T \subseteq 0..n, T # {}
    PROVE  Max(T) \in T /\ \A y \in T : Max(T) >= y
<1> PICK D : D = {n - k : k \in T}
  OBVIOUS
<1>1. D \subseteq Nat /\ D # {}
  <2>1. \A k \in T : k \in 0..n
    OBVIOUS
  <2>2. \A k \in T : n - k \in Nat
    BY <2>1
  <2> QED
    BY <2>2
<1>2. PICK x \in D : \A y \in D : x <= y
  BY <1>1, LeastNat
<1>3. PICK k \in T : x = n - k
  BY <1>2
<1>4. \A y \in T : k >= y
  <2> SUFFICES ASSUME NEW y \in T PROVE k >= y
    OBVIOUS
  <2>1. n - y \in D
    OBVIOUS
  <2>2. x <= n - y
    BY <1>2, <2>1
  <2> QED
    BY <1>3, <2>2
<1> QED
  BY <1>3, <1>4 DEF Max

\* The reader's clamp of the counter does nothing to a natural number.
LEMMA MaxWithZero ==
    ASSUME NEW e \in Nat
    PROVE  Max({e, 0}) = e
<1>1. Max({e, 0}) \in {e, 0} /\ \A y \in {e, 0} : Max({e, 0}) >= y
  BY MaxOfBounded
<1> QED
  BY <1>1

\* The smaller of two.
LEMMA MinOfTwo ==
    ASSUME NEW x \in Nat, NEW y \in Nat
    PROVE  Min({x, y}) \in Nat /\ Min({x, y}) <= x /\ Min({x, y}) <= y
<1>1. PICK m \in {x, y} : \A k \in {x, y} : m <= k
  <2>1. CASE x <= y
    BY <2>1
  <2>2. CASE y < x
    BY <2>2
  <2> QED
    BY <2>1, <2>2
<1>2. Min({x, y}) \in {x, y} /\ \A k \in {x, y} : Min({x, y}) <= k
  BY <1>1 DEF Min
<1> QED
  BY <1>2

\* As many numbers as they count.
LEMMA Interval ==
    ASSUME NEW n \in Nat
    PROVE  IsFiniteSet(1..n) /\ Cardinality(1..n) = n
BY FS_Interval, SMT

\* The blocks of a sequence are at most as many as its positions.
LEMMA RanBound ==
    ASSUME NEW S, NEW s \in Seq(S)
    PROVE  /\ Ran(s) \subseteq S /\ IsFiniteSet(Ran(s))
           /\ Cardinality(Ran(s)) <= Len(s)
<1>1. Len(s) \in Nat /\ s \in [1..Len(s) -> S]
  BY LenProperties
<1>2. PICK f : f = [i \in 1..Len(s) |-> s[i]]
  OBVIOUS
<1>3. f \in Surjection(1..Len(s), Ran(s))
  BY <1>1, <1>2 DEF Surjection, Ran
<1>4. IsFiniteSet(1..Len(s)) /\ Cardinality(1..Len(s)) = Len(s)
  BY <1>1, Interval
<1> QED
  BY <1>1, <1>3, <1>4, FS_Surjection DEF Ran

\* The promises of f: f[q] of them for each request q.
Slots(f) == UNION {{q} \X (1..f[q]) : q \in Req}

\* They are finitely many.
LEMMA SlotsFinite ==
    ASSUME NEW f \in [Req -> Nat]
    PROVE  IsFiniteSet(Slots(f)) /\ Cardinality(Slots(f)) \in Nat
<1> PICK g : g = [q \in Req |-> {q} \X (1..f[q])]
  OBVIOUS
<1> PICK SS : SS = {{q} \X (1..f[q]) : q \in Req}
  OBVIOUS
<1>1. \A q \in Req : IsFiniteSet({q} \X (1..f[q]))
  BY Interval, FS_Singleton, FS_Product
<1>2. g \in Surjection(Req, SS)
  BY DEF Surjection
<1>3. IsFiniteSet(SS)
  BY <1>2, FS_Surjection, PoolAssumption
<1>4. \A T \in SS : IsFiniteSet(T)
  BY <1>1
<1>5. IsFiniteSet(UNION SS)
  BY <1>3, <1>4, FS_UNION
<1> QED
  BY <1>5, FS_CardinalityType DEF Slots

\* One row of them.
LEMMA Row ==
    ASSUME NEW r, NEW n \in Nat
    PROVE  Cardinality({r} \X (1..n)) = n
<1>1. PICK S : S = {r}
  OBVIOUS
<1>2. PICK T : T = 1..n
  OBVIOUS
<1>3. IsFiniteSet(S) /\ Cardinality(S) = 1
  BY <1>1, FS_Singleton
<1>4. IsFiniteSet(T) /\ Cardinality(T) = n
  BY <1>2, Interval
<1>5. Cardinality(S \X T) = Cardinality(S) * Cardinality(T)
  BY <1>3, <1>4, FS_Product
<1>6. 1 * n = n
  OBVIOUS
<1> QED
  BY <1>1, <1>2, <1>3, <1>4, <1>5, <1>6, Zenon

\* One request's share changes the count by the difference.
LEMMA SlotsMove ==
    ASSUME NEW f \in [Req -> Nat], NEW r \in Req, NEW g \in [Req -> Nat],
           \A q \in Req : q # r => g[q] = f[q]
    PROVE  Cardinality(Slots(g)) = Cardinality(Slots(f)) - f[r] + g[r]
<1> PICK z : z = [f EXCEPT ![r] = 0]
  OBVIOUS
<1>1. ASSUME NEW e \in [Req -> Nat], \A q \in Req : q # r => e[q] = f[q]
      PROVE  Cardinality(Slots(e)) = Cardinality(Slots(z)) + e[r]
  <2> PICK R : R = {r} \X (1..e[r])
    OBVIOUS
  <2>1. IsFiniteSet(R) /\ Cardinality(R) = e[r]
    <3>1. IsFiniteSet({r}) /\ Cardinality({r}) = 1
      BY FS_Singleton
    <3>2. IsFiniteSet(1..e[r]) /\ Cardinality(1..e[r]) = e[r]
      BY Interval
    <3>3. IsFiniteSet(R) /\ Cardinality(R) = 1 * e[r]
      BY <3>1, <3>2, FS_Product, ZenonT(60)
    <3>4. e[r] \in Nat
      OBVIOUS
    <3> QED
      BY <3>3, <3>4
  <2>2. z \in [Req -> Nat] /\ IsFiniteSet(Slots(z)) /\ Cardinality(Slots(z)) \in Nat
    BY SlotsFinite
  <2>3. Slots(e) = Slots(z) \cup R
    <3>1. z[r] = 0 /\ \A q \in Req : q # r => z[q] = e[q]
      BY <1>1
    <3>2. \A x : x \in Slots(e) <=> \E q \in Req : \E i \in 1..e[q] : x = <<q, i>>
      BY DEF Slots
    <3>3. \A x : x \in Slots(z) <=> \E q \in Req : \E i \in 1..z[q] : x = <<q, i>>
      BY DEF Slots
    <3>4. \A x : x \in R <=> \E i \in 1..e[r] : x = <<r, i>>
      OBVIOUS
    <3>5. ASSUME NEW x PROVE x \in Slots(e) <=> x \in Slots(z) \/ x \in R
      <4>1. ASSUME NEW q \in Req, NEW i \in 1..e[q] PROVE <<q, i>> \in Slots(z) \/ <<q, i>> \in R
        <5>1. CASE q = r
          BY <5>1, <3>4
        <5>2. CASE q # r
          BY <5>2, <3>1, <3>3
        <5> QED
          BY <5>1, <5>2
      <4>2. ASSUME NEW q \in Req, NEW i \in 1..z[q] PROVE <<q, i>> \in Slots(e)
        BY <3>1, <3>2
      <4>3. ASSUME NEW i \in 1..e[r] PROVE <<r, i>> \in Slots(e)
        BY <3>2
      <4>4. ASSUME x \in Slots(e) PROVE x \in Slots(z) \/ x \in R
        <5>1. PICK q \in Req : \E i \in 1..e[q] : x = <<q, i>>
          BY <4>4, <3>2
        <5>2. PICK i \in 1..e[q] : x = <<q, i>>
          BY <5>1
        <5>3. <<q, i>> \in Slots(z) \/ <<q, i>> \in R
          BY <4>1, Zenon
        <5> QED
          BY <5>2, <5>3
      <4>5. ASSUME x \in Slots(z) PROVE x \in Slots(e)
        <5>1. PICK q \in Req : \E i \in 1..z[q] : x = <<q, i>>
          BY <4>5, <3>3
        <5>2. PICK i \in 1..z[q] : x = <<q, i>>
          BY <5>1
        <5>3. <<q, i>> \in Slots(e)
          BY <4>2, Zenon
        <5> QED
          BY <5>2, <5>3
      <4>6. ASSUME x \in R PROVE x \in Slots(e)
        BY <4>6, <3>4, <4>3
      <4> QED
        BY <4>4, <4>5, <4>6
    <3> QED
      BY <3>5
  <2>4. Slots(z) \cap R = {}
    <3>1. \A x \in Slots(z) : x[1] # r
      BY DEF Slots
    <3> QED
      BY <3>1
  <2>5. Cardinality(Slots(z) \cap R) = 0
    BY <2>4, FS_EmptySet
  <2>6. Cardinality(Slots(z) \cup R) = Cardinality(Slots(z)) + Cardinality(R) - Cardinality(Slots(z) \cap R)
    BY <2>1, <2>2, FS_Union, Zenon
  <2>7. Cardinality(Slots(e)) = Cardinality(Slots(z)) + e[r] - 0
    BY <2>1, <2>3, <2>5, <2>6, Zenon
  <2>8. e[r] \in Nat
    OBVIOUS
  <2> QED
    BY <2>2, <2>7, <2>8
<1>2. Cardinality(Slots(f)) = Cardinality(Slots(z)) + f[r]
  BY <1>1
<1>3. Cardinality(Slots(g)) = Cardinality(Slots(z)) + g[r]
  BY <1>1
<1>4. Cardinality(Slots(z)) \in Nat
  BY SlotsFinite
<1> QED
  BY <1>2, <1>3, <1>4

-----------------------------------------------------------------------------
(* Blocks.                                                                 *)

\* The types of what Sound relates.
Parts(c, p, h, v, a, d) ==
    /\ c \in [Block -> Hash \cup {NoHash}] /\ p \in [Block -> Block \cup {NoBlock}]
    /\ h \in [Req -> Seq(Block)] /\ a \in [Req -> Seq(Block)] /\ d \in [Req -> Seq(Block)]
    /\ v \in [Req -> SUBSET Block]

\* An available block is nobody's, and behind no duplicate of anybody's.
LEMMA AvailableFacts ==
    ASSUME NEW b, b \in Available
    PROVE  /\ b \in Block
           /\ \A r \in Req : b \notin Ran(hold[r]) /\ b \notin reserved[r]
                                /\ b \notin Ran(assigned[r]) /\ b \notin Ran(drawn[r])
           /\ \A x : b # NoBlock /\ Kept(x, hold, assigned) => primary[x] # b
BY DEF Available, Pinned, Direct, Behind, Kept

\* Losing the content of blocks nobody needs.
LEMMA WipeSound ==
    ASSUME NEW c, NEW p, NEW h, NEW v, NEW a, NEW d, Parts(c, p, h, v, a, d),
           Sound(c, p, h, v, a, d), NEW S, S \subseteq Block,
           \A b \in S : \A r \in Req : b \notin Ran(h[r]) /\ b \notin Ran(a[r]),
           \A b \in S : \A x : Kept(x, h, a) => p[x] # b,
           NEW e, e = [b \in Block |-> IF b \in S THEN NoHash ELSE c[b]]
    PROVE  Sound(e, p, h, v, a, d)
<1>1. \A r \in Req : /\ h[r] \in Seq(Block) /\ a[r] \in Seq(Block) /\ d[r] \in Seq(Block)
                     /\ v[r] \subseteq Block
  BY DEF Parts
<1>2. OneCanonical(e, p)
  BY DEF Sound, OneCanonical
<1>3. Duplicates(e, p, h, a)
  BY DEF Sound, Duplicates, Kept
<1>4. Filled(e, h, a)
  BY <1>1 DEF Sound, Filled, Ran
<1>5. Raw(e, v, d)
  BY <1>1 DEF Sound, Raw
<1> QED
  BY <1>2, <1>3, <1>4, <1>5 DEF Sound

\* Other raw blocks, as long as each has one owner.
LEMMA RawSound ==
    ASSUME NEW c, NEW p, NEW h, NEW v, NEW a, NEW d, NEW w, NEW e,
           Sound(c, p, h, v, a, d), Raw(c, w, e), Exclusive(w, e)
    PROVE  Sound(c, p, h, w, a, e)
BY DEF Sound

\* One sequence is an initial part of another.
Initial(s, t) == Len(s) <= Len(t) /\ \A i \in 1..Len(s) : s[i] = t[i]

\* Fewer guards, and the reset of the duplicates nobody pins any more.
Fewer(h, v, a, d, h2, v2, a2, d2) ==
    \A r \in Req : /\ Initial(h2[r], h[r]) /\ Initial(a2[r], a[r])
                   /\ v2[r] \subseteq v[r] /\ Initial(d2[r], d[r])
Unpinned(p, h, v, a, d) == {b \in Block : p[b] # NoBlock /\ b \notin Direct(h, v, a, d)}
Cleared(S, c, p, c2, p2) ==
    /\ c2 = [b \in Block |-> IF b \in S THEN NoHash ELSE c[b]]
    /\ p2 = [b \in Block |-> IF b \in S THEN NoBlock ELSE p[b]]

\* Dropped guards: a duplicate nobody keeps is reset with the same step.
LEMMA DropSound ==
    ASSUME NEW c, NEW p, NEW h, NEW v, NEW a, NEW d, Parts(c, p, h, v, a, d),
           Sound(c, p, h, v, a, d),
           NEW h2, NEW v2, NEW a2, NEW d2, Parts(c, p, h2, v2, a2, d2),
           Fewer(h, v, a, d, h2, v2, a2, d2),
           NEW c2, NEW p2, Cleared(Unpinned(p, h2, v2, a2, d2), c, p, c2, p2)
    PROVE  Sound(c2, p2, h2, v2, a2, d2)
<1> PICK gone : gone = {b \in Block : p[b] # NoBlock /\ b \notin Direct(h2, v2, a2, d2)}
  OBVIOUS
<1>a. /\ c2 = [b \in Block |-> IF b \in gone THEN NoHash ELSE c[b]]
      /\ p2 = [b \in Block |-> IF b \in gone THEN NoBlock ELSE p[b]]
  BY DEF Cleared, Unpinned
<1>b. \A r \in Req : /\ Initial(h2[r], h[r]) /\ Initial(a2[r], a[r])
                     /\ v2[r] \subseteq v[r] /\ Initial(d2[r], d[r])
  BY DEF Fewer
<1> USE <1>a, <1>b
<1>1. \A r \in Req : /\ h[r] \in Seq(Block) /\ a[r] \in Seq(Block) /\ d[r] \in Seq(Block)
                     /\ h2[r] \in Seq(Block) /\ a2[r] \in Seq(Block) /\ d2[r] \in Seq(Block)
                     /\ v[r] \subseteq Block /\ v2[r] \subseteq Block
  BY DEF Parts
<1>2. \A r \in Req : /\ Len(h[r]) \in Nat /\ Len(a[r]) \in Nat /\ Len(d[r]) \in Nat
                     /\ Len(h2[r]) \in Nat /\ Len(a2[r]) \in Nat /\ Len(d2[r]) \in Nat
  BY <1>1
<1>3. \A r \in Req : Ran(h2[r]) \subseteq Ran(h[r]) /\ Ran(a2[r]) \subseteq Ran(a[r])
                       /\ Ran(d2[r]) \subseteq Ran(d[r])
  <2> SUFFICES ASSUME NEW s, NEW t, Len(s) \in Nat, Len(t) \in Nat, Initial(s, t)
               PROVE  Ran(s) \subseteq Ran(t)
    BY <1>2
  <2>1. \A i \in 1..Len(s) : i \in 1..Len(t) /\ s[i] = t[i]
    BY DEF Initial
  <2> QED
    BY <2>1 DEF Ran
<1>4. \A b : b \in Direct(h2, v2, a2, d2) <=>
          \E r \in Req : b \in Ran(h2[r]) \/ b \in v2[r] \/ b \in Ran(a2[r]) \/ b \in Ran(d2[r])
  BY DEF Direct
<1>5. \A b \in Block : p[b] # NoBlock => \A r \in Req : b \notin v2[r] /\ b \notin Ran(d2[r])
  <2>1. \A r \in Req : \A b \in Ran(d[r]) : c[b] = NoHash
    BY DEF Sound, Raw, Ran
  <2>2. \A r \in Req : \A b \in v[r] : c[b] = NoHash
    BY DEF Sound, Raw
  <2> QED
    BY <2>1, <2>2, <1>3 DEF Sound, Duplicates
<1>6. \A b \in Block : p[b] # NoBlock /\ b \notin gone => Kept(b, h2, a2)
  BY <1>4, <1>5 DEF Kept
<1>7. \A b \in Block : Kept(b, h2, a2) => b \notin gone
  BY <1>4 DEF Kept
<1>8. OneCanonical(c2, p2)
  BY DEF Sound, OneCanonical
<1>9. Duplicates(c2, p2, h2, a2)
  BY <1>6 DEF Sound, Duplicates
<1>10. Filled(c2, h2, a2)
  <2> SUFFICES ASSUME NEW r \in Req
               PROVE  /\ Len(h2[r]) <= Len(Chain[r])
                      /\ \A i \in 1..Len(h2[r]) : c2[h2[r][i]] = Chain[r][i]
                      /\ \A i \in 1..Len(a2[r]) : c2[a2[r][i]] # NoHash
    BY DEF Filled
  <2>1. Len(h2[r]) <= Len(h[r]) /\ Len(h[r]) <= Len(Chain[r])
    BY DEF Sound, Filled, Initial
  <2>2. Len(Chain[r]) \in Nat
    BY PoolAssumption
  <2>3. \A i \in 1..Len(h2[r]) : h2[r][i] \in Block /\ Kept(h2[r][i], h2, a2)
    BY <1>1 DEF Kept, Ran
  <2>4. \A i \in 1..Len(a2[r]) : a2[r][i] \in Block /\ Kept(a2[r][i], h2, a2)
    BY <1>1 DEF Kept, Ran
  <2>5. \A i \in 1..Len(h2[r]) : c[h2[r][i]] = Chain[r][i]
    BY <1>2 DEF Sound, Filled, Initial
  <2>6. \A i \in 1..Len(a2[r]) : c[a2[r][i]] # NoHash
    BY <1>2 DEF Sound, Filled, Initial
  <2> QED
    BY <2>1, <2>2, <1>2, <2>3, <2>4, <2>5, <2>6, <1>7
<1>11. Raw(c2, v2, d2)
  <2> SUFFICES ASSUME NEW r \in Req
               PROVE  /\ \A b \in v2[r] : c2[b] = NoHash
                      /\ \A i \in 1..Len(d2[r]) : c2[d2[r][i]] = NoHash
    BY DEF Raw
  <2>1. \A b \in v2[r] : b \in Block /\ c[b] = NoHash
    BY <1>1 DEF Sound, Raw
  <2>2. \A i \in 1..Len(d2[r]) : i \in 1..Len(d[r]) /\ d2[r][i] = d[r][i] /\ d2[r][i] \in Block
    BY <1>1, <1>2 DEF Initial
  <2>3. \A i \in 1..Len(d2[r]) : c[d2[r][i]] = NoHash
    BY <2>2 DEF Sound, Raw
  <2> QED
    BY <2>1, <2>2, <2>3
<1>12. Exclusive(v2, d2)
  <2>1. \A q, r \in Req : q # r => v2[q] \cap v2[r] = {} /\ Ran(d2[q]) \cap Ran(d2[r]) = {}
    BY <1>3 DEF Sound, Exclusive
  <2>2. \A q, r \in Req : v2[q] \cap Ran(d2[r]) = {}
    BY <1>3 DEF Sound, Exclusive
  <2>3. \A r \in Req : \A i, j \in 1..Len(d2[r]) : i # j => d2[r][i] # d2[r][j]
    BY <1>2 DEF Sound, Exclusive, Initial
  <2> QED
    BY <2>1, <2>2, <2>3 DEF Exclusive
<1> QED
  BY <1>8, <1>9, <1>10, <1>11, <1>12 DEF Sound

\* What a registration writes, and where its block goes.
Registered(b, x, c, p, c2, p2) ==
    LET k == {y \in Block : c[y] = x /\ p[y] = NoBlock}
    IN /\ c2 = [c EXCEPT ![b] = x]
       /\ p2 = [p EXCEPT ![b] = IF k = {} THEN NoBlock ELSE CHOOSE y \in k : TRUE]
Joins(b, h, a, h2, a2) ==
    /\ \A r \in Req : Ran(h[r]) \subseteq Ran(h2[r]) /\ Ran(a[r]) \subseteq Ran(a2[r])
    /\ Kept(b, h2, a2)
Gone(b, v, d) == \A r \in Req : b \notin v[r] /\ b \notin Ran(d[r])

\* A registered block: canonical if it is the first of its hash, else a
\* duplicate of the canonical one.
LEMMA RegisterSound ==
    ASSUME NEW c, NEW p, NEW h, NEW v, NEW a, NEW d, Parts(c, p, h, v, a, d),
           Sound(c, p, h, v, a, d),
           NEW b \in Block, c[b] = NoHash, NEW x \in Hash,
           NEW h2, NEW v2, NEW a2, NEW d2, Parts(c, p, h2, v2, a2, d2),
           Raw(c, v2, d2), Exclusive(v2, d2),
           Gone(b, v2, d2), Joins(b, h, a, h2, a2),
           NEW c2, NEW p2, Registered(b, x, c, p, c2, p2), Filled(c2, h2, a2)
    PROVE  /\ Sound(c2, p2, h2, v2, a2, d2)
           /\ c2 \in [Block -> Hash \cup {NoHash}] /\ p2 \in [Block -> Block \cup {NoBlock}]
<1> USE PoolAssumption
<1> PICK k : k = {y \in Block : c[y] = x /\ p[y] = NoBlock}
  OBVIOUS
<1>a. /\ c2 = [c EXCEPT ![b] = x]
      /\ p2 = [p EXCEPT ![b] = IF k = {} THEN NoBlock ELSE CHOOSE y \in k : TRUE]
  BY DEF Registered
<1>b. \A r \in Req : b \notin v2[r] /\ b \notin Ran(d2[r])
  BY DEF Gone
<1>c. /\ \A r \in Req : Ran(h[r]) \subseteq Ran(h2[r]) /\ Ran(a[r]) \subseteq Ran(a2[r])
      /\ Kept(b, h2, a2)
  BY DEF Joins
<1> USE <1>a, <1>b, <1>c
<1>1. x # NoHash /\ p[b] = NoBlock
  BY DEF Sound, Duplicates
<1>2. /\ c \in [Block -> Hash \cup {NoHash}] /\ p \in [Block -> Block \cup {NoBlock}]
      /\ \A r \in Req : v2[r] \subseteq Block /\ d2[r] \in Seq(Block)
  BY DEF Parts
<1>3. \A y \in Block : y # b => c2[y] = c[y] /\ p2[y] = p[y]
  BY <1>2
<1>4. c2[b] = x /\ (k = {} => p2[b] = NoBlock) /\ (k # {} => p2[b] \in k)
  BY <1>2
<1>5. b \notin k /\ (k # {} => p2[b] \in Block /\ p2[b] # b /\ p2[b] # NoBlock)
  BY <1>1, <1>4
<1>6. OneCanonical(c2, p2)
  <2> SUFFICES ASSUME NEW y \in Block, NEW z \in Block, c2[y] = c2[z], c2[y] # NoHash,
                      p2[y] = NoBlock, p2[z] = NoBlock
               PROVE  y = z
    BY DEF OneCanonical
  <2>1. CASE y # b /\ z # b
    BY <2>1, <1>3 DEF Sound, OneCanonical
  <2>2. CASE y = b \/ z = b
    <3>1. k = {}
      BY <2>2, <1>5
    <3> QED
      BY <2>2, <3>1, <1>3, <1>4
  <2> QED
    BY <2>1, <2>2
<1>7. Duplicates(c2, p2, h2, a2)
  <2> SUFFICES ASSUME NEW y \in Block, p2[y] # NoBlock
               PROVE  /\ c2[y] # NoHash /\ Kept(y, h2, a2)
                      /\ p2[y] \in Block /\ c2[p2[y]] = c2[y] /\ p2[p2[y]] = NoBlock
    BY DEF Duplicates
  <2>1. CASE y = b
    <3>1. k # {} /\ p2[b] \in k
      BY <2>1, <1>4
    <3>2. c[p2[b]] = x /\ p[p2[b]] = NoBlock
      BY <3>1
    <3> QED
      BY <2>1, <3>1, <3>2, <1>1, <1>3, <1>4, <1>5
  <2>2. CASE y # b
    <3>1. /\ p[y] # NoBlock /\ c[y] # NoHash /\ Kept(y, h, a)
          /\ p[y] \in Block /\ c[p[y]] = c[y] /\ p[p[y]] = NoBlock
      BY <2>2, <1>3 DEF Sound, Duplicates
    <3>2. p[y] # b
      BY <3>1
    <3>3. Kept(y, h2, a2)
      BY <3>1 DEF Kept
    <3> QED
      BY <3>1, <3>2, <3>3, <2>2, <1>3
  <2> QED
    BY <2>1, <2>2
<1>8. Raw(c2, v2, d2)
  <2>1. \A r \in Req : \A y \in v2[r] : c2[y] = NoHash
    BY <1>2, <1>3 DEF Raw
  <2>2. \A r \in Req : \A i \in 1..Len(d2[r]) : d2[r][i] \in Block /\ d2[r][i] # b
    BY <1>2 DEF Ran
  <2>3. \A r \in Req : \A i \in 1..Len(d2[r]) : c2[d2[r][i]] = NoHash
    BY <2>2, <1>3 DEF Raw
  <2> QED
    BY <2>1, <2>3 DEF Raw
<1>9. c2 \in [Block -> Hash \cup {NoHash}] /\ p2 \in [Block -> Block \cup {NoBlock}]
  BY <1>2, <1>4, <1>5
<1> QED
  BY <1>6, <1>7, <1>8, <1>9 DEF Sound

\* A match returns canonical blocks of a prefix of the chain, and no shorter a
\* prefix than the cache can serve.
LEMMA HitsFacts ==
    ASSUME NEW r \in Req, NEW n \in Nat, n <= Len(Chain[r])
    PROVE  /\ Hits(r, n) \in Seq(Block) /\ Len(Hits(r, n)) \in 0..n
           /\ \A i \in 1..Len(Hits(r, n)) : Hits(r, n)[i] \in Canonical(Chain[r][i])
           /\ \A k \in 0..n : (\A i \in 1..k : Canonical(Chain[r][i]) # {}) => k <= Len(Hits(r, n))
<1>0. 1..0 = {}
  OBVIOUS
<1> PICK T : T = {0} \cup {k \in 1..n : \A i \in 1..k : Canonical(Chain[r][i]) # {}}
  OBVIOUS
<1>1. T \subseteq 0..n /\ T # {}
  OBVIOUS
<1>2. Max(T) \in T /\ \A y \in T : Max(T) >= y
  BY <1>1, MaxOfBounded
<1> PICK m : m = Max(T)
  OBVIOUS
<1>3. m \in 0..n /\ \A i \in 1..m : Canonical(Chain[r][i]) # {}
  <2>1. m \in T /\ m \in 0..n
    BY <1>1, <1>2
  <2>2. CASE m = 0
    <3>1. 1..m = {}
      BY <2>2, <1>0, Zenon
    <3> QED
      BY <2>1, <3>1, Zenon
  <2>3. CASE m # 0
    <3>1. m \in {k \in 1..n : \A i \in 1..k : Canonical(Chain[r][i]) # {}}
      BY <2>1, <2>3
    <3> QED
      BY <2>1, <3>1
  <2> QED
    BY <2>2, <2>3
<1>4. Hits(r, n) = [i \in 1..m |-> CHOOSE b \in Canonical(Chain[r][i]) : TRUE]
  BY DEF Hits
<1>5. \A i \in 1..m : Hits(r, n)[i] \in Canonical(Chain[r][i])
  BY <1>3, <1>4
<1>6. Hits(r, n) \in [1..m -> Block]
  BY <1>4, <1>5 DEF Canonical
<1>7. Hits(r, n) \in Seq(Block) /\ Len(Hits(r, n)) = m
  <2>1. m \in Nat
    BY <1>3
  <2>2. Hits(r, n) \in Seq(Block)
    BY <2>1, <1>6, SeqDef
  <2>3. DOMAIN Hits(r, n) = 1..m
    BY <1>6
  <2>4. DOMAIN Hits(r, n) = 1..Len(Hits(r, n)) /\ Len(Hits(r, n)) \in Nat
    BY <2>2, LenProperties
  <2> QED
    BY <2>1, <2>2, <2>3, <2>4
<1>8. \A k \in 0..n : (\A i \in 1..k : Canonical(Chain[r][i]) # {}) => k \in T
  OBVIOUS
<1> QED
  BY <1>2, <1>3, <1>5, <1>7, <1>8

-----------------------------------------------------------------------------
(* The counter and the floor.                                              *)

\* What each request is still owed.
Owing(m, a, d) == [q \in Req |-> IF m[q] THEN Life[q] - (Len(a[q]) + Len(d[q])) ELSE 0]

\* The promised draws are the slots of what is owed.
LEMMA PromisedAsSlots ==
    ASSUME NEW m, NEW a, NEW d
    PROVE  UNION {{q} \X (1..(Life[q] - (Len(a[q]) + Len(d[q])))) : q \in {p \in Req : m[p]}}
               = Slots(Owing(m, a, d))
<1> PICK o : o = Owing(m, a, d)
  OBVIOUS
<1>1. \A q \in Req : m[q] => o[q] = Life[q] - (Len(a[q]) + Len(d[q]))
  BY DEF Owing
<1>2. \A q \in Req : ~m[q] => o[q] = 0
  BY DEF Owing
<1>3. \A q \in Req : ~m[q] => {q} \X (1..o[q]) = {}
  BY <1>2
<1>4. Slots(o) = UNION {{q} \X (1..o[q]) : q \in {p \in Req : m[p]}}
  BY <1>3 DEF Slots
<1>5. \A q \in {p \in Req : m[p]} :
          {q} \X (1..o[q]) = {q} \X (1..(Life[q] - (Len(a[q]) + Len(d[q]))))
  BY <1>1
<1> QED
  BY <1>4, <1>5

\* A step that changes what one request is owed, and the counter with it, keeps
\* the counter exact.
LEMMA CounterStep ==
    ASSUME CounterExact, NEW r \in Req,
           admitted \in [Req -> BOOLEAN], admitted' \in [Req -> BOOLEAN],
           assigned \in [Req -> Seq(Block)], assigned' \in [Req -> Seq(Block)],
           drawn \in [Req -> Seq(Block)], drawn' \in [Req -> Seq(Block)],
           \A q \in Req : Len(assigned[q]) + Len(drawn[q]) <= Life[q],
           \A q \in Req : Len(assigned'[q]) + Len(drawn'[q]) <= Life[q],
           \A q \in Req : q # r => /\ admitted'[q] = admitted[q]
                                   /\ Len(assigned'[q]) + Len(drawn'[q]) = Len(assigned[q]) + Len(drawn[q]),
           entitled' = entitled - Owing(admitted, assigned, drawn)[r] + Owing(admitted', assigned', drawn')[r]
    PROVE  entitled' \in Nat /\ CounterExact'
<1> PICK o : o = Owing(admitted, assigned, drawn)
  OBVIOUS
<1> PICK n : n = Owing(admitted', assigned', drawn')
  OBVIOUS
<1>1. \A q \in Req : Life[q] \in Nat
  BY PoolAssumption
<1>2. \A q \in Req : /\ Len(assigned[q]) \in Nat /\ Len(drawn[q]) \in Nat
                     /\ Len(assigned'[q]) \in Nat /\ Len(drawn'[q]) \in Nat
  OBVIOUS
<1>3. o \in [Req -> Nat]
  <2>1. \A q \in Req : Life[q] - (Len(assigned[q]) + Len(drawn[q])) \in Nat
    BY <1>1, <1>2, SMTT(60)
  <2> QED
    BY <2>1 DEF Owing
<1>4. n \in [Req -> Nat]
  <2>1. \A q \in Req : Life[q] - (Len(assigned'[q]) + Len(drawn'[q])) \in Nat
    BY <1>1, <1>2, SMTT(60)
  <2> QED
    BY <2>1 DEF Owing
<1>5. \A q \in Req : q # r => n[q] = o[q]
  BY DEF Owing
<1>6. Cardinality(Slots(n)) = Cardinality(Slots(o)) - o[r] + n[r]
  BY <1>3, <1>4, <1>5, SlotsMove
<1>7. entitled = Cardinality(Slots(o))
  BY PromisedAsSlots DEF CounterExact, Promised, Remaining, Resident
<1>8. Promised' = Slots(n)
  BY PromisedAsSlots DEF Promised, Remaining, Resident
<1>9. entitled' = Cardinality(Slots(n))
  BY <1>6, <1>7
<1>10. Cardinality(Slots(n)) \in Nat
  BY <1>4, SlotsFinite
<1> QED
  BY <1>8, <1>9, <1>10 DEF CounterExact

\* Nothing that the counter is about has changed.
LEMMA CounterKept ==
    ASSUME CounterExact, UNCHANGED <<admitted, assigned, drawn, entitled>>
    PROVE  CounterExact'
BY DEF CounterExact, Promised, Remaining, Resident

\* An unowned block.
LEMMA UnownedFacts ==
    /\ IsFiniteSet(Unowned)
    /\ \A b : b \in Unowned <=>
           /\ b \in Block
           /\ \A r \in Req : b \notin reserved[r] /\ b \notin Ran(assigned[r]) /\ b \notin Ran(drawn[r])
<1>1. Unowned \subseteq Block
  BY DEF Unowned
<1> QED
  BY <1>1, PoolAssumption, FS_Subset DEF Unowned

\* The larger of two finite sets.
LEMMA Grow ==
    ASSUME NEW S, NEW T, IsFiniteSet(T), S \subseteq T
    PROVE  /\ IsFiniteSet(S) /\ Cardinality(S) \in Nat /\ Cardinality(T) \in Nat
           /\ Cardinality(S) <= Cardinality(T)
BY FS_Subset, FS_CardinalityType

\* Taking at most n elements leaves at least the rest.
LEMMA Shrink ==
    ASSUME NEW S, NEW T, NEW X, IsFiniteSet(S), IsFiniteSet(T), IsFiniteSet(X), S \ X \subseteq T,
           NEW n \in Nat, Cardinality(X) <= n
    PROVE  Cardinality(T) >= Cardinality(S) - n
<1>1. /\ Cardinality(S) \in Nat /\ Cardinality(X) \in Nat /\ Cardinality(S \cap X) \in Nat
      /\ Cardinality(T) \in Nat /\ Cardinality(S \ X) \in Nat
  BY FS_CardinalityType, FS_Intersection, FS_Difference
<1>2. Cardinality(S \ X) = Cardinality(S) - Cardinality(S \cap X)
  BY FS_Difference
<1>3. Cardinality(S \cap X) <= Cardinality(X)
  BY FS_Intersection
<1>4. Cardinality(S \ X) <= Cardinality(T)
  BY Grow
<1> QED
  BY <1>1, <1>2, <1>3, <1>4

\* The pending credit counts the positions of holds.
LEMMA CreditNatural ==
    ASSUME TypeOK
    PROVE  CreditPending \in Nat
<1> PICK f : f = [q \in Req |-> IF stage[q] = "admitted" THEN Len(hold[q]) ELSE 0]
  OBVIOUS
<1>1. f \in [Req -> Nat]
  BY DEF TypeOK
<1>2. \A q \in Req : stage[q] = "admitted" => f[q] = Len(hold[q])
  OBVIOUS
<1>3. \A q \in Req : stage[q] # "admitted" => f[q] = 0
  OBVIOUS
<1>4. UNION {{q} \X (1..Len(hold[q])) : q \in {p \in Req : stage[p] = "admitted"}} \subseteq Slots(f)
  BY <1>2 DEF Slots
<1>5. IsFiniteSet(Slots(f))
  BY <1>1, SlotsFinite
<1> QED
  BY <1>4, <1>5, Grow DEF CreditPending

\* A step that takes no unowned block, promises nothing and leaves a request
\* between admission and match alone keeps the floor.
LEMMA BackedKept ==
    ASSUME TypeOK, Backed, entitled' \in Nat, entitled' <= entitled, UNCHANGED <<gate, want>>,
           \A q \in Req : (stage'[q] = "admitted") <=> (stage[q] = "admitted"),
           \A q \in Req : stage[q] = "admitted" =>
               hold'[q] = hold[q] /\ \A b \in Ran(hold[q]) : primary'[b] = primary[b],
           Unowned \subseteq Unowned'
    PROVE  Backed'
<1>1. {q \in Req : stage'[q] = "admitted"} = {q \in Req : stage[q] = "admitted"}
  OBVIOUS
<1>2. CreditPending' = CreditPending
  <2>1. \A q \in {p \in Req : stage[p] = "admitted"} :
            {q} \X (1..Len(hold'[q])) = {q} \X (1..Len(hold[q]))
    OBVIOUS
  <2>2. {{q} \X (1..Len(hold'[q])) : q \in {p \in Req : stage'[p] = "admitted"}}
          = {{q} \X (1..Len(hold[q])) : q \in {p \in Req : stage[p] = "admitted"}}
    BY <1>1, <2>1
  <2> QED
    BY <2>2 DEF CreditPending
<1>3. Credited' \subseteq Credited
  <2>1. ASSUME NEW q \in Req, stage[q] = "admitted"
        PROVE  Ran(hold'[q]) \cup Behind(Ran(hold'[q]), primary')
                 = Ran(hold[q]) \cup Behind(Ran(hold[q]), primary)
    BY <2>1 DEF Behind
  <2> QED
    BY <1>1, <2>1 DEF Credited
<1>4. IsFiniteSet(Unowned')
  <2>1. Unowned' \subseteq Block
    BY DEF Unowned
  <2> QED
    BY <2>1, PoolAssumption, FS_Subset
<1>5. IsFiniteSet(Unowned' \ Credited')
  BY <1>4, FS_Subset
<1> PICK s : s = Cardinality(Unowned \ Credited)
  OBVIOUS
<1> PICK t : t = Cardinality(Unowned' \ Credited')
  OBVIOUS
<1>6. s \in Nat /\ t \in Nat /\ s <= t
  BY <1>3, <1>5, Grow
<1>7. CreditPending \in Nat /\ entitled \in Nat /\ want \in Nat
  BY CreditNatural, FS_CardinalityType, PoolAssumption DEF TypeOK
<1>8. CASE gate = NoReq
  <2>1. s + CreditPending >= entitled
    BY <1>8 DEF Backed
  <2>2. t + CreditPending >= entitled'
    BY <2>1, <1>6, <1>7
  <2> QED
    BY <1>8, <1>2, <2>2 DEF Backed
<1>9. CASE gate # NoReq
  <2>1. s >= want + entitled
    BY <1>9 DEF Backed
  <2>2. t >= want + entitled'
    BY <2>1, <1>6, <1>7
  <2> QED
    BY <1>9, <2>2 DEF Backed
<1> QED
  BY <1>8, <1>9

-----------------------------------------------------------------------------
(* Steps.                                                                  *)

\* The types, one by one.
LEMMA Types ==
    ASSUME IInv
    PROVE  /\ Parts(content, primary, hold, reserved, assigned, drawn)
           /\ content \in [Block -> Hash \cup {NoHash}] /\ primary \in [Block -> Block \cup {NoBlock}]
           /\ hold \in [Req -> Seq(Block)] /\ reserved \in [Req -> SUBSET Block]
           /\ assigned \in [Req -> Seq(Block)] /\ drawn \in [Req -> Seq(Block)]
           /\ stage \in [Req -> Stages] /\ admitted \in [Req -> BOOLEAN]
           /\ entitled \in Nat /\ want \in Nat /\ want <= Cardinality(Block) /\ Cardinality(Block) \in Nat
           /\ gate \in Req \cup {NoReq}
           /\ \A q \in Req : /\ Len(hold[q]) \in Nat /\ Len(assigned[q]) \in Nat /\ Len(drawn[q]) \in Nat
                             /\ Len(assigned[q]) + Len(drawn[q]) <= Life[q]
                             /\ reserved[q] \subseteq Block /\ IsFiniteSet(reserved[q])
                             /\ Cardinality(reserved[q]) \in Nat
<1>1. Cardinality(Block) \in Nat
  BY PoolAssumption, FS_CardinalityType
<1>2. \A S \in SUBSET Block : IsFiniteSet(S) /\ Cardinality(S) \in Nat
  BY PoolAssumption, FS_Subset, FS_CardinalityType
<1> QED
  BY <1>1, <1>2 DEF IInv, TypeOK, Parts, Resident

\* The numbers of a request.
LEMMA Numbers ==
    ASSUME NEW q \in Req
    PROVE  /\ Cap[q] \in Nat /\ Prompt[q] \in Nat /\ Life[q] \in Nat /\ Len(Chain[q]) \in Nat
           /\ Cap[q] <= Prompt[q] /\ Prompt[q] <= Len(Chain[q]) /\ Len(Chain[q]) <= Life[q]
           /\ \A i \in 1..Len(Chain[q]) : Chain[q][i] \in Hash /\ Chain[q][i] # NoHash
<1>1. Chain[q] \in Seq(Hash) /\ NoHash \notin Hash
  BY PoolAssumption
<1>2. \A i \in 1..Len(Chain[q]) : Chain[q][i] \in Hash
  BY <1>1, ElementOfSeq
<1> QED
  BY <1>1, <1>2, PoolAssumption

\* A step of one request that moves its pins and its reservation only, and does
\* not admit it.
LEMMA PinStep ==
    ASSUME IInv, NEW r \in Req,
           UNCHANGED <<assigned, drawn, admitted, entitled, gate, want>>,
           content' \in [Block -> Hash \cup {NoHash}], primary' \in [Block -> Block \cup {NoBlock}],
           hold' \in [Req -> Seq(Block)], reserved' \in [Req -> SUBSET Block], stage' \in [Req -> Stages],
           \A q \in Req : q # r => stage'[q] = stage[q] /\ hold'[q] = hold[q] /\ reserved'[q] = reserved[q],
           \/ stage'[r] = stage[r] /\ hold'[r] = hold[r]
           \/ stage[r] # "admitted" /\ stage'[r] \notin {"admitted", "matched"},
           reserved'[r] \subseteq reserved[r],
           \A q \in Req : q # r \/ hold'[q] = hold[q] => \A b \in Ran(hold[q]) : primary'[b] = primary[b],
           Sound(content', primary', hold', reserved', assigned', drawn'),
           StageFacts(r)'
    PROVE  IInv'
<1>0. TypeOK
  BY DEF IInv
<1>1. TypeOK'
  BY <1>0 DEF TypeOK, Resident
<1> USE Types
<1>2. CounterExact'
  BY CounterKept DEF IInv
<1>3. CreditRedeemed'
  <2> SUFFICES ASSUME NEW q \in Req, stage'[q] = "matched" PROVE Len(assigned'[q]) >= Len(hold'[q])
    BY DEF CreditRedeemed
  <2>1. stage[q] = "matched" /\ hold'[q] = hold[q]
    OBVIOUS
  <2> QED
    BY <2>1 DEF IInv, CreditRedeemed
<1>4. \A q \in Req : StageFacts(q)'
  <2> SUFFICES ASSUME NEW q \in Req, q # r PROVE StageFacts(q)'
    OBVIOUS
  <2>1. StageFacts(q)
    BY DEF IInv
  <2> QED
    BY <2>1 DEF StageFacts
<1>5. OneAdmitting'
  <2>1. \A q \in Req : stage'[q] \in {"admitted", "matched"} => stage[q] \in {"admitted", "matched"}
    OBVIOUS
  <2> QED
    BY <2>1 DEF IInv, OneAdmitting, Admitting
<1>6. Backed'
  <2>1. \A q \in Req : (stage'[q] = "admitted") <=> (stage[q] = "admitted")
    OBVIOUS
  <2>2. \A q \in Req : stage[q] = "admitted" =>
            hold'[q] = hold[q] /\ \A b \in Ran(hold[q]) : primary'[b] = primary[b]
    OBVIOUS
  <2>3. \A q \in Req : reserved'[q] \subseteq reserved[q]
    OBVIOUS
  <2>4. Unowned \subseteq Unowned'
    BY <2>3 DEF Unowned
  <2>5. TypeOK /\ Backed
    BY DEF IInv
  <2>6. entitled' \in Nat /\ entitled' <= entitled
    OBVIOUS
  <2> QED
    BY <2>1, <2>2, <2>4, <2>5, <2>6, BackedKept
<1> QED
  BY <1>1, <1>2, <1>3, <1>4, <1>5, <1>6 DEF IInv

\* A step that drops guards.
LEMMA DropStep ==
    ASSUME IInv,
           hold' \in [Req -> Seq(Block)], reserved' \in [Req -> SUBSET Block],
           assigned' \in [Req -> Seq(Block)], drawn' \in [Req -> Seq(Block)],
           Fewer(hold, reserved, assigned, drawn, hold', reserved', assigned', drawn'),
           DropTo(hold', reserved', assigned', drawn')
    PROVE  /\ content' \in [Block -> Hash \cup {NoHash}] /\ primary' \in [Block -> Block \cup {NoBlock}]
           /\ Sound(content', primary', hold', reserved', assigned', drawn')
           /\ \A q \in Req : \A b \in Ran(hold'[q]) : primary'[b] = primary[b]
<1> PICK gone : gone = Unpinned(primary, hold', reserved', assigned', drawn')
  OBVIOUS
<1>1. Cleared(gone, content, primary, content', primary')
  BY DEF DropTo, Wipe, Cleared, Unpinned
<1>2. /\ content \in [Block -> Hash \cup {NoHash}] /\ primary \in [Block -> Block \cup {NoBlock}]
      /\ Parts(content, primary, hold, reserved, assigned, drawn)
  BY Types
<1>3. Parts(content, primary, hold', reserved', assigned', drawn')
  BY <1>2 DEF Parts
<1>4. Sound(content, primary, hold, reserved, assigned, drawn)
  BY DEF IInv
<1>5. Sound(content', primary', hold', reserved', assigned', drawn')
  BY <1>1, <1>2, <1>3, <1>4, DropSound
<1>6. \A q \in Req : \A b \in Ran(hold'[q]) : b \in Block /\ b \notin gone
  <2>1. \A q \in Req : Ran(hold'[q]) \subseteq Block
    BY RanBound
  <2>2. \A q \in Req : Ran(hold'[q]) \subseteq Direct(hold', reserved', assigned', drawn')
    BY DEF Direct
  <2> QED
    BY <2>1, <2>2 DEF Unpinned
<1> QED
  BY <1>1, <1>2, <1>5, <1>6 DEF Cleared

\* Initial parts: all of a sequence, a cut, nothing.
LEMMA InitialParts ==
    ASSUME NEW S, NEW s \in Seq(S)
    PROVE  /\ Initial(s, s) /\ <<>> \in Seq(S) /\ Initial(<<>>, s)
           /\ \A n \in 0..Len(s) : /\ SubSeq(s, 1, n) \in Seq(S) /\ Len(SubSeq(s, 1, n)) = n
                                   /\ Initial(SubSeq(s, 1, n), s)
<1>1. Initial(s, s)
  BY LenProperties DEF Initial
<1>2. <<>> \in Seq(S) /\ Initial(<<>>, s)
  BY DEF Initial
<1>3. ASSUME NEW n \in 0..Len(s)
      PROVE  SubSeq(s, 1, n) \in Seq(S) /\ Len(SubSeq(s, 1, n)) = n /\ Initial(SubSeq(s, 1, n), s)
  BY DEF Initial
<1> QED
  BY <1>1, <1>2, <1>3

\* The probe pins a prefix of what the cache has, and nothing of it moves.
LEMMA ProbePrefixStep ==
    ASSUME IInv, NEW r \in Req, ProbePrefix(r)
    PROVE  IInv'
<1> PICK hits : hits = Hits(r, Prompt[r])
  OBVIOUS
<1>1. /\ hits \in Seq(Block) /\ Len(hits) \in 0..Prompt[r]
      /\ \A i \in 1..Len(hits) : hits[i] \in Canonical(Chain[r][i])
  BY Numbers, HitsFacts
<1>2. /\ stage[r] = "new" /\ hold' = [hold EXCEPT ![r] = hits] /\ stage' = [stage EXCEPT ![r] = "probed"]
      /\ UNCHANGED <<content, primary, reserved, assigned, drawn, admitted, entitled, gate, want>>
  BY DEF ProbePrefix, Goto, store, account, turn
<1>3. StageFacts(r) /\ hold[r] = <<>>
  BY <1>2 DEF IInv, StageFacts
<1>4. /\ hold' \in [Req -> Seq(Block)] /\ hold'[r] = hits /\ stage' \in [Req -> Stages]
      /\ stage'[r] = "probed"
      /\ \A q \in Req : q # r => hold'[q] = hold[q] /\ stage'[q] = stage[q]
  BY <1>1, <1>2, Types DEF Stages
<1>5. Sound(content, primary, hold, reserved, assigned, drawn)
  BY DEF IInv
<1>6. Filled(content, hold', assigned)
  <2> SUFFICES ASSUME NEW q \in Req
               PROVE  /\ Len(hold'[q]) <= Len(Chain[q])
                      /\ \A i \in 1..Len(hold'[q]) : content[hold'[q][i]] = Chain[q][i]
                      /\ \A i \in 1..Len(assigned[q]) : content[assigned[q][i]] # NoHash
    BY DEF Filled
  <2>1. CASE q # r
    BY <2>1, <1>4, <1>5 DEF Sound, Filled
  <2>2. CASE q = r
    <3>1. Len(hits) <= Len(Chain[r])
      BY <1>1, Numbers
    <3>2. \A i \in 1..Len(hits) : content[hits[i]] = Chain[r][i]
      BY <1>1 DEF Canonical
    <3> QED
      BY <2>2, <3>1, <3>2, <1>4, <1>5 DEF Sound, Filled
  <2> QED
    BY <2>1, <2>2
<1>7. Duplicates(content, primary, hold', assigned)
  <2>1. \A b : Kept(b, hold, assigned) => Kept(b, hold', assigned)
    <3>1. Ran(hold[r]) = {}
      BY <1>3 DEF Ran
    <3> QED
      BY <1>4, <3>1 DEF Kept
  <2> QED
    BY <1>5, <2>1 DEF Sound, Duplicates
<1>8. Sound(content', primary', hold', reserved', assigned', drawn')
  BY <1>2, <1>5, <1>6, <1>7 DEF Sound
<1>9. StageFacts(r)'
  BY <1>2, <1>3, <1>4 DEF StageFacts
<1> QED
  BY <1>2, <1>4, <1>8, <1>9, PinStep, Types

\* The copy starts.
LEMMA StartLoadStep ==
    ASSUME IInv, NEW r \in Req, StartLoad(r)
    PROVE  IInv'
<1>1. /\ stage[r] = "leased" /\ stage' = [stage EXCEPT ![r] = "loading"]
      /\ UNCHANGED <<content, primary, hold, reserved, assigned, drawn, admitted, entitled, gate, want>>
  BY DEF StartLoad, Goto, store, account, turn
<1>2. /\ stage' \in [Req -> Stages] /\ stage'[r] = "loading"
      /\ \A q \in Req : q # r => stage'[q] = stage[q]
  BY <1>1, Types DEF Stages
<1>3. Sound(content', primary', hold', reserved', assigned', drawn')
  BY <1>1 DEF IInv
<1>4. StageFacts(r)'
  BY <1>1, <1>2 DEF StageFacts, IInv
<1> QED
  BY <1>1, <1>2, <1>3, <1>4, PinStep, Types

\* A reservation given up: its blocks hold nothing, so nothing is reset.
LEMMA GiveUpStep ==
    ASSUME IInv, NEW r \in Req, LoadFails(r) \/ LateLoadSettles(r)
    PROVE  IInv'
<1>1. /\ reserved' = [reserved EXCEPT ![r] = {}]
      /\ UNCHANGED <<content, primary, hold, assigned, drawn, admitted, entitled, gate, want>>
      /\ \/ stage[r] = "loading" /\ stage' = [stage EXCEPT ![r] = "committing"]
         \/ stage[r] \notin {"leased", "loading", "committing"} /\ stage' = stage
  BY DEF LoadFails, LateLoadSettles, Goto, store, account, turn
<1>2. /\ stage' \in [Req -> Stages] /\ reserved' \in [Req -> SUBSET Block] /\ reserved'[r] = {}
      /\ \A q \in Req : q # r => stage'[q] = stage[q] /\ reserved'[q] = reserved[q]
  BY <1>1, Types DEF Stages
<1>3. Sound(content, primary, hold, reserved, assigned, drawn)
  BY DEF IInv
<1>4. Raw(content, reserved', drawn) /\ Exclusive(reserved', drawn)
  <2>1. \A q \in Req : reserved'[q] \subseteq reserved[q]
    BY <1>2
  <2> QED
    BY <1>3, <2>1 DEF Sound, Raw, Exclusive
<1>5. Sound(content', primary', hold', reserved', assigned', drawn')
  BY <1>1, <1>3, <1>4, RawSound
<1>6. Cardinality({}) = 0
  BY FS_EmptySet
<1>7. StageFacts(r)'
  <2>1. StageFacts(r) /\ Len(hold[r]) \in Nat /\ Cap[r] \in Nat /\ Cardinality(reserved[r]) \in Nat
    BY Types, Numbers DEF IInv
  <2>2. CASE stage[r] = "loading" /\ stage' = [stage EXCEPT ![r] = "committing"]
    <3>1. stage'[r] = "committing"
      BY <2>2, Types
    <3> QED
      BY <1>1, <1>2, <1>6, <2>1, <2>2, <3>1 DEF StageFacts
  <2>3. CASE stage[r] \notin {"leased", "loading", "committing"} /\ stage' = stage
    BY <1>1, <1>2, <2>1, <2>3 DEF StageFacts
  <2> QED
    BY <1>1, <2>2, <2>3
<1>8. \/ stage'[r] = stage[r]
      \/ stage[r] # "admitted" /\ stage'[r] \notin {"admitted", "matched"}
  BY <1>1, <1>2, Types
<1> QED
  BY <1>1, <1>2, <1>5, <1>7, <1>8, PinStep, Types

\* A request drops pins.
LEMMA UnpinStep ==
    ASSUME IInv, NEW r \in Req, NEW s \in Seq(Block), Initial(s, hold[r]),
           hold' = [hold EXCEPT ![r] = s],
           reserved' \in [Req -> SUBSET Block], reserved'[r] \subseteq reserved[r],
           stage' \in [Req -> Stages],
           \A q \in Req : q # r => stage'[q] = stage[q] /\ reserved'[q] = reserved[q],
           stage[r] # "admitted", stage'[r] \notin {"admitted", "matched"},
           DropTo(hold', reserved', assigned, drawn),
           UNCHANGED <<assigned, drawn, admitted, entitled, gate, want>>,
           StageFacts(r)'
    PROVE  IInv'
<1>1. /\ hold' \in [Req -> Seq(Block)] /\ hold'[r] = s
      /\ \A q \in Req : q # r => hold'[q] = hold[q]
  BY Types
<1>2. Fewer(hold, reserved, assigned, drawn, hold', reserved', assigned', drawn')
  <2>1. \A q \in Req : Initial(hold[q], hold[q]) /\ Initial(assigned[q], assigned[q]) /\ Initial(drawn[q], drawn[q])
    BY Types, InitialParts
  <2>2. \A q \in Req : Initial(hold'[q], hold[q]) /\ reserved'[q] \subseteq reserved[q]
    BY <1>1, <2>1
  <2> QED
    BY <2>1, <2>2 DEF Fewer
<1>3. DropTo(hold', reserved', assigned', drawn')
  OBVIOUS
<1>4. assigned' \in [Req -> Seq(Block)] /\ drawn' \in [Req -> Seq(Block)]
  BY Types
<1>5. /\ content' \in [Block -> Hash \cup {NoHash}] /\ primary' \in [Block -> Block \cup {NoBlock}]
      /\ Sound(content', primary', hold', reserved', assigned', drawn')
      /\ \A q \in Req : \A b \in Ran(hold'[q]) : primary'[b] = primary[b]
  BY <1>1, <1>2, <1>3, <1>4, DropStep
<1>6. \A q \in Req : q # r \/ hold'[q] = hold[q] => \A b \in Ran(hold[q]) : primary'[b] = primary[b]
  BY <1>1, <1>5
<1> QED
  BY <1>1, <1>5, <1>6, PinStep

\* The resolve is over: pins past the reuse cap go.
LEMMA FinishStep ==
    ASSUME IInv, NEW r \in Req, Finish(r)
    PROVE  IInv'
<1>a. PICK n : n = Min({Len(hold[r]), Cap[r]})
  OBVIOUS
<1>b. PICK s : s = SubSeq(hold[r], 1, n)
  OBVIOUS
<1>1. /\ stage[r] \in {"probed", "loading", "committing"}
      /\ hold' = [hold EXCEPT ![r] = s] /\ DropTo(hold', reserved, assigned, drawn)
      /\ stage' = [stage EXCEPT ![r] = "queued"]
      /\ UNCHANGED <<reserved, assigned, drawn, admitted, entitled, gate, want>>
  BY <1>a, <1>b DEF Finish, Goto, account, turn
<1>2. n \in 0..Len(hold[r]) /\ n <= Cap[r]
  <2>1. Len(hold[r]) \in Nat /\ Cap[r] \in Nat
    BY Types, Numbers
  <2>2. n \in Nat /\ n <= Len(hold[r]) /\ n <= Cap[r]
    BY <1>a, <2>1, MinOfTwo
  <2> QED
    BY <2>1, <2>2
<1>3. s \in Seq(Block) /\ Len(s) = n /\ Initial(s, hold[r])
  BY <1>b, <1>2, InitialParts, Types
<1>4. /\ stage' \in [Req -> Stages] /\ stage'[r] = "queued" /\ hold'[r] = s
      /\ \A q \in Req : q # r => stage'[q] = stage[q]
  BY <1>1, Types DEF Stages
<1>5. StageFacts(r)'
  BY <1>1, <1>2, <1>3, <1>4 DEF StageFacts, IInv
<1>6. DropTo(hold', reserved', assigned, drawn)
  BY <1>1
<1>7. reserved' \in [Req -> SUBSET Block] /\ \A q \in Req : reserved'[q] = reserved[q]
  BY <1>1, Types
<1> QED
  BY <1>1, <1>3, <1>4, <1>5, <1>6, <1>7, UnpinStep

\* A closed request gives back its pins, and its reservation when no copy runs.
LEMMA CancelStep ==
    ASSUME IInv, NEW r \in Req, Cancel(r)
    PROVE  IInv'
<1>1. /\ stage[r] \in {"new", "probed", "leased", "queued"}
      /\ hold' = [hold EXCEPT ![r] = <<>>] /\ DropTo(hold', reserved', assigned, drawn)
      /\ reserved' = [reserved EXCEPT ![r] = IF stage[r] = "leased" THEN {} ELSE @]
      /\ stage' = [stage EXCEPT ![r] = "done"]
      /\ UNCHANGED <<assigned, drawn, admitted, entitled, gate, want>>
  BY DEF Cancel, Goto, account, turn
<1>2. <<>> \in Seq(Block) /\ Initial(<<>>, hold[r])
  BY InitialParts, Types
<1>3. /\ stage' \in [Req -> Stages] /\ stage'[r] = "done" /\ hold'[r] = <<>>
      /\ \A q \in Req : q # r => stage'[q] = stage[q]
  BY <1>1, Types DEF Stages
<1>4. /\ reserved' \in [Req -> SUBSET Block] /\ reserved'[r] \subseteq reserved[r]
      /\ \A q \in Req : q # r => reserved'[q] = reserved[q]
  BY <1>1, Types
<1>5. StageFacts(r)'
  BY <1>1, <1>3 DEF StageFacts, IInv
<1> QED
  BY <1>1, <1>2, <1>3, <1>4, <1>5, UnpinStep

\* A queued hold is shed, or dropped once its request is matched.
LEMMA DropHoldStep ==
    ASSUME IInv, NEW r \in Req, Shed(r) \/ DropHold(r)
    PROVE  IInv'
<1>1. /\ hold' = [hold EXCEPT ![r] = <<>>] /\ DropTo(hold', reserved, assigned, drawn)
      /\ \/ stage[r] = "queued" /\ stage' = stage
         \/ stage[r] = "matched" /\ stage' = [stage EXCEPT ![r] = "running"]
      /\ UNCHANGED <<reserved, assigned, drawn, admitted, entitled, gate, want>>
  BY DEF Shed, DropHold, Goto, account, turn
<1>2. <<>> \in Seq(Block) /\ Initial(<<>>, hold[r])
  BY InitialParts, Types
<1>3. /\ stage' \in [Req -> Stages] /\ hold'[r] = <<>> /\ Len(hold'[r]) = 0
      /\ (stage[r] = "queued" => stage'[r] = "queued") /\ (stage[r] = "matched" => stage'[r] = "running")
      /\ \A q \in Req : q # r => stage'[q] = stage[q]
  BY <1>1, Types DEF Stages
<1>4. reserved' \in [Req -> SUBSET Block] /\ \A q \in Req : reserved'[q] = reserved[q]
  BY <1>1, Types
<1>5. StageFacts(r)'
  <2>1. StageFacts(r) /\ Cap[r] \in Nat
    BY Numbers DEF IInv
  <2> QED
    BY <1>1, <1>3, <2>1 DEF StageFacts
<1>6. DropTo(hold', reserved', assigned, drawn)
  BY <1>1
<1> QED
  BY <1>1, <1>2, <1>3, <1>4, <1>5, <1>6, UnpinStep

\* Nobody's pin is a raw block.
LEMMA PinsAreFilled ==
    ASSUME IInv, NEW q \in Req
    PROVE  /\ \A i \in 1..Len(hold[q]) : hold[q][i] \in Block /\ content[hold[q][i]] # NoHash
           /\ \A i \in 1..Len(assigned[q]) : assigned[q][i] \in Block /\ content[assigned[q][i]] # NoHash
           /\ \A b \in Ran(hold[q]) \cup Ran(assigned[q]) : content[b] # NoHash
           /\ \A i \in 1..Len(drawn[q]) : drawn[q][i] \in Block /\ content[drawn[q][i]] = NoHash
           /\ \A b \in reserved[q] \cup Ran(drawn[q]) : b \in Block /\ content[b] = NoHash
<1>1. /\ hold[q] \in Seq(Block) /\ assigned[q] \in Seq(Block) /\ drawn[q] \in Seq(Block)
      /\ reserved[q] \subseteq Block /\ Len(hold[q]) \in Nat
  BY Types
<1>2. /\ Filled(content, hold, assigned) /\ Raw(content, reserved, drawn)
  BY DEF IInv, Sound
<1>3. \A i \in 1..Len(hold[q]) : hold[q][i] \in Block /\ content[hold[q][i]] # NoHash
  <2> SUFFICES ASSUME NEW i \in 1..Len(hold[q])
               PROVE  hold[q][i] \in Block /\ content[hold[q][i]] # NoHash
    OBVIOUS
  <2>1. Len(hold[q]) <= Len(Chain[q]) /\ content[hold[q][i]] = Chain[q][i]
    BY <1>2 DEF Filled
  <2>2. i \in 1..Len(Chain[q])
    BY <2>1, <1>1, Numbers
  <2> QED
    BY <2>1, <2>2, <1>1, Numbers
<1>4. \A i \in 1..Len(assigned[q]) : assigned[q][i] \in Block /\ content[assigned[q][i]] # NoHash
  BY <1>1, <1>2 DEF Filled
<1>5. \A i \in 1..Len(drawn[q]) : drawn[q][i] \in Block /\ content[drawn[q][i]] = NoHash
  BY <1>1, <1>2 DEF Raw
<1>6. \A b \in reserved[q] : b \in Block /\ content[b] = NoHash
  BY <1>1, <1>2 DEF Raw
<1> QED
  BY <1>3, <1>4, <1>5, <1>6 DEF Ran

\* Registering one loaded block.
LEMMA CommitLoadedStep ==
    ASSUME IInv, NEW r \in Req, CommitLoaded(r)
    PROVE  IInv'
<1>1. PICK b \in reserved[r] :
          /\ Register(b, Chain[r][Len(hold[r]) + 1])
          /\ hold' = [hold EXCEPT ![r] = Append(@, b)]
          /\ reserved' = [reserved EXCEPT ![r] = @ \ {b}]
  BY DEF CommitLoaded
<1>2. /\ stage[r] \in {"loading", "committing"} /\ stage' = [stage EXCEPT ![r] = "committing"]
      /\ UNCHANGED <<assigned, drawn, admitted, entitled, gate, want>>
  BY DEF CommitLoaded, Goto, account, turn
<1>a. PICK n : n = Len(hold[r])
  OBVIOUS
<1>b. PICK x : x = Chain[r][n + 1]
  OBVIOUS
<1>3. b \in Block /\ content[b] = NoHash
  BY PinsAreFilled
<1>4. /\ n \in Nat /\ IsFiniteSet(reserved[r]) /\ Cardinality(reserved[r]) \in Nat
      /\ n + Cardinality(reserved[r]) <= Cap[r]
  BY <1>a, <1>2, Types DEF IInv, StageFacts
<1>5. Cardinality(reserved[r] \ {b}) = Cardinality(reserved[r]) - 1
  BY <1>4, FS_RemoveElement
<1>6. Cardinality(reserved[r]) >= 1
  <2>1. IsFiniteSet(reserved[r] \ {b})
    BY <1>4, FS_RemoveElement
  <2> QED
    BY <1>4, <1>5, <2>1, FS_CardinalityType
<1>7. n + 1 \in 1..Len(Chain[r]) /\ x \in Hash
  <2>1. n + 1 \in 1..Len(Chain[r])
    BY <1>4, <1>6, Numbers
  <2> QED
    BY <2>1, <1>b, Numbers
<1>8. Registered(b, x, content, primary, content', primary')
  BY <1>1, <1>a, <1>b DEF Register, Canonical, Registered
<1>9. /\ hold[r] \in Seq(Block) /\ hold' \in [Req -> Seq(Block)] /\ hold'[r] = Append(hold[r], b)
      /\ reserved' \in [Req -> SUBSET Block] /\ reserved'[r] = reserved[r] \ {b}
      /\ stage' \in [Req -> Stages] /\ stage'[r] = "committing"
      /\ \A q \in Req : q # r => hold'[q] = hold[q] /\ reserved'[q] = reserved[q] /\ stage'[q] = stage[q]
  BY <1>1, <1>2, <1>3, Types, SMTT(60) DEF Stages
<1>10. /\ Len(hold'[r]) = n + 1 /\ hold'[r][n + 1] = b
       /\ \A i \in 1..n : hold'[r][i] = hold[r][i]
  BY <1>9, <1>a, AppendProperties
<1>11. Sound(content, primary, hold, reserved, assigned, drawn)
  BY DEF IInv
<1>12. content \in [Block -> Hash \cup {NoHash}] /\ content' = [content EXCEPT ![b] = x]
  BY <1>8, Types DEF Registered
<1>13. Filled(content', hold', assigned')
  <2> SUFFICES ASSUME NEW q \in Req
               PROVE  /\ Len(hold'[q]) <= Len(Chain[q])
                      /\ \A i \in 1..Len(hold'[q]) : content'[hold'[q][i]] = Chain[q][i]
                      /\ \A i \in 1..Len(assigned[q]) : content'[assigned[q][i]] # NoHash
    BY <1>2 DEF Filled
  <2>1. \A y \in Block : content[y] # NoHash => content'[y] = content[y]
    BY <1>3, <1>12
  <2>2. \A i \in 1..Len(assigned[q]) : content'[assigned[q][i]] # NoHash
    BY <2>1, PinsAreFilled
  <2>3. /\ Len(hold[q]) <= Len(Chain[q])
        /\ \A i \in 1..Len(hold[q]) : content'[hold[q][i]] = Chain[q][i]
    BY <1>11, <2>1, PinsAreFilled DEF Sound, Filled
  <2>4. CASE q # r
    BY <2>2, <2>3, <2>4, <1>9
  <2>5. CASE q = r
    <3>1. content'[b] = Chain[r][n + 1]
      BY <1>3, <1>12, <1>b
    <3>2. ASSUME NEW i \in 1..(n + 1) PROVE content'[hold'[r][i]] = Chain[r][i]
      <4>1. CASE i = n + 1
        BY <4>1, <3>1, <1>10
      <4>2. CASE i # n + 1
        <5>1. i \in 1..n
          BY <4>2, <1>4
        <5>2. hold'[r][i] = hold[r][i]
          BY <5>1, <1>10
        <5>3. content'[hold[r][i]] = Chain[r][i]
          BY <5>1, <2>3, <2>5, <1>a
        <5> QED
          BY <5>2, <5>3
      <4> QED
        BY <4>1, <4>2
    <3> QED
      BY <2>5, <3>2, <1>10, <1>7, <2>2
  <2> QED
    BY <2>4, <2>5
<1>14. Raw(content, reserved', drawn') /\ Exclusive(reserved', drawn') /\ Gone(b, reserved', drawn')
  <2>1. \A q \in Req : reserved'[q] \subseteq reserved[q] /\ b \notin reserved'[q]
    BY <1>9, <1>11 DEF Sound, Exclusive
  <2>2. \A q \in Req : b \notin Ran(drawn[q])
    BY <1>11 DEF Sound, Exclusive
  <2>3. Raw(content, reserved', drawn')
    BY <2>1, <1>2, <1>11 DEF Sound, Raw
  <2>4. Exclusive(reserved', drawn')
    <3>1. Exclusive(reserved, drawn)
      BY <1>11 DEF Sound
    <3>2. \A q, s \in Req : q # s => reserved'[q] \cap reserved'[s] = {}
      BY <2>1, <3>1 DEF Exclusive
    <3>3. \A q, s \in Req : reserved'[q] \cap Ran(drawn[s]) = {}
      BY <2>1, <3>1 DEF Exclusive
    <3> QED
      BY <1>2, <3>1, <3>2, <3>3 DEF Exclusive
  <2> QED
    BY <2>1, <2>2, <2>3, <2>4, <1>2 DEF Gone
<1>15. Joins(b, hold, assigned, hold', assigned')
  <2>1. \A q \in Req : Ran(hold[q]) \subseteq Ran(hold'[q])
    <3>1. Ran(hold[r]) \subseteq Ran(hold'[r])
      BY <1>4, <1>10, <1>a, SMTT(60) DEF Ran
    <3> QED
      BY <3>1, <1>9
  <2>2. b \in Ran(hold'[r])
    BY <1>4, <1>10 DEF Ran
  <2> QED
    BY <2>1, <2>2, <1>2 DEF Joins, Kept
<1>16. /\ Parts(content, primary, hold, reserved, assigned, drawn)
       /\ Parts(content, primary, hold', reserved', assigned', drawn')
  BY <1>2, <1>9, Types DEF Parts
<1>17. /\ Sound(content', primary', hold', reserved', assigned', drawn')
       /\ content' \in [Block -> Hash \cup {NoHash}] /\ primary' \in [Block -> Block \cup {NoBlock}]
  BY <1>3, <1>7, <1>8, <1>11, <1>13, <1>14, <1>15, <1>16, RegisterSound
<1>18. \A q \in Req : \A y \in Ran(hold[q]) : primary'[y] = primary[y]
  <2>1. \A q \in Req : \A y \in Ran(hold[q]) : y # b /\ y \in Block
    BY <1>3, PinsAreFilled DEF Ran
  <2> QED
    BY <2>1, <1>8, Types DEF Registered
<1>19. StageFacts(r)'
  <2>1. Len(hold'[r]) + Cardinality(reserved'[r]) <= Cap[r]
    BY <1>4, <1>5, <1>9, <1>10, Numbers
  <2> QED
    BY <2>1, <1>2, <1>9 DEF IInv, StageFacts
<1> QED
  BY <1>2, <1>9, <1>17, <1>18, <1>19, PinStep

\* What a draw takes and a return gives back, on the counter.
LEMMA Settled ==
    ASSUME NEW e \in Nat, NEW a \in Nat, NEW d \in Nat, NEW k \in Nat
    PROVE  e - k = e + (a + d) - (a + (d + k)) /\ e + k = e + (a + d) - (a + (d - k))
OBVIOUS

\* A step of a running request's sequence settles its draw with the counter.
LEMMA SequenceStep ==
    ASSUME IInv, NEW r \in Req, stage[r] = "running",
           UNCHANGED <<stage, hold, reserved, admitted, gate, want>>,
           content' \in [Block -> Hash \cup {NoHash}], primary' \in [Block -> Block \cup {NoBlock}],
           assigned' \in [Req -> Seq(Block)], drawn' \in [Req -> Seq(Block)],
           \A q \in Req : q # r => assigned'[q] = assigned[q] /\ drawn'[q] = drawn[q],
           Len(assigned'[r]) + Len(drawn'[r]) <= Life[r],
           entitled' = entitled + (Len(assigned[r]) + Len(drawn[r]))
                                - (Len(assigned'[r]) + Len(drawn'[r])),
           Sound(content', primary', hold', reserved', assigned', drawn'), Backed'
    PROVE  IInv'
<1>1. TypeOK /\ CounterExact /\ StageFacts(r) /\ CreditRedeemed /\ OneAdmitting
  BY DEF IInv
<1>2. \A q \in Req : Len(assigned'[q]) + Len(drawn'[q]) <= Life[q]
  BY Types
<1>3. entitled' \in Nat /\ CounterExact'
  <2>1. /\ admitted \in [Req -> BOOLEAN] /\ admitted' \in [Req -> BOOLEAN]
        /\ assigned \in [Req -> Seq(Block)] /\ drawn \in [Req -> Seq(Block)]
        /\ \A q \in Req : Len(assigned[q]) + Len(drawn[q]) <= Life[q]
    BY Types
  <2>2. admitted[r] /\ admitted'[r]
    BY <1>1 DEF StageFacts
  <2>3. /\ Owing(admitted, assigned, drawn)[r] = Life[r] - (Len(assigned[r]) + Len(drawn[r]))
        /\ Owing(admitted', assigned', drawn')[r] = Life[r] - (Len(assigned'[r]) + Len(drawn'[r]))
    BY <2>2 DEF Owing
  <2>4. /\ Len(assigned[r]) \in Nat /\ Len(drawn[r]) \in Nat /\ Life[r] \in Nat /\ entitled \in Nat
        /\ Len(assigned'[r]) \in Nat /\ Len(drawn'[r]) \in Nat
    <3>1. assigned'[r] \in Seq(Block) /\ drawn'[r] \in Seq(Block)
      OBVIOUS
    <3>2. Len(assigned'[r]) \in Nat /\ Len(drawn'[r]) \in Nat
      BY <3>1, LenProperties
    <3> QED
      BY <3>2, Types, Numbers
  <2>5. entitled' = entitled - Owing(admitted, assigned, drawn)[r] + Owing(admitted', assigned', drawn')[r]
    <3>1. PICK x : x = Len(assigned[r]) + Len(drawn[r])
      OBVIOUS
    <3>2. PICK y : y = Len(assigned'[r]) + Len(drawn'[r])
      OBVIOUS
    <3>3. x \in Nat /\ y \in Nat
      <4>1. \A m, n \in Nat : m + n \in Nat
        BY SMT
      <4> QED
        BY <2>4, <3>1, <3>2, <4>1, Zenon
    <3>4. entitled' = entitled + x - y
      BY <3>1, <3>2, Zenon
    <3>5. entitled + x - y = entitled - (Life[r] - x) + (Life[r] - y)
      BY <2>4, <3>3
    <3> QED
      BY <2>3, <3>1, <3>2, <3>4, <3>5
  <2> QED
    BY <1>1, <1>2, <2>1, <2>5, CounterStep
<1>4. TypeOK'
  BY <1>1, <1>2, <1>3 DEF TypeOK, Resident
<1>5. CreditRedeemed'
  <2> SUFFICES ASSUME NEW q \in Req, stage'[q] = "matched" PROVE Len(assigned'[q]) >= Len(hold'[q])
    BY DEF CreditRedeemed
  <2>1. q # r /\ stage[q] = "matched"
    OBVIOUS
  <2> QED
    BY <2>1, <1>1 DEF CreditRedeemed
<1>6. \A q \in Req : StageFacts(q)'
  <2> SUFFICES ASSUME NEW q \in Req PROVE StageFacts(q)'
    OBVIOUS
  <2>1. StageFacts(q)
    BY DEF IInv
  <2>2. CASE q = r
    BY <2>1, <2>2 DEF StageFacts
  <2>3. CASE q # r
    BY <2>1, <2>3 DEF StageFacts
  <2> QED
    BY <2>2, <2>3
<1>7. OneAdmitting'
  BY <1>1 DEF OneAdmitting, Admitting
<1> QED
  BY <1>3, <1>4, <1>5, <1>6, <1>7 DEF IInv

\* While the scheduler is between admissions there is no credit pending.
LEMMA NoCredit ==
    ASSUME SchedulerFree
    PROVE  Credited = {} /\ CreditPending = 0
<1>1. {q \in Req : stage[q] = "admitted"} = {}
  BY DEF SchedulerFree, Admitting
<1>2. Credited = {}
  BY <1>1 DEF Credited
<1>3. UNION {{q} \X (1..Len(hold[q])) : q \in {p \in Req : stage[p] = "admitted"}} = {}
  BY <1>1
<1> QED
  BY <1>2, <1>3, FS_EmptySet DEF CreditPending

\* The oldest drawn block is registered.
LEMMA RegisterDrawnStep ==
    ASSUME IInv, NEW r \in Req, RegisterDrawn(r)
    PROVE  IInv'
<1>1. /\ stage[r] = "running" /\ drawn[r] # <<>> /\ Len(assigned[r]) < Len(Chain[r])
      /\ Register(Head(drawn[r]), Chain[r][Len(assigned[r]) + 1])
      /\ assigned' = [assigned EXCEPT ![r] = Append(@, Head(drawn[r]))]
      /\ drawn' = [drawn EXCEPT ![r] = Tail(@)]
      /\ UNCHANGED <<stage, hold, reserved, admitted, entitled, gate, want>>
  BY DEF RegisterDrawn, account, turn
<1>a. PICK b : b = Head(drawn[r])
  OBVIOUS
<1>b. PICK x : x = Chain[r][Len(assigned[r]) + 1]
  OBVIOUS
<1>2. /\ drawn[r] \in Seq(Block) /\ assigned[r] \in Seq(Block)
      /\ Len(drawn[r]) \in Nat /\ Len(assigned[r]) \in Nat
  BY Types
<1>3. /\ Len(drawn[r]) >= 1 /\ b = drawn[r][1] /\ b \in Block
      /\ Tail(drawn[r]) \in Seq(Block) /\ Len(Tail(drawn[r])) = Len(drawn[r]) - 1
      /\ \A i \in 1..(Len(drawn[r]) - 1) : Tail(drawn[r])[i] = drawn[r][i + 1]
  BY <1>a, <1>1, <1>2, HeadTailProperties
<1>4. content[b] = NoHash
  BY <1>2, <1>3, PinsAreFilled
<1>5. x \in Hash
  <2>1. Len(assigned[r]) + 1 \in 1..Len(Chain[r])
    BY <1>1, <1>2, Numbers
  <2> QED
    BY <2>1, <1>b, Numbers
<1>6. Registered(b, x, content, primary, content', primary')
  BY <1>1, <1>a, <1>b DEF Register, Canonical, Registered
<1>7. /\ assigned' \in [Req -> Seq(Block)] /\ assigned'[r] = Append(assigned[r], b)
      /\ drawn' \in [Req -> Seq(Block)] /\ drawn'[r] = Tail(drawn[r])
      /\ \A q \in Req : q # r => assigned'[q] = assigned[q] /\ drawn'[q] = drawn[q]
  BY <1>1, <1>2, <1>3, <1>a, Types, SMTT(60)
<1>8. /\ Len(assigned'[r]) = Len(assigned[r]) + 1 /\ assigned'[r][Len(assigned[r]) + 1] = b
      /\ \A i \in 1..Len(assigned[r]) : assigned'[r][i] = assigned[r][i]
  BY <1>7, <1>2, <1>3, AppendProperties
<1>9. Sound(content, primary, hold, reserved, assigned, drawn)
  BY DEF IInv
<1>10. /\ content \in [Block -> Hash \cup {NoHash}] /\ content' = [content EXCEPT ![b] = x]
       /\ \A y \in Block : content[y] # NoHash => content'[y] = content[y]
  BY <1>3, <1>4, <1>6, Types DEF Registered
<1>11. Filled(content', hold', assigned')
  <2> SUFFICES ASSUME NEW q \in Req
               PROVE  /\ Len(hold[q]) <= Len(Chain[q])
                      /\ \A i \in 1..Len(hold[q]) : content'[hold[q][i]] = Chain[q][i]
                      /\ \A i \in 1..Len(assigned'[q]) : content'[assigned'[q][i]] # NoHash
    BY <1>1 DEF Filled
  <2>1. /\ Len(hold[q]) <= Len(Chain[q])
        /\ \A i \in 1..Len(hold[q]) : content'[hold[q][i]] = Chain[q][i]
    BY <1>9, <1>10, PinsAreFilled DEF Sound, Filled
  <2>2. \A i \in 1..Len(assigned[q]) : content'[assigned[q][i]] # NoHash
    BY <1>10, PinsAreFilled
  <2>3. ASSUME NEW i \in 1..Len(assigned'[q]) PROVE content'[assigned'[q][i]] # NoHash
    <3>1. CASE q # r
      BY <3>1, <2>2, <1>7
    <3>2. CASE q = r /\ i = Len(assigned[r]) + 1
      <4>1. content'[b] = x /\ x # NoHash
        BY <1>3, <1>5, <1>10, PoolAssumption
      <4> QED
        BY <3>2, <4>1, <1>8
    <3>3. CASE q = r /\ i # Len(assigned[r]) + 1
      <4>1. i \in 1..Len(assigned[r])
        BY <3>3, <1>8, <1>2
      <4> QED
        BY <3>3, <4>1, <1>8, <2>2
    <3> QED
      BY <3>1, <3>2, <3>3
  <2> QED
    BY <2>1, <2>3
<1>12. \A q \in Req : Ran(drawn'[q]) \subseteq Ran(drawn[q])
  <2>1. \A i \in 1..(Len(drawn[r]) - 1) : i + 1 \in 1..Len(drawn[r])
    BY <1>2
  <2>2. Ran(drawn'[r]) \subseteq Ran(drawn[r])
    BY <1>3, <1>7, <2>1 DEF Ran
  <2> QED
    BY <2>2, <1>7
<1>13. Exclusive(reserved, drawn)
  BY <1>9 DEF Sound
<1>14. Raw(content, reserved', drawn') /\ Exclusive(reserved', drawn') /\ Gone(b, reserved', drawn')
  <2>1. \A q \in Req : b \notin reserved[q] /\ b \notin Ran(drawn'[q])
    <3>1. b \in Ran(drawn[r])
      BY <1>2, <1>3 DEF Ran
    <3>2. \A q \in Req : q # r => b \notin Ran(drawn'[q])
      BY <3>1, <1>7, <1>13 DEF Exclusive
    <3>3. \A i \in 1..(Len(drawn[r]) - 1) : drawn'[r][i] # b
      <4> SUFFICES ASSUME NEW i \in 1..(Len(drawn[r]) - 1) PROVE drawn[r][i + 1] # drawn[r][1]
        BY <1>3, <1>7
      <4>1. i + 1 \in 1..Len(drawn[r]) /\ 1 \in 1..Len(drawn[r]) /\ i + 1 # 1
        BY <1>2, <1>3
      <4> QED
        BY <4>1, <1>13 DEF Exclusive
    <3>4. b \notin Ran(drawn'[r])
      BY <3>3, <1>3, <1>7 DEF Ran
    <3> QED
      BY <3>1, <3>2, <3>4, <1>13 DEF Exclusive
  <2>2. Raw(content, reserved', drawn')
    <3>1. \A q \in Req : \A i \in 1..Len(drawn'[q]) : drawn'[q][i] \in Ran(drawn'[q])
      BY DEF Ran
    <3>2. \A q \in Req : \A y \in Ran(drawn[q]) : content[y] = NoHash
      BY PinsAreFilled
    <3> QED
      BY <3>1, <3>2, <1>1, <1>9, <1>12 DEF Sound, Raw
  <2>3. Exclusive(reserved', drawn')
    <3>1. \A q, s \in Req : q # s => Ran(drawn'[q]) \cap Ran(drawn'[s]) = {}
      BY <1>12, <1>13 DEF Exclusive
    <3>2. \A q, s \in Req : reserved[q] \cap Ran(drawn'[s]) = {}
      BY <1>12, <1>13 DEF Exclusive
    <3>3. \A i, j \in 1..Len(drawn'[r]) : i # j => drawn'[r][i] # drawn'[r][j]
      <4> SUFFICES ASSUME NEW i \in 1..(Len(drawn[r]) - 1), NEW j \in 1..(Len(drawn[r]) - 1), i # j
                   PROVE  drawn[r][i + 1] # drawn[r][j + 1]
        BY <1>3, <1>7
      <4>1. i + 1 \in 1..Len(drawn[r]) /\ j + 1 \in 1..Len(drawn[r]) /\ i + 1 # j + 1
        BY <1>2
      <4> QED
        BY <4>1, <1>13 DEF Exclusive
    <3>4. \A s \in Req : \A i, j \in 1..Len(drawn'[s]) : i # j => drawn'[s][i] # drawn'[s][j]
      <4>1. ASSUME NEW s \in Req, s # r
            PROVE  \A i, j \in 1..Len(drawn'[s]) : i # j => drawn'[s][i] # drawn'[s][j]
        <5>1. drawn'[s] = drawn[s]
          BY <4>1, <1>7
        <5> QED
          BY <5>1, <1>13 DEF Exclusive
      <4> QED
        BY <3>3, <4>1, Zenon
    <3>5. \A q, s \in Req : q # s => reserved'[q] \cap reserved'[s] = {}
      BY <1>1, <1>13 DEF Exclusive
    <3> QED
      BY <3>1, <3>2, <3>4, <3>5, <1>1 DEF Exclusive
  <2> QED
    BY <2>1, <2>2, <2>3, <1>1 DEF Gone
<1>15. /\ \A q \in Req : Ran(assigned[q]) \subseteq Ran(assigned'[q])
       /\ b \in Ran(assigned'[r]) /\ Ran(assigned'[r]) \subseteq Ran(assigned[r]) \cup {b}
  <2>1. Ran(assigned[r]) \subseteq Ran(assigned'[r]) /\ b \in Ran(assigned'[r])
    BY <1>2, <1>8 DEF Ran
  <2>2. ASSUME NEW i \in 1..Len(assigned'[r]) PROVE assigned'[r][i] \in Ran(assigned[r]) \cup {b}
    <3>1. CASE i = Len(assigned[r]) + 1
      BY <3>1, <1>8
    <3>2. CASE i # Len(assigned[r]) + 1
      BY <3>2, <1>2, <1>8 DEF Ran
    <3> QED
      BY <3>1, <3>2
  <2>3. Ran(assigned'[r]) \subseteq Ran(assigned[r]) \cup {b}
    BY <2>2 DEF Ran
  <2> QED
    BY <2>1, <2>3, <1>7
<1>16. Joins(b, hold, assigned, hold', assigned')
  BY <1>1, <1>15 DEF Joins, Kept
<1>17. /\ Parts(content, primary, hold, reserved, assigned, drawn)
       /\ Parts(content, primary, hold', reserved', assigned', drawn')
  BY <1>1, <1>7, Types DEF Parts
<1>18. /\ Sound(content', primary', hold', reserved', assigned', drawn')
       /\ content' \in [Block -> Hash \cup {NoHash}] /\ primary' \in [Block -> Block \cup {NoBlock}]
  BY <1>3, <1>4, <1>5, <1>6, <1>9, <1>11, <1>14, <1>16, <1>17, RegisterSound
<1>19. Backed'
  <2>1. \A q \in Req : \A y \in Ran(hold[q]) : primary'[y] = primary[y]
    <3>1. \A q \in Req : \A y \in Ran(hold[q]) : y # b /\ y \in Block
      BY <1>4, PinsAreFilled DEF Ran
    <3> QED
      BY <3>1, <1>6, Types DEF Registered
  <2>2. Unowned \subseteq Unowned'
    <3>1. b \in Ran(drawn[r])
      BY <1>2, <1>3 DEF Ran
    <3>2. \A q \in Req : reserved'[q] \cup Ran(assigned'[q]) \cup Ran(drawn'[q])
              \subseteq reserved[q] \cup Ran(assigned[q]) \cup Ran(drawn[q])
      BY <3>1, <1>1, <1>7, <1>12, <1>15
    <3> QED
      BY <3>2 DEF Unowned
  <2>3. TypeOK /\ Backed
    BY DEF IInv
  <2>4. entitled' \in Nat /\ entitled' <= entitled
    <3>1. entitled \in Nat
      BY Types
    <3> QED
      BY <3>1, <1>1
  <2> QED
    BY <2>1, <2>2, <2>3, <2>4, <1>1, BackedKept
<1>20. /\ Len(assigned'[r]) + Len(drawn'[r]) <= Life[r]
       /\ entitled' = entitled + (Len(assigned[r]) + Len(drawn[r]))
                                - (Len(assigned'[r]) + Len(drawn'[r]))
  BY <1>1, <1>2, <1>3, <1>7, <1>8, Types, Numbers
<1> QED
  BY <1>1, <1>7, <1>18, <1>19, <1>20, SequenceStep

\* Taking available blocks: their content goes, nobody had them, and they are
\* not credited to an admission.
LEMMA TakeBlocks ==
    ASSUME IInv, NEW S, S \subseteq Available, Wipe(S)
    PROVE  /\ content' \in [Block -> Hash \cup {NoHash}]
           /\ Sound(content', primary, hold, reserved, assigned, drawn)
           /\ S \subseteq Unowned \ Credited /\ IsFiniteSet(S)
           /\ \A b \in S : b \in Block /\ content'[b] = NoHash
           /\ \A b \in S : \A r \in Req : b \notin reserved[r] /\ b \notin Ran(drawn[r])
<1>1. /\ Parts(content, primary, hold, reserved, assigned, drawn)
      /\ content \in [Block -> Hash \cup {NoHash}]
      /\ content' = [b \in Block |-> IF b \in S THEN NoHash ELSE content[b]]
  BY Types DEF Wipe
<1>2. S \subseteq Block /\ NoBlock \notin Block /\ IsFiniteSet(S)
  <2>1. S \subseteq Block
    BY DEF Available
  <2> QED
    BY <2>1, PoolAssumption, FS_Subset
<1>3. \A b \in S : \A r \in Req : b \notin Ran(hold[r]) /\ b \notin Ran(assigned[r])
                                     /\ b \notin reserved[r] /\ b \notin Ran(drawn[r])
  BY AvailableFacts
<1>4. \A b \in S : \A x : Kept(x, hold, assigned) => primary[x] # b
  BY <1>2, AvailableFacts
<1>5. Sound(content, primary, hold, reserved, assigned, drawn)
  BY DEF IInv
<1>6. Sound(content', primary, hold, reserved, assigned, drawn)
  <2>1. \A b \in S : \A r \in Req : b \notin Ran(hold[r]) /\ b \notin Ran(assigned[r])
    BY <1>3
  <2> QED
    BY <1>1, <1>2, <1>4, <1>5, <2>1, WipeSound
<1>7. S \subseteq Unowned
  BY <1>2, <1>3, UnownedFacts
<1>8. \A b \in S : b \notin Credited
  <2> SUFFICES ASSUME NEW b \in S, NEW r \in Req
               PROVE  b \notin Ran(hold[r]) \cup Behind(Ran(hold[r]), primary)
    BY DEF Credited
  <2>1. \A x \in Ran(hold[r]) : Kept(x, hold, assigned)
    BY DEF Kept
  <2> QED
    BY <2>1, <1>3, <1>4 DEF Behind
<1> QED
  BY <1>1, <1>2, <1>3, <1>6, <1>7, <1>8

\* An allocation of k blocks.
LEMMA AllocationFacts ==
    ASSUME NEW k, NEW S \in Allocation(k)
    PROVE  S \subseteq Available /\ Cardinality(S) = k
BY DEF Allocation

\* The inactive blocks are evicted.
LEMMA EvictStep ==
    ASSUME IInv, EvictInactive
    PROVE  IInv'
<1>1. /\ Wipe(Available)
      /\ UNCHANGED <<primary, stage, hold, reserved, assigned, drawn, admitted, entitled, gate, want>>
  BY DEF EvictInactive
<1>2. /\ content' \in [Block -> Hash \cup {NoHash}]
      /\ Sound(content', primary, hold, reserved, assigned, drawn)
  BY <1>1, TakeBlocks
<1>3. Sound(content', primary', hold', reserved', assigned', drawn')
  BY <1>1, <1>2
<1>4. TypeOK /\ CounterExact /\ CreditRedeemed /\ OneAdmitting /\ Backed /\ \A r \in Req : StageFacts(r)
  BY DEF IInv
<1>5. TypeOK'
  BY <1>1, <1>2, <1>4 DEF TypeOK, Resident
<1>6. CounterExact'
  BY <1>1, <1>4, CounterKept
<1>7. CreditRedeemed' /\ OneAdmitting'
  BY <1>1, <1>4 DEF CreditRedeemed, OneAdmitting, Admitting
<1>8. \A r \in Req : StageFacts(r)'
  BY <1>1, <1>4 DEF StageFacts
<1>9. Backed'
  BY <1>1, <1>4 DEF Backed, Unowned, Credited, CreditPending
<1> QED
  BY <1>3, <1>5, <1>6, <1>7, <1>8, <1>9 DEF IInv

\* A running request draws k blocks of what it is owed.
LEMMA DrawStep ==
    ASSUME IInv, NEW r \in Req, NEW k, Draw(r, k)
    PROVE  IInv'
<1>1. PICK S \in Allocation(k) :
          /\ \E order \in {q \in [1..k -> S] : \A i, j \in 1..k : i # j => q[i] # q[j]} :
                 drawn' = [drawn EXCEPT ![r] = @ \o order]
          /\ Wipe(S)
  BY DEF Draw
<1>2. PICK order \in [1..k -> S] : /\ \A i, j \in 1..k : i # j => order[i] # order[j]
                                   /\ drawn' = [drawn EXCEPT ![r] = @ \o order]
  BY <1>1
<1>3. /\ SchedulerFree /\ gate = NoReq /\ stage[r] = "running" /\ k \in 1..Remaining(r)
      /\ entitled' = entitled - k
      /\ UNCHANGED <<primary, stage, hold, reserved, assigned, admitted, gate, want>>
  BY DEF Draw, turn
<1>4. S \subseteq Available /\ Cardinality(S) = k
  BY AllocationFacts
<1>5. /\ content' \in [Block -> Hash \cup {NoHash}]
      /\ Sound(content', primary, hold, reserved, assigned, drawn)
      /\ S \subseteq Unowned \ Credited /\ IsFiniteSet(S)
      /\ \A b \in S : b \in Block /\ content'[b] = NoHash
      /\ \A b \in S : \A q \in Req : b \notin reserved[q] /\ b \notin Ran(drawn[q])
  BY <1>1, <1>4, TakeBlocks
<1>6. /\ k \in Nat /\ Len(assigned[r]) \in Nat /\ Len(drawn[r]) \in Nat /\ entitled \in Nat
      /\ Len(assigned[r]) + Len(drawn[r]) + k <= Life[r] /\ Life[r] \in Nat
  BY <1>3, Types, Numbers DEF Remaining, Resident
<1>7. order \in Seq(Block) /\ Len(order) = k
  <2>1. order \in [1..k -> Block]
    BY <1>5
  <2>2. order \in Seq(Block)
    BY <2>1, <1>6, SeqDef
  <2>3. DOMAIN order = 1..k /\ DOMAIN order = 1..Len(order) /\ Len(order) \in Nat
    BY <2>1, <2>2, LenProperties
  <2> QED
    BY <2>2, <2>3, <1>6
<1>8. /\ drawn[r] \in Seq(Block) /\ drawn' \in [Req -> Seq(Block)] /\ drawn'[r] = drawn[r] \o order
      /\ \A q \in Req : q # r => drawn'[q] = drawn[q]
  BY <1>2, <1>7, Types, SMTT(60)
<1>a. PICK n : n = Len(drawn[r])
  OBVIOUS
<1>9. /\ Len(drawn'[r]) = n + k /\ n \in Nat
      /\ \A i \in 1..(n + k) : drawn'[r][i] = IF i <= n THEN drawn[r][i] ELSE order[i - n]
  BY <1>a, <1>7, <1>8, ConcatProperties, LenProperties
<1>10. /\ \A i \in 1..n : drawn'[r][i] = drawn[r][i] /\ drawn[r][i] \in Ran(drawn[r])
       /\ \A i \in 1..(n + k) : i \notin 1..n => i - n \in 1..k /\ drawn'[r][i] = order[i - n]
                                                   /\ drawn'[r][i] \in S
  <2>1. \A i \in 1..n : drawn'[r][i] = drawn[r][i] /\ drawn[r][i] \in Ran(drawn[r])
    <3>1. \A i \in 1..n : i \in 1..(n + k) /\ i <= n
      BY <1>9, <1>6
    <3>2. \A i \in 1..n : drawn'[r][i] = drawn[r][i]
      BY <1>9, <3>1
    <3>3. \A i \in 1..n : drawn[r][i] \in Ran(drawn[r])
      BY <1>a DEF Ran
    <3> QED
      BY <3>2, <3>3
  <2>2. ASSUME NEW i \in 1..(n + k), i \notin 1..n
        PROVE  i - n \in 1..k /\ drawn'[r][i] = order[i - n] /\ drawn'[r][i] \in S
    <3>1. i - n \in 1..k /\ ~(i <= n)
      BY <2>2, <1>9, <1>6
    <3> QED
      BY <3>1, <1>9, <1>2
  <2> QED
    BY <2>1, <2>2
<1>11. Ran(drawn'[r]) \subseteq Ran(drawn[r]) \cup S
  BY <1>9, <1>10 DEF Ran
<1>12. Raw(content', reserved, drawn) /\ Exclusive(reserved, drawn)
  BY <1>5 DEF Sound
<1>13. Raw(content', reserved, drawn')
  <2>1. ASSUME NEW i \in 1..(n + k) PROVE content'[drawn'[r][i]] = NoHash
    <3>1. CASE i \in 1..n
      BY <3>1, <1>10, <1>12, <1>a DEF Raw
    <3>2. CASE i \notin 1..n
      BY <3>2, <1>10, <1>5
    <3> QED
      BY <3>1, <3>2
  <2>2. ASSUME NEW q \in Req, NEW i \in 1..Len(drawn'[q]) PROVE content'[drawn'[q][i]] = NoHash
    <3>1. CASE q = r
      BY <3>1, <2>1, <1>9
    <3>2. CASE q # r
      BY <3>2, <1>8, <1>12 DEF Raw
    <3> QED
      BY <3>1, <3>2
  <2> QED
    BY <2>2, <1>12 DEF Raw
<1>14. Exclusive(reserved, drawn')
  <2>1. \A q \in Req : Ran(drawn'[q]) \subseteq Ran(drawn[q]) \cup S /\ (q # r => Ran(drawn'[q]) = Ran(drawn[q]))
    BY <1>8, <1>11
  <2>2. \A q, s \in Req : q # s => Ran(drawn'[q]) \cap Ran(drawn'[s]) = {}
    BY <2>1, <1>5, <1>12 DEF Exclusive
  <2>3. \A q, s \in Req : reserved[q] \cap Ran(drawn'[s]) = {}
    BY <2>1, <1>5, <1>12 DEF Exclusive
  <2>4. ASSUME NEW i \in 1..(n + k), NEW j \in 1..(n + k), i # j PROVE drawn'[r][i] # drawn'[r][j]
    <3>1. CASE i \in 1..n /\ j \in 1..n
      BY <3>1, <2>4, <1>10, <1>12, <1>a DEF Exclusive
    <3>2. CASE i \in 1..n /\ j \notin 1..n
      BY <3>2, <1>10, <1>5
    <3>3. CASE i \notin 1..n /\ j \in 1..n
      BY <3>3, <1>10, <1>5
    <3>4. CASE i \notin 1..n /\ j \notin 1..n
      <4>0. \A x, y \in Nat : \A m \in 1..(x + y) : m \in Nat
        BY SMT
      <4>1. i \in Nat /\ j \in Nat /\ n \in Nat
        BY <4>0, <1>6, <1>9, Zenon
      <4>2. i - n # j - n
        BY <2>4, <4>1
      <4>3. /\ i - n \in 1..k /\ drawn'[r][i] = order[i - n]
            /\ j - n \in 1..k /\ drawn'[r][j] = order[j - n]
        BY <3>4, <1>10, Zenon
      <4>4. order[i - n] # order[j - n]
        BY <4>2, <4>3, <1>2, Zenon
      <4> QED
        BY <4>3, <4>4, Zenon
    <3> QED
      BY <3>1, <3>2, <3>3, <3>4
  <2>5. \A s \in Req : \A i, j \in 1..Len(drawn'[s]) : i # j => drawn'[s][i] # drawn'[s][j]
    <3>1. ASSUME NEW s \in Req, s # r
          PROVE  \A i, j \in 1..Len(drawn'[s]) : i # j => drawn'[s][i] # drawn'[s][j]
      BY <3>1, <1>8, <1>12, ZenonT(60) DEF Exclusive
    <3>2. \A i, j \in 1..Len(drawn'[r]) : i # j => drawn'[r][i] # drawn'[r][j]
      BY <2>4, <1>9
    <3> QED
      BY <3>1, <3>2, Zenon
  <2> QED
    BY <2>2, <2>3, <2>5, <1>12 DEF Exclusive
<1>15. Sound(content', primary', hold', reserved', assigned', drawn')
  <2>1. Sound(content', primary, hold, reserved, assigned, drawn')
    BY <1>5, <1>13, <1>14, RawSound
  <2> QED
    BY <2>1, <1>3
<1>16. Backed'
  <2>1. Credited = {} /\ CreditPending = 0 /\ Credited' = {} /\ CreditPending' = 0
    <3>1. SchedulerFree'
      BY <1>3 DEF SchedulerFree, Admitting
    <3>2. Credited' = Credited /\ CreditPending' = CreditPending
      BY <1>3 DEF Credited, CreditPending
    <3> QED
      BY <3>2, <1>3, NoCredit
  <2>2. Unowned \ S \subseteq Unowned'
    <3>1. \A q \in Req : Ran(drawn'[q]) \subseteq Ran(drawn[q]) \cup S
      BY <1>8, <1>11
    <3> QED
      BY <3>1, <1>3 DEF Unowned
  <2>3. IsFiniteSet(Unowned) /\ IsFiniteSet(Unowned')
    <3>1. Unowned' \subseteq Block
      BY DEF Unowned
    <3> QED
      BY <3>1, UnownedFacts, PoolAssumption, FS_Subset
  <2>4. Cardinality(Unowned') >= Cardinality(Unowned) - k
    BY <2>2, <2>3, <1>4, <1>5, <1>6, Shrink
  <2>5. Cardinality(Unowned) >= entitled /\ Cardinality(Unowned) \in Nat /\ Cardinality(Unowned') \in Nat
    <3>1. Unowned \ Credited = Unowned
      BY <2>1
    <3>2. Cardinality(Unowned) \in Nat /\ Cardinality(Unowned') \in Nat
      BY <2>3, FS_CardinalityType
    <3>3. Cardinality(Unowned) + 0 >= entitled
      BY <3>1, <2>1, <1>3 DEF IInv, Backed
    <3> QED
      BY <3>2, <3>3
  <2>6. Cardinality(Unowned') + 0 >= entitled'
    BY <2>4, <2>5, <1>3, <1>6
  <2>7. Unowned' \ Credited' = Unowned' /\ gate' = NoReq
    BY <2>1, <1>3
  <2> QED
    BY <2>1, <2>6, <2>7 DEF Backed
<1>17. /\ Len(assigned'[r]) + Len(drawn'[r]) <= Life[r]
       /\ entitled' = entitled + (Len(assigned[r]) + Len(drawn[r])) - (Len(assigned'[r]) + Len(drawn'[r]))
  <2>1. assigned'[r] = assigned[r] /\ Len(drawn'[r]) = Len(drawn[r]) + k
    BY <1>3, <1>9, <1>a
  <2>2. Len(assigned[r]) + (Len(drawn[r]) + k) <= Life[r]
    <3>1. \A x, y, z, l \in Nat : x + y + z <= l => x + (y + z) <= l
      BY SMT
    <3> QED
      BY <1>6, <3>1, Zenon
  <2>3. entitled - k = entitled + (Len(assigned[r]) + Len(drawn[r])) - (Len(assigned[r]) + (Len(drawn[r]) + k))
    BY <1>6, Settled
  <2> QED
    BY <2>1, <2>2, <2>3, <1>3, Zenon
<1>18. primary' \in [Block -> Block \cup {NoBlock}] /\ assigned' \in [Req -> Seq(Block)]
       /\ \A q \in Req : q # r => assigned'[q] = assigned[q] /\ drawn'[q] = drawn[q]
  BY <1>3, <1>8, Types
<1> QED
  BY <1>3, <1>5, <1>8, <1>15, <1>16, <1>17, <1>18, SequenceStep

\* Fewer raw blocks are raw blocks.
LEMMA FewerRaw ==
    ASSUME NEW c, NEW v, NEW d, NEW d2, Raw(c, v, d), Exclusive(v, d),
           d \in [Req -> Seq(Block)], d2 \in [Req -> Seq(Block)],
           \A r \in Req : Initial(d2[r], d[r])
    PROVE  /\ Raw(c, v, d2) /\ Exclusive(v, d2)
           /\ \A r \in Req : Ran(d2[r]) \subseteq Ran(d[r])
<1>1. \A r \in Req : Len(d[r]) \in Nat /\ Len(d2[r]) \in Nat /\ Len(d2[r]) <= Len(d[r])
  BY LenProperties DEF Initial
<1>2. \A r \in Req : \A i \in 1..Len(d2[r]) : i \in 1..Len(d[r]) /\ d2[r][i] = d[r][i]
  BY <1>1 DEF Initial
<1>3. \A r \in Req : Ran(d2[r]) \subseteq Ran(d[r])
  BY <1>2 DEF Ran
<1>4. Raw(c, v, d2)
  BY <1>2 DEF Raw
<1>5. \A q, r \in Req : v[q] \cap Ran(d2[r]) = {}
  BY <1>3 DEF Exclusive
<1>6. \A q, r \in Req : q # r => v[q] \cap v[r] = {} /\ Ran(d2[q]) \cap Ran(d2[r]) = {}
  BY <1>3 DEF Exclusive
<1>7. \A r \in Req : \A i, j \in 1..Len(d2[r]) : i # j => d2[r][i] # d2[r][j]
  BY <1>2 DEF Exclusive
<1> QED
  BY <1>3, <1>4, <1>5, <1>6, <1>7 DEF Exclusive

\* The last k blocks of a sequence without repetition are k blocks.
LEMMA LastBlocks ==
    ASSUME NEW s \in Seq(Block), NEW k \in 1..Len(s),
           \A i, j \in 1..Len(s) : i # j => s[i] # s[j],
           NEW X, X = {s[i] : i \in (Len(s) - k + 1)..Len(s)}
    PROVE  IsFiniteSet(X) /\ Cardinality(X) = k
<1>1. PICK n : n = Len(s)
  OBVIOUS
<1>2. n \in Nat /\ k \in Nat /\ k <= n
  BY <1>1, LenProperties
<1>3. PICK f : f = [i \in 1..k |-> s[n - k + i]]
  OBVIOUS
<1>4. \A i \in 1..k : n - k + i \in (n - k + 1)..n /\ n - k + i \in 1..n
  BY <1>2
<1>5. \A i \in 1..k : f[i] = s[n - k + i] /\ f[i] \in X
  BY <1>1, <1>3, <1>4
<1>6. \A i, j \in 1..k : i # j => f[i] # f[j]
  <2> SUFFICES ASSUME NEW i \in 1..k, NEW j \in 1..k, i # j PROVE s[n - k + i] # s[n - k + j]
    BY <1>5
  <2>1. n - k + i # n - k + j
    BY <1>2
  <2>2. n - k + i \in 1..n /\ n - k + j \in 1..n
    BY <1>4
  <2> QED
    BY <2>1, <2>2, <1>1, Zenon
<1>7. ASSUME NEW x \in X PROVE \E i \in 1..k : f[i] = x
  <2>1. PICK j \in (n - k + 1)..n : x = s[j]
    BY <1>1
  <2>2. j - (n - k) \in 1..k /\ n - k + (j - (n - k)) = j
    BY <1>2, <2>1
  <2> QED
    BY <2>1, <2>2, <1>5
<1>8. f \in Bijection(1..k, X)
  <2>1. f \in [1..k -> X]
    BY <1>3, <1>5
  <2>2. f \in Injection(1..k, X)
    BY <2>1, <1>6 DEF Injection, IsInjective
  <2>3. f \in Surjection(1..k, X)
    BY <2>1, <1>7 DEF Surjection
  <2> QED
    BY <2>2, <2>3 DEF Bijection
<1>9. IsFiniteSet(1..k) /\ Cardinality(1..k) = k
  BY <1>2, Interval
<1>10. ExistsBijection(1..k, X)
  BY <1>8 DEF ExistsBijection
<1> QED
  BY <1>9, <1>10, FS_Bijection

\* The newest k blocks go back, and the counter with them.
LEMMA ReturnDrawnStep ==
    ASSUME IInv, NEW r \in Req, NEW k, ReturnDrawn(r, k)
    PROVE  IInv'
<1>a. PICK n : n = Len(drawn[r])
  OBVIOUS
<1>1. /\ SchedulerFree /\ gate = NoReq /\ stage[r] = "running" /\ k \in 1..n
      /\ drawn' = [drawn EXCEPT ![r] = SubSeq(@, 1, n - k)]
      /\ entitled' = entitled + k
      /\ UNCHANGED <<content, primary, stage, hold, reserved, assigned, admitted, gate, want>>
  BY <1>a DEF ReturnDrawn, store, turn
<1>2. /\ n \in Nat /\ k \in Nat /\ k <= n /\ n - k \in 0..n /\ drawn[r] \in Seq(Block)
      /\ Len(assigned[r]) \in Nat /\ entitled \in Nat /\ Life[r] \in Nat /\ Len(assigned[r]) + n <= Life[r]
  BY <1>1, <1>a, Types, Numbers
<1>3. /\ SubSeq(drawn[r], 1, n - k) \in Seq(Block) /\ Len(SubSeq(drawn[r], 1, n - k)) = n - k
      /\ Initial(SubSeq(drawn[r], 1, n - k), drawn[r])
  BY <1>2, <1>a, InitialParts
<1>4. /\ drawn' \in [Req -> Seq(Block)] /\ drawn'[r] = SubSeq(drawn[r], 1, n - k)
      /\ \A q \in Req : q # r => drawn'[q] = drawn[q]
  BY <1>1, <1>3, Types
<1>5. \A q \in Req : Initial(drawn'[q], drawn[q])
  <2>1. \A q \in Req : Initial(drawn[q], drawn[q])
    BY Types, InitialParts
  <2> QED
    BY <2>1, <1>3, <1>4
<1>6. Sound(content, primary, hold, reserved, assigned, drawn)
  BY DEF IInv
<1>7. Raw(content, reserved, drawn) /\ Exclusive(reserved, drawn)
  BY <1>6 DEF Sound
<1>8. /\ Raw(content, reserved, drawn') /\ Exclusive(reserved, drawn')
      /\ \A q \in Req : Ran(drawn'[q]) \subseteq Ran(drawn[q])
  BY <1>4, <1>5, <1>7, Types, FewerRaw
<1>9. Sound(content', primary', hold', reserved', assigned', drawn')
  <2>1. Sound(content, primary, hold, reserved, assigned, drawn')
    BY <1>6, <1>8, RawSound
  <2> QED
    BY <2>1, <1>1
<1>b. PICK X : X = {drawn[r][i] : i \in (n - k + 1)..n}
  OBVIOUS
<1>10. IsFiniteSet(X) /\ Cardinality(X) = k
  <2>1. \A i, j \in 1..Len(drawn[r]) : i # j => drawn[r][i] # drawn[r][j]
    BY <1>7 DEF Exclusive
  <2>2. k \in 1..Len(drawn[r]) /\ X = {drawn[r][i] : i \in (Len(drawn[r]) - k + 1)..Len(drawn[r])}
    BY <1>1, <1>a, <1>b
  <2> QED
    BY <2>1, <2>2, <1>2, LastBlocks
<1>11. X \subseteq Ran(drawn[r]) /\ X \cap Ran(drawn'[r]) = {}
  <2>1. \A i \in (n - k + 1)..n : i \in 1..n
    BY <1>2
  <2>2. X \subseteq Ran(drawn[r])
    BY <2>1, <1>a, <1>b DEF Ran
  <2>3. ASSUME NEW i \in (n - k + 1)..n, NEW j \in 1..(n - k) PROVE drawn[r][i] # drawn'[r][j]
    <3>1. i \in 1..n /\ j \in 1..n /\ i # j
      BY <1>2
    <3>2. drawn'[r][j] = drawn[r][j]
      BY <1>3, <1>4 DEF Initial
    <3> QED
      BY <3>1, <3>2, <1>7, <1>a DEF Exclusive
  <2>4. Len(drawn'[r]) = n - k
    BY <1>3, <1>4
  <2> QED
    BY <2>2, <2>3, <2>4, <1>b DEF Ran
<1>12. Unowned \cup X \subseteq Unowned' /\ Unowned \cap X = {}
  <2>1. Unowned \subseteq Unowned'
    BY <1>1, <1>8 DEF Unowned
  <2>2. Unowned \cap X = {}
    BY <1>11, UnownedFacts
  <2>3. ASSUME NEW b \in X PROVE b \in Unowned'
    <3>1. b \in Block /\ content[b] = NoHash /\ b \in Ran(drawn[r])
      BY <1>11, PinsAreFilled
    <3>2. \A q \in Req : b \notin Ran(assigned[q])
      BY <3>1, PinsAreFilled
    <3>3. \A q \in Req : b \notin reserved[q]
      BY <3>1, <1>7 DEF Exclusive
    <3>4. \A q \in Req : b \notin Ran(drawn'[q])
      <4>1. b \notin Ran(drawn'[r])
        BY <1>11
      <4>2. ASSUME NEW q \in Req, q # r PROVE b \notin Ran(drawn'[q])
        BY <4>2, <3>1, <1>4, <1>7 DEF Exclusive
      <4> QED
        BY <4>1, <4>2
    <3> QED
      BY <3>1, <3>2, <3>3, <3>4, <1>1 DEF Unowned
  <2> QED
    BY <2>1, <2>2, <2>3
<1>13. Backed'
  <2>1. Credited = {} /\ CreditPending = 0 /\ Credited' = {} /\ CreditPending' = 0
    <3>1. Credited' = Credited /\ CreditPending' = CreditPending
      BY <1>1 DEF Credited, CreditPending
    <3> QED
      BY <3>1, <1>1, NoCredit
  <2>2. IsFiniteSet(Unowned) /\ IsFiniteSet(Unowned')
    <3>1. Unowned' \subseteq Block
      BY DEF Unowned
    <3> QED
      BY <3>1, UnownedFacts, PoolAssumption, FS_Subset
  <2>3. /\ Cardinality(Unowned) \in Nat /\ Cardinality(Unowned') \in Nat
        /\ Cardinality(Unowned \cup X) = Cardinality(Unowned) + k
    <3>1. Cardinality(Unowned) \in Nat /\ Cardinality(Unowned') \in Nat
      BY <2>2, FS_CardinalityType
    <3>2. Cardinality(Unowned \cup X) = Cardinality(Unowned) + Cardinality(X) - Cardinality(Unowned \cap X)
      BY <2>2, <1>10, FS_Union
    <3>3. Cardinality(Unowned \cap X) = 0
      BY <1>12, FS_EmptySet
    <3> QED
      BY <3>1, <3>2, <3>3, <1>10, <1>2
  <2>4. Cardinality(Unowned \cup X) <= Cardinality(Unowned')
    BY <2>2, <1>12, Grow
  <2>5. Cardinality(Unowned) + 0 >= entitled
    <3>1. Unowned \ Credited = Unowned
      BY <2>1
    <3> QED
      BY <3>1, <2>1, <1>1 DEF IInv, Backed
  <2>6. Cardinality(Unowned') + 0 >= entitled'
    BY <2>3, <2>4, <2>5, <1>1, <1>2
  <2>7. Unowned' \ Credited' = Unowned' /\ gate' = NoReq
    BY <2>1, <1>1
  <2> QED
    BY <2>1, <2>6, <2>7 DEF Backed
<1>14. /\ Len(assigned'[r]) + Len(drawn'[r]) <= Life[r]
       /\ entitled' = entitled + (Len(assigned[r]) + Len(drawn[r])) - (Len(assigned'[r]) + Len(drawn'[r]))
  <2>1. assigned'[r] = assigned[r] /\ Len(drawn'[r]) = Len(drawn[r]) - k
    BY <1>1, <1>3, <1>4, <1>a
  <2>2. Len(assigned[r]) + (Len(drawn[r]) - k) <= Life[r]
    <3>1. \A x, y, z, l \in Nat : x + y <= l => x + (y - z) <= l
      BY SMT
    <3> QED
      BY <1>2, <1>a, <3>1, Zenon
  <2>3. entitled + k = entitled + (Len(assigned[r]) + Len(drawn[r])) - (Len(assigned[r]) + (Len(drawn[r]) - k))
    BY <1>2, <1>a, Settled
  <2> QED
    BY <2>1, <2>2, <2>3, <1>1, Zenon
<1>15. /\ content' \in [Block -> Hash \cup {NoHash}] /\ primary' \in [Block -> Block \cup {NoBlock}]
       /\ assigned' \in [Req -> Seq(Block)]
       /\ \A q \in Req : q # r => assigned'[q] = assigned[q] /\ drawn'[q] = drawn[q]
  BY <1>1, <1>4, Types
<1> QED
  BY <1>1, <1>4, <1>9, <1>13, <1>14, <1>15, SequenceStep

\* Other requests keep their facts while the gate is left alone.
LEMMA OthersKeepFacts ==
    ASSUME IInv, NEW r \in Req, UNCHANGED <<gate, want>>,
           \A q \in Req : q # r =>
               /\ stage'[q] = stage[q] /\ hold'[q] = hold[q] /\ reserved'[q] = reserved[q]
               /\ assigned'[q] = assigned[q] /\ drawn'[q] = drawn[q] /\ admitted'[q] = admitted[q],
           StageFacts(r)'
    PROVE  \A q \in Req : StageFacts(q)'
<1> SUFFICES ASSUME NEW q \in Req, q # r PROVE StageFacts(q)'
  OBVIOUS
<1>1. StageFacts(q)
  BY DEF IInv
<1> QED
  BY <1>1 DEF StageFacts

\* Available blocks are unowned and credited to nobody.
LEMMA AvailableIsSpare ==
    ASSUME TypeOK
    PROVE  /\ Available \subseteq Unowned
           /\ \A r \in Req : Available \cap (Ran(hold[r]) \cup Behind(Ran(hold[r]), primary)) = {}
           /\ IsFiniteSet(Available) /\ Cardinality(Available) \in Nat
<1>1. Available \subseteq Unowned
  BY AvailableFacts, UnownedFacts
<1>2. ASSUME NEW r \in Req, NEW b \in Available
      PROVE  b \notin Ran(hold[r]) \cup Behind(Ran(hold[r]), primary)
  <2>1. b \in Block /\ b # NoBlock
    BY AvailableFacts, PoolAssumption
  <2>2. \A x \in Ran(hold[r]) : primary[x] # b
    BY <2>1, AvailableFacts DEF Kept
  <2> QED
    BY <2>2, AvailableFacts DEF Behind
<1>3. IsFiniteSet(Available)
  BY <1>1, UnownedFacts, FS_Subset
<1> QED
  BY <1>1, <1>2, <1>3, FS_CardinalityType

\* The reservation's check, under the gate.
LEMMA ReserveCheckStep ==
    ASSUME IInv, NEW r \in Req, NEW n \in Counts, ReserveCheck(r, n)
    PROVE  IInv'
<1>1. /\ stage[r] = "probed" /\ gate = NoReq /\ n \in 1..(Cap[r] - Len(hold[r]))
      /\ Cardinality(Available) >= n + Max({entitled, 0})
      /\ stage' = [stage EXCEPT ![r] = "reserving"] /\ gate' = r /\ want' = n
      /\ UNCHANGED <<content, primary, hold, reserved, assigned, drawn, admitted, entitled>>
  BY DEF ReserveCheck, Goto, store, account
<1>2. /\ stage' \in [Req -> Stages] /\ stage'[r] = "reserving"
      /\ \A q \in Req : q # r => stage'[q] = stage[q]
  BY <1>1, Types DEF Stages
<1>3. TypeOK /\ CounterExact /\ CreditRedeemed /\ OneAdmitting /\ \A q \in Req : StageFacts(q)
  BY DEF IInv
<1>4. /\ n \in Nat /\ n >= 1 /\ n <= Cardinality(Block) /\ Len(hold[r]) + n <= Cap[r]
      /\ n \in 0..Cardinality(Block) /\ entitled \in Nat
  BY <1>1, Types, Numbers DEF Counts
<1>5. TypeOK'
  <2>1. gate' \in Req \cup {NoReq} /\ want' \in 0..Cardinality(Block)
    BY <1>1, <1>4
  <2> QED
    BY <1>1, <1>2, <1>3, <2>1 DEF TypeOK, Resident
<1>6. CounterExact'
  BY <1>1, <1>3, CounterKept
<1>7. CreditRedeemed' /\ OneAdmitting'
  BY <1>1, <1>2, <1>3 DEF CreditRedeemed, OneAdmitting, Admitting
<1>8. ASSUME NEW q \in Req PROVE StageFacts(q)'
  <2>1. CASE q = r
    BY <2>1, <1>1, <1>2, <1>3, <1>4 DEF StageFacts
  <2>2. CASE q # r
    <3>1. stage[q] # "reserving"
      BY <1>1, <1>3, PoolAssumption DEF StageFacts
    <3> QED
      BY <2>2, <3>1, <1>1, <1>2, <1>3 DEF StageFacts
  <2> QED
    BY <2>1, <2>2
<1>9. Sound(content', primary', hold', reserved', assigned', drawn')
  BY <1>1 DEF IInv
<1>10. Backed'
  <2>1. {q \in Req : stage'[q] = "admitted"} = {q \in Req : stage[q] = "admitted"}
    BY <1>1, <1>2
  <2>2. Credited' = Credited /\ Unowned' = Unowned
    BY <2>1, <1>1 DEF Credited, Unowned
  <2>3. Available \subseteq Unowned \ Credited
    BY <1>3, AvailableIsSpare DEF Credited
  <2>4. IsFiniteSet(Unowned \ Credited)
    BY UnownedFacts, FS_Subset
  <2>5. /\ Cardinality(Available) <= Cardinality(Unowned \ Credited)
        /\ Cardinality(Available) \in Nat /\ Cardinality(Unowned \ Credited) \in Nat
    BY <2>3, <2>4, Grow
  <2>6. Cardinality(Unowned \ Credited) >= n + entitled
    <3>1. Max({entitled, 0}) = entitled
      BY <1>4, MaxWithZero
    <3> QED
      BY <3>1, <2>5, <1>1, <1>4
  <2>7. gate' # NoReq
    BY <1>1, PoolAssumption
  <2> QED
    BY <2>2, <2>6, <2>7, <1>1 DEF Backed
<1> QED
  BY <1>5, <1>6, <1>7, <1>8, <1>9, <1>10 DEF IInv

\* The reservation's allocation: its blocks are what the check left over.
LEMMA ReserveTakeStep ==
    ASSUME IInv, NEW r \in Req, ReserveTake(r)
    PROVE  IInv'
<1>1. /\ stage[r] = "reserving" /\ gate' = NoReq /\ want' = 0
      /\ UNCHANGED <<primary, hold, assigned, drawn, admitted, entitled>>
  BY DEF ReserveTake, account
<1>2. \/ \E S \in Allocation(want) :
             /\ reserved' = [reserved EXCEPT ![r] = S]
             /\ Wipe(S) /\ stage' = [stage EXCEPT ![r] = "leased"]
      \/ stage' = [stage EXCEPT ![r] = "probed"] /\ UNCHANGED <<reserved, content>>
  BY DEF ReserveTake, Goto
<1>3. TypeOK /\ CounterExact /\ CreditRedeemed /\ OneAdmitting /\ Backed /\ \A q \in Req : StageFacts(q)
  BY DEF IInv
<1>4. /\ gate = r /\ Len(hold[r]) + want <= Cap[r] /\ gate # NoReq
      /\ assigned[r] = <<>> /\ drawn[r] = <<>> /\ ~admitted[r]
  BY <1>1, <1>3, PoolAssumption DEF StageFacts
<1>5. ASSUME stage' \in [Req -> Stages], \A q \in Req : q # r => stage'[q] = stage[q],
             reserved' \in [Req -> SUBSET Block], \A q \in Req : q # r => reserved'[q] = reserved[q],
             content' \in [Block -> Hash \cup {NoHash}],
             stage'[r] \in {"probed", "leased"},
             stage'[r] = "leased" => Len(hold[r]) + Cardinality(reserved'[r]) <= Cap[r],
             Sound(content', primary', hold', reserved', assigned', drawn'),
             NEW k \in Nat, k <= want,
             NEW S, IsFiniteSet(S), Cardinality(S) = k,
             Unowned \ S \subseteq Unowned'
      PROVE  IInv'
  <2>1. TypeOK'
    <3>1. gate' \in Req \cup {NoReq} /\ want' \in 0..Cardinality(Block)
      BY <1>1, Types
    <3> QED
      BY <1>1, <1>3, <1>5, <3>1 DEF TypeOK, Resident
  <2>2. CounterExact'
    BY <1>1, <1>3, CounterKept
  <2>3. CreditRedeemed'
    BY <1>1, <1>3, <1>5 DEF CreditRedeemed
  <2>4. OneAdmitting'
    <3>1. Admitting' \subseteq Admitting
      BY <1>5 DEF Admitting
    <3> QED
      BY <3>1, <1>3 DEF OneAdmitting
  <2>5. ASSUME NEW q \in Req PROVE StageFacts(q)'
    <3>1. CASE q = r
      <4>0. assigned'[r] = <<>> /\ drawn'[r] = <<>> /\ hold'[r] = hold[r]
        BY <1>1, <1>4
      <4>1. admitted'[r] = FALSE
        BY <1>1, <1>4, Types
      <4>2. CASE stage'[r] = "probed"
        <5>1. stage'[r] \notin {"new", "reserving", "leased", "loading", "committing", "queued",
                               "admitted", "matched", "running", "retired"}
          BY <4>2
        <5>2. admitted'[r] = (stage'[r] \in {"admitted", "matched", "running"})
          <6>1. ~ (stage'[r] \in {"admitted", "matched", "running"})
            BY <5>1
          <6>2. (stage'[r] \in {"admitted", "matched", "running"}) = FALSE
            BY <6>1
          <6> QED
            BY <4>1, <6>2, Zenon
        <5> QED
          BY <3>1, <4>0, <5>1, <5>2 DEF StageFacts
      <4>3. CASE stage'[r] = "leased"
        <5>1. stage'[r] \notin {"new", "reserving", "queued", "admitted", "matched", "running", "retired"}
          BY <4>3
        <5>2. admitted'[r] = (stage'[r] \in {"admitted", "matched", "running"})
          <6>1. ~ (stage'[r] \in {"admitted", "matched", "running"})
            BY <5>1
          <6>2. (stage'[r] \in {"admitted", "matched", "running"}) = FALSE
            BY <6>1
          <6> QED
            BY <4>1, <6>2, Zenon
        <5> QED
          BY <3>1, <4>0, <4>3, <5>1, <5>2, <1>5 DEF StageFacts
      <4> QED
        BY <4>2, <4>3, <1>5
    <3>2. CASE q # r
      <4>1. stage[q] # "reserving"
        BY <3>2, <1>3, <1>4 DEF StageFacts
      <4> QED
        BY <3>2, <4>1, <1>1, <1>3, <1>5 DEF StageFacts
    <3> QED
      BY <3>1, <3>2
  <2>6. Backed'
    <3>1. {q \in Req : stage'[q] = "admitted"} = {q \in Req : stage[q] = "admitted"}
      BY <1>1, <1>5
    <3>2. Credited' = Credited
      BY <3>1, <1>1 DEF Credited
    <3>3. (Unowned \ Credited) \ S \subseteq Unowned' \ Credited'
      BY <3>2, <1>5
    <3>4. IsFiniteSet(Unowned \ Credited) /\ IsFiniteSet(Unowned' \ Credited')
      <4>1. Unowned' \subseteq Block
        BY DEF Unowned
      <4> QED
        BY <4>1, UnownedFacts, PoolAssumption, FS_Subset
    <3>5. Cardinality(Unowned' \ Credited') >= Cardinality(Unowned \ Credited) - k
      BY <3>3, <3>4, <1>5, Shrink
    <3>6. Cardinality(Unowned \ Credited) >= want + entitled
      BY <1>3, <1>4 DEF Backed
    <3>7. /\ Cardinality(Unowned \ Credited) \in Nat /\ Cardinality(Unowned' \ Credited') \in Nat
          /\ want \in Nat /\ entitled \in Nat /\ CreditPending' \in Nat
      <4>1. CreditPending' \in Nat
        <5>1. (TypeOK => CreditPending \in Nat)'
          BY CreditNatural, PTL
        <5> QED
          BY <2>1, <5>1
      <4> QED
        BY <4>1, <3>4, FS_CardinalityType, Types
    <3>8. Cardinality(Unowned' \ Credited') + CreditPending' >= entitled'
      BY <3>5, <3>6, <3>7, <1>1, <1>5
    <3> QED
      BY <3>8, <1>1 DEF Backed
  <2> QED
    BY <2>1, <2>2, <2>3, <2>4, <2>5, <2>6, <1>5 DEF IInv
<1>6. CASE \E S \in Allocation(want) :
             /\ reserved' = [reserved EXCEPT ![r] = S]
             /\ Wipe(S) /\ stage' = [stage EXCEPT ![r] = "leased"]
  <2>1. PICK S \in Allocation(want) :
             /\ reserved' = [reserved EXCEPT ![r] = S]
             /\ Wipe(S) /\ stage' = [stage EXCEPT ![r] = "leased"]
    BY <1>6
  <2>2. S \subseteq Available /\ Cardinality(S) = want
    BY AllocationFacts
  <2>3. /\ content' \in [Block -> Hash \cup {NoHash}]
        /\ Sound(content', primary, hold, reserved, assigned, drawn)
        /\ IsFiniteSet(S) /\ S \subseteq Block
        /\ \A b \in S : content'[b] = NoHash
        /\ \A b \in S : \A q \in Req : b \notin reserved[q] /\ b \notin Ran(drawn[q])
    BY <2>1, <2>2, TakeBlocks
  <2>4. /\ reserved' \in [Req -> SUBSET Block] /\ reserved'[r] = S
        /\ stage' \in [Req -> Stages] /\ stage'[r] = "leased"
        /\ \A q \in Req : q # r => reserved'[q] = reserved[q] /\ stage'[q] = stage[q]
    BY <2>1, <2>3, Types DEF Stages
  <2>5. Raw(content', reserved, drawn) /\ Exclusive(reserved, drawn)
    BY <2>3 DEF Sound
  <2>6. Raw(content', reserved', drawn) /\ Exclusive(reserved', drawn)
    <3>1. \A q \in Req : reserved'[q] = IF q = r THEN S ELSE reserved[q]
      BY <2>4
    <3>2. Raw(content', reserved', drawn)
      BY <3>1, <2>3, <2>5 DEF Raw
    <3>3. \A q, s \in Req : q # s => reserved'[q] \cap reserved'[s] = {}
      BY <3>1, <2>3, <2>5 DEF Exclusive
    <3>4. \A q, s \in Req : reserved'[q] \cap Ran(drawn[s]) = {}
      BY <3>1, <2>3, <2>5 DEF Exclusive
    <3> QED
      BY <3>2, <3>3, <3>4, <2>5 DEF Exclusive
  <2>7. Sound(content', primary', hold', reserved', assigned', drawn')
    <3>1. Sound(content', primary, hold, reserved', assigned, drawn)
      BY <2>3, <2>6, RawSound
    <3> QED
      BY <3>1, <1>1
  <2>8. Unowned \ S \subseteq Unowned'
    <3>1. \A q \in Req : reserved'[q] \subseteq reserved[q] \cup S
      BY <2>4
    <3> QED
      BY <3>1, <1>1 DEF Unowned
  <2>9. want \in Nat /\ want <= want
    BY Types
  <2> QED
    BY <1>4, <1>5, <2>2, <2>3, <2>4, <2>7, <2>8, <2>9
<1>7. CASE stage' = [stage EXCEPT ![r] = "probed"] /\ UNCHANGED <<reserved, content>>
  <2>1. /\ stage' \in [Req -> Stages] /\ stage'[r] = "probed"
        /\ \A q \in Req : q # r => stage'[q] = stage[q]
    BY <1>7, Types DEF Stages
  <2>2. Sound(content', primary', hold', reserved', assigned', drawn')
    BY <1>1, <1>7 DEF IInv
  <2>3. Unowned \ {} \subseteq Unowned'
    BY <1>1, <1>7 DEF Unowned
  <2>4. IsFiniteSet({}) /\ Cardinality({}) = 0 /\ 0 <= want
    BY FS_EmptySet, Types
  <2>5. content' \in [Block -> Hash \cup {NoHash}] /\ reserved' \in [Req -> SUBSET Block]
    BY <1>7, Types
  <2> QED
    BY <1>5, <1>7, <2>1, <2>2, <2>3, <2>4, <2>5
<1> QED
  BY <1>2, <1>6, <1>7

\* An admission: what the check found spare covers the new promise, the hold
\* counted with it.
LEMMA TryAdmitStep ==
    ASSUME IInv, NEW r \in Req, TryAdmit(r)
    PROVE  IInv'
<1>1. /\ SchedulerFree /\ gate = NoReq /\ stage[r] = "queued" /\ Fits(r)
      /\ admitted' = [admitted EXCEPT ![r] = TRUE] /\ entitled' = entitled + Remaining(r)
      /\ stage' = [stage EXCEPT ![r] = "admitted"]
      /\ UNCHANGED <<content, primary, hold, reserved, assigned, drawn, gate, want>>
  BY DEF TryAdmit, Goto, store, turn
<1>2. /\ stage' \in [Req -> Stages] /\ stage'[r] = "admitted"
      /\ \A q \in Req : q # r => stage'[q] = stage[q]
  BY <1>1, Types DEF Stages
<1>3. /\ admitted' \in [Req -> BOOLEAN] /\ admitted'[r] = TRUE
      /\ \A q \in Req : q # r => admitted'[q] = admitted[q]
  BY <1>1, Types
<1>4. TypeOK /\ CounterExact /\ StageFacts(r)
  BY DEF IInv
<1>5. ~admitted[r] /\ assigned[r] = <<>> /\ drawn[r] = <<>> /\ Len(hold[r]) <= Cap[r]
  BY <1>1, <1>4 DEF StageFacts
<1>6. \A q \in Req : stage[q] \notin {"admitted", "matched"}
  BY <1>1 DEF SchedulerFree, Admitting
<1>7. Remaining(r) = Life[r] /\ Life[r] \in Nat /\ entitled \in Nat
  <2>1. Life[r] \in Nat /\ entitled \in Nat
    BY Numbers, Types
  <2> QED
    BY <1>5, <2>1 DEF Remaining, Resident
<1>8. entitled' \in Nat /\ CounterExact'
  <2>1. /\ admitted \in [Req -> BOOLEAN]
        /\ assigned \in [Req -> Seq(Block)] /\ assigned' \in [Req -> Seq(Block)]
        /\ drawn \in [Req -> Seq(Block)] /\ drawn' \in [Req -> Seq(Block)]
        /\ \A q \in Req : Len(assigned[q]) + Len(drawn[q]) <= Life[q]
        /\ \A q \in Req : Len(assigned'[q]) + Len(drawn'[q]) <= Life[q]
        /\ \A q \in Req : Len(assigned'[q]) + Len(drawn'[q]) = Len(assigned[q]) + Len(drawn[q])
    BY <1>1, Types
  <2>2. Owing(admitted, assigned, drawn)[r] = 0
    BY <1>5 DEF Owing
  <2>3. Owing(admitted', assigned', drawn')[r] = Life[r] - (Len(assigned'[r]) + Len(drawn'[r]))
    <3>1. admitted'[r]
      BY <1>3, Zenon
    <3> QED
      BY <3>1 DEF Owing
  <2>4. Life[r] - (Len(assigned'[r]) + Len(drawn'[r])) = Remaining(r)
    BY <1>1 DEF Remaining, Resident
  <2>5. entitled' = entitled - Owing(admitted, assigned, drawn)[r] + Owing(admitted', assigned', drawn')[r]
    <3>1. \A e, n \in Nat : e + n = e - 0 + n
      OBVIOUS
    <3>2. entitled + Life[r] = entitled - 0 + Life[r]
      BY <3>1, <1>7, Zenon
    <3>3. Owing(admitted', assigned', drawn')[r] = Life[r]
      BY <2>3, <2>4, <1>7, Zenon
    <3>4. entitled' = entitled + Life[r]
      BY <1>1, <1>7, Zenon
    <3> QED
      BY <2>2, <3>2, <3>3, <3>4, Zenon
  <2> QED
    BY <1>3, <1>4, <2>1, <2>5, CounterStep
<1>9. TypeOK'
  BY <1>1, <1>2, <1>3, <1>4, <1>8 DEF TypeOK, Resident
<1>10. CreditRedeemed' /\ OneAdmitting'
  <2>1. \A q \in Req : stage'[q] \in {"admitted", "matched"} => q = r
    BY <1>2, <1>6
  <2>2. CreditRedeemed'
    BY <1>2, <2>1 DEF CreditRedeemed
  <2>3. OneAdmitting'
    BY <2>1 DEF OneAdmitting, Admitting
  <2> QED
    BY <2>2, <2>3
<1>11. \A q \in Req : StageFacts(q)'
  <2>1. StageFacts(r)'
    <3>1. (stage'[r] \in {"admitted", "matched", "running"}) = TRUE
      BY <1>2
    <3>2. admitted'[r] = (stage'[r] \in {"admitted", "matched", "running"})
      BY <1>3, <3>1, Zenon
    <3> QED
      BY <1>1, <1>2, <1>5, <3>2 DEF StageFacts
  <2> QED
    BY <1>1, <1>2, <1>3, <2>1, OthersKeepFacts
<1>12. Backed'
  <2>1. {q \in Req : stage'[q] = "admitted"} = {r}
    BY <1>2, <1>6
  <2>2. Unowned' = Unowned
    BY <1>1 DEF Unowned
  <2>3. Credited' = Ran(hold[r]) \cup Behind(Ran(hold[r]), primary)
    BY <2>1, <1>1 DEF Credited
  <2>4. CreditPending' = Len(hold[r])
    <3>1. UNION {{q} \X (1..Len(hold'[q])) : q \in {p \in Req : stage'[p] = "admitted"}} = {r} \X (1..Len(hold[r]))
      BY <2>1, <1>1
    <3>2. Len(hold[r]) \in Nat
      BY Types
    <3>3. Cardinality({r} \X (1..Len(hold[r]))) = Len(hold[r])
      BY <3>2, Row
    <3> QED
      BY <3>1, <3>3 DEF CreditPending
  <2>5. Available \subseteq Unowned' \ Credited'
    BY <2>2, <2>3, <1>4, AvailableIsSpare
  <2>6. IsFiniteSet(Unowned' \ Credited')
    BY <2>2, UnownedFacts, FS_Subset
  <2>7. /\ Cardinality(Available) <= Cardinality(Unowned' \ Credited')
        /\ Cardinality(Available) \in Nat /\ Cardinality(Unowned' \ Credited') \in Nat
    BY <2>5, <2>6, Grow
  <2>8. Cardinality(Available) + Len(hold[r]) >= entitled + Remaining(r)
    <3>1. Max({entitled, 0}) = entitled
      BY <1>7, MaxWithZero
    <3> QED
      BY <3>1, <1>1 DEF Fits
  <2>9. Cardinality(Unowned' \ Credited') + CreditPending' >= entitled'
    <3>1. Len(hold[r]) \in Nat
      BY Types
    <3> QED
      BY <3>1, <2>4, <2>7, <2>8, <1>1, <1>7
  <2> QED
    BY <2>9, <1>1 DEF Backed
<1>13. Sound(content', primary', hold', reserved', assigned', drawn')
  BY <1>1 DEF IInv
<1> QED
  BY <1>8, <1>9, <1>10, <1>11, <1>12, <1>13 DEF IInv

\* The end of a request: the remainder is refunded.
LEMMA RetireStep ==
    ASSUME IInv, NEW r \in Req, Retire(r)
    PROVE  IInv'
<1>1. /\ SchedulerFree /\ stage[r] = "running"
      /\ admitted' = [admitted EXCEPT ![r] = FALSE] /\ entitled' = entitled - Remaining(r)
      /\ stage' = [stage EXCEPT ![r] = "retired"]
      /\ UNCHANGED <<content, primary, hold, reserved, assigned, drawn, gate, want>>
  BY DEF Retire, Goto, store, turn
<1>2. /\ stage' \in [Req -> Stages] /\ stage'[r] = "retired"
      /\ \A q \in Req : q # r => stage'[q] = stage[q]
  BY <1>1, Types DEF Stages
<1>3. /\ admitted' \in [Req -> BOOLEAN] /\ admitted'[r] = FALSE
      /\ \A q \in Req : q # r => admitted'[q] = admitted[q]
  BY <1>1, Types
<1>4. TypeOK /\ CounterExact /\ CreditRedeemed /\ OneAdmitting /\ Backed /\ StageFacts(r)
  BY DEF IInv
<1>5. admitted[r]
  BY <1>1, <1>4 DEF StageFacts
<1>6. Remaining(r) \in Nat /\ entitled \in Nat
  <2>1. /\ Life[r] \in Nat /\ entitled \in Nat /\ Len(assigned[r]) \in Nat /\ Len(drawn[r]) \in Nat
        /\ Len(assigned[r]) + Len(drawn[r]) <= Life[r]
    BY Numbers, Types
  <2>2. \A l, a, d \in Nat : a + d <= l => l - (a + d) \in Nat
    OBVIOUS
  <2>3. Life[r] - (Len(assigned[r]) + Len(drawn[r])) \in Nat
    BY <2>1, <2>2, Zenon
  <2> QED
    BY <2>1, <2>3 DEF Remaining, Resident
<1>7. entitled' \in Nat /\ CounterExact'
  <2>1. /\ admitted \in [Req -> BOOLEAN]
        /\ assigned \in [Req -> Seq(Block)] /\ assigned' \in [Req -> Seq(Block)]
        /\ drawn \in [Req -> Seq(Block)] /\ drawn' \in [Req -> Seq(Block)]
        /\ \A q \in Req : Len(assigned[q]) + Len(drawn[q]) <= Life[q]
        /\ \A q \in Req : Len(assigned'[q]) + Len(drawn'[q]) <= Life[q]
        /\ \A q \in Req : Len(assigned'[q]) + Len(drawn'[q]) = Len(assigned[q]) + Len(drawn[q])
    BY <1>1, Types
  <2>2. Owing(admitted, assigned, drawn)[r] = Life[r] - (Len(assigned[r]) + Len(drawn[r]))
    BY <1>5 DEF Owing
  <2>3. Owing(admitted', assigned', drawn')[r] = 0
    <3>1. ~admitted'[r]
      BY <1>3, Zenon
    <3> QED
      BY <3>1 DEF Owing
  <2>4. Life[r] - (Len(assigned[r]) + Len(drawn[r])) = Remaining(r)
    BY DEF Remaining, Resident
  <2>5. entitled' = entitled - Owing(admitted, assigned, drawn)[r] + Owing(admitted', assigned', drawn')[r]
    <3>1. \A e, n \in Nat : e - n = e - n + 0
      OBVIOUS
    <3>2. entitled - Remaining(r) = entitled - Remaining(r) + 0
      BY <3>1, <1>6, Zenon
    <3>3. Owing(admitted, assigned, drawn)[r] = Remaining(r)
      BY <2>2, <2>4, Zenon
    <3>4. entitled' = entitled - Remaining(r)
      BY <1>1, Zenon
    <3> QED
      BY <2>3, <3>2, <3>3, <3>4, Zenon
  <2> QED
    BY <1>3, <1>4, <2>1, <2>5, CounterStep
<1>8. TypeOK'
  BY <1>1, <1>2, <1>3, <1>4, <1>7 DEF TypeOK, Resident
<1>9. CreditRedeemed' /\ OneAdmitting'
  <2>1. \A q \in Req : stage'[q] \in {"admitted", "matched"} => q # r /\ stage[q] = stage'[q]
    BY <1>2
  <2>2. CreditRedeemed'
    <3> SUFFICES ASSUME NEW q \in Req, stage'[q] = "matched" PROVE Len(assigned'[q]) >= Len(hold'[q])
      BY DEF CreditRedeemed
    <3>1. stage[q] = "matched"
      BY <2>1
    <3> QED
      BY <3>1, <1>1, <1>4 DEF CreditRedeemed
  <2>3. OneAdmitting'
    BY <1>4, <2>1 DEF OneAdmitting, Admitting
  <2> QED
    BY <2>2, <2>3
<1>10. \A q \in Req : StageFacts(q)'
  <2>1. StageFacts(r)'
    <3>1. (stage'[r] \in {"admitted", "matched", "running"}) = FALSE
      BY <1>2
    <3>2. admitted'[r] = (stage'[r] \in {"admitted", "matched", "running"})
      BY <1>3, <3>1, Zenon
    <3> QED
      BY <1>1, <1>2, <3>2 DEF StageFacts
  <2> QED
    BY <1>1, <1>2, <1>3, <2>1, OthersKeepFacts
<1>11. Backed'
  <2>1. Unowned \subseteq Unowned'
    BY <1>1 DEF Unowned
  <2>2. \A q \in Req : (stage'[q] = "admitted") <=> (stage[q] = "admitted")
    BY <1>1, <1>2
  <2>3. entitled' <= entitled
    BY <1>1, <1>6
  <2> QED
    BY <1>1, <1>4, <1>7, <2>1, <2>2, <2>3, BackedKept
<1>12. Sound(content', primary', hold', reserved', assigned', drawn')
  BY <1>1 DEF IInv
<1> QED
  BY <1>7, <1>8, <1>9, <1>10, <1>11, <1>12 DEF IInv

\* The blocks of a retired sequence go; the counter has nothing of it any more.
LEMMA ReleaseStep ==
    ASSUME IInv, NEW r \in Req, Release(r)
    PROVE  IInv'
<1>1. /\ stage[r] = "retired"
      /\ assigned' = [assigned EXCEPT ![r] = <<>>] /\ drawn' = [drawn EXCEPT ![r] = <<>>]
      /\ DropTo(hold, reserved, assigned', drawn') /\ stage' = [stage EXCEPT ![r] = "done"]
      /\ UNCHANGED <<hold, reserved, admitted, entitled, gate, want>>
  BY DEF Release, Goto, account, turn
<1>2. /\ stage' \in [Req -> Stages] /\ stage'[r] = "done"
      /\ \A q \in Req : q # r => stage'[q] = stage[q]
  BY <1>1, Types DEF Stages
<1>3. /\ assigned' \in [Req -> Seq(Block)] /\ drawn' \in [Req -> Seq(Block)]
      /\ assigned'[r] = <<>> /\ drawn'[r] = <<>>
      /\ \A q \in Req : q # r => assigned'[q] = assigned[q] /\ drawn'[q] = drawn[q]
  <2>1. <<>> \in Seq(Block)
    OBVIOUS
  <2> QED
    BY <2>1, <1>1, Types
<1>4. TypeOK /\ CounterExact /\ CreditRedeemed /\ OneAdmitting /\ Backed /\ StageFacts(r)
  BY DEF IInv
<1>5. ~admitted[r] /\ entitled \in Nat
  BY <1>1, <1>4, Types DEF StageFacts
<1>6. \A q \in Req : Initial(assigned'[q], assigned[q]) /\ Initial(drawn'[q], drawn[q])
  <2>1. \A q \in Req : /\ Initial(assigned[q], assigned[q]) /\ Initial(<<>>, assigned[q])
                       /\ Initial(drawn[q], drawn[q]) /\ Initial(<<>>, drawn[q])
    BY Types, InitialParts
  <2> QED
    BY <2>1, <1>3
<1>7. /\ content' \in [Block -> Hash \cup {NoHash}] /\ primary' \in [Block -> Block \cup {NoBlock}]
      /\ Sound(content', primary', hold', reserved', assigned', drawn')
      /\ \A q \in Req : \A b \in Ran(hold[q]) : primary'[b] = primary[b]
  <2>1. \A q \in Req : Initial(hold[q], hold[q])
    BY Types, InitialParts
  <2>2. Fewer(hold, reserved, assigned, drawn, hold', reserved', assigned', drawn')
    BY <2>1, <1>1, <1>6 DEF Fewer
  <2>3. DropTo(hold', reserved', assigned', drawn')
    BY <1>1
  <2>4. hold' \in [Req -> Seq(Block)] /\ reserved' \in [Req -> SUBSET Block]
    BY <1>1, Types
  <2> QED
    BY <2>2, <2>3, <2>4, <1>1, <1>3, DropStep
<1>8. \A q \in Req : Len(assigned'[q]) + Len(drawn'[q]) <= Life[q]
  <2>1. Len(assigned'[r]) + Len(drawn'[r]) <= Life[r]
    BY <1>3, Numbers
  <2> QED
    BY <2>1, <1>3, Types
<1>9. CounterExact'
  <2>1. /\ admitted \in [Req -> BOOLEAN] /\ admitted' \in [Req -> BOOLEAN]
        /\ assigned \in [Req -> Seq(Block)] /\ drawn \in [Req -> Seq(Block)]
        /\ \A q \in Req : Len(assigned[q]) + Len(drawn[q]) <= Life[q]
        /\ \A q \in Req : admitted'[q] = admitted[q]
    BY <1>1, Types
  <2>2. \A q \in Req : q # r => Len(assigned'[q]) + Len(drawn'[q]) = Len(assigned[q]) + Len(drawn[q])
    BY <1>3
  <2>3. Owing(admitted, assigned, drawn)[r] = 0 /\ Owing(admitted', assigned', drawn')[r] = 0
    BY <1>1, <1>5 DEF Owing
  <2>4. entitled' = entitled - Owing(admitted, assigned, drawn)[r] + Owing(admitted', assigned', drawn')[r]
    BY <1>1, <1>5, <2>3
  <2> QED
    BY <1>3, <1>4, <1>8, <2>1, <2>2, <2>4, CounterStep
<1>10. TypeOK'
  BY <1>1, <1>2, <1>3, <1>4, <1>7, <1>8 DEF TypeOK, Resident
<1>11. CreditRedeemed' /\ OneAdmitting'
  <2>1. \A q \in Req : stage'[q] \in {"admitted", "matched"} => q # r /\ stage[q] = stage'[q]
    BY <1>2
  <2>2. CreditRedeemed'
    BY <1>1, <1>3, <1>4, <2>1 DEF CreditRedeemed
  <2>3. OneAdmitting'
    BY <1>4, <2>1 DEF OneAdmitting, Admitting
  <2> QED
    BY <2>2, <2>3
<1>12. \A q \in Req : StageFacts(q)'
  <2>1. StageFacts(r)'
    BY <1>1, <1>2, <1>3, <1>4 DEF StageFacts
  <2> QED
    BY <1>1, <1>2, <1>3, <2>1, OthersKeepFacts
<1>13. Backed'
  <2>1. \A q \in Req : Ran(assigned'[q]) \subseteq Ran(assigned[q]) /\ Ran(drawn'[q]) \subseteq Ran(drawn[q])
    <3>1. Ran(<<>>) = {}
      BY DEF Ran
    <3> QED
      BY <3>1, <1>3
  <2>2. Unowned \subseteq Unowned'
    BY <2>1, <1>1 DEF Unowned
  <2>3. \A q \in Req : (stage'[q] = "admitted") <=> (stage[q] = "admitted")
    BY <1>1, <1>2
  <2>4. entitled' \in Nat /\ entitled' <= entitled
    BY <1>1, <1>5
  <2> QED
    BY <1>1, <1>4, <1>7, <2>2, <2>3, <2>4, BackedKept
<1> QED
  BY <1>7, <1>9, <1>10, <1>11, <1>12, <1>13 DEF IInv

\* The credit of the one request between its admission and its match.
LEMMA OneCredit ==
    ASSUME TypeOK, NEW r \in Req, {q \in Req : stage[q] = "admitted"} = {r}
    PROVE  /\ CreditPending = Len(hold[r])
           /\ Credited = Ran(hold[r]) \cup Behind(Ran(hold[r]), primary)
<1>1. Len(hold[r]) \in Nat
  BY DEF TypeOK
<1>2. UNION {{q} \X (1..Len(hold[q])) : q \in {p \in Req : stage[p] = "admitted"}} = {r} \X (1..Len(hold[r]))
  OBVIOUS
<1>3. Cardinality({r} \X (1..Len(hold[r]))) = Len(hold[r])
  BY <1>1, Row
<1>4. CreditPending = Len(hold[r])
  BY <1>2, <1>3 DEF CreditPending
<1> QED
  BY <1>4 DEF Credited

\* The match redeems the hold: for each block of it the cache still has a
\* canonical block, the block itself or the one it is a duplicate of, and there
\* is only one per content.
LEMMA HoldRedeemed ==
    ASSUME IInv, NEW r \in Req, Len(hold[r]) <= Cap[r]
    PROVE  /\ Len(hold[r]) <= Len(Hits(r, Cap[r]))
           /\ \A i \in 1..Len(hold[r]) :
                  Hits(r, Cap[r])[i] \in Ran(hold[r]) \cup Behind(Ran(hold[r]), primary)
<1>a. PICK hits : hits = Hits(r, Cap[r])
  OBVIOUS
<1>b. PICK own : own = Ran(hold[r]) \cup Behind(Ran(hold[r]), primary)
  OBVIOUS
<1>1. /\ Len(hits) \in 0..Cap[r]
      /\ \A i \in 1..Len(hits) : hits[i] \in Canonical(Chain[r][i])
      /\ \A k \in 0..Cap[r] : (\A i \in 1..k : Canonical(Chain[r][i]) # {}) => k <= Len(hits)
  <2>1. Cap[r] \in Nat /\ Cap[r] <= Len(Chain[r])
    BY Numbers
  <2> QED
    BY <1>a, <2>1, HitsFacts
<1>2. Sound(content, primary, hold, reserved, assigned, drawn)
  BY DEF IInv
<1>3. ASSUME NEW i \in 1..Len(hold[r])
      PROVE  \E x \in own : x \in Canonical(Chain[r][i])
  <2>1. hold[r][i] \in Block /\ hold[r][i] \in Ran(hold[r])
    BY PinsAreFilled DEF Ran
  <2>2. content[hold[r][i]] = Chain[r][i]
    BY <1>2 DEF Sound, Filled
  <2>3. CASE primary[hold[r][i]] = NoBlock
    BY <1>b, <2>1, <2>2, <2>3 DEF Canonical
  <2>4. CASE primary[hold[r][i]] # NoBlock
    <3>1. /\ primary[hold[r][i]] \in Block
          /\ content[primary[hold[r][i]]] = Chain[r][i] /\ primary[primary[hold[r][i]]] = NoBlock
      BY <1>2, <2>1, <2>2, <2>4 DEF Sound, Duplicates
    <3>2. primary[hold[r][i]] \in own
      BY <1>b, <2>1, <2>4 DEF Behind
    <3> QED
      BY <3>1, <3>2 DEF Canonical
  <2> QED
    BY <2>3, <2>4
<1>4. Len(hold[r]) \in 0..Cap[r]
  BY Types, Numbers
<1>5. Len(hold[r]) <= Len(hits)
  <2>1. \A i \in 1..Len(hold[r]) : Canonical(Chain[r][i]) # {}
    BY <1>3
  <2> QED
    BY <1>1, <1>4, <2>1
<1>6. ASSUME NEW i \in 1..Len(hold[r]) PROVE hits[i] \in own
  <2>1. PICK x \in own : x \in Canonical(Chain[r][i])
    BY <1>3
  <2>2. i \in 1..Len(hits) /\ i \in 1..Len(Chain[r])
    BY <1>1, <1>4, <1>5, Numbers
  <2>3. hits[i] \in Canonical(Chain[r][i])
    BY <1>1, <2>2
  <2>4. Chain[r][i] # NoHash
    BY <2>2, Numbers
  <2>5. hits[i] = x
    BY <2>1, <2>3, <2>4, <1>2 DEF Sound, OneCanonical, Canonical
  <2> QED
    BY <2>5
<1> QED
  BY <1>a, <1>b, <1>5, <1>6

\* The blocks of a sequence past its first c positions.
LEMMA RestBound ==
    ASSUME NEW s \in Seq(Block), NEW c \in Nat, c <= Len(s)
    PROVE  \E X : /\ IsFiniteSet(X) /\ Cardinality(X) <= Len(s) - c
                  /\ \A i \in 1..Len(s) : i > c => s[i] \in X
<1>a. PICK t : t = SubSeq(s, c + 1, Len(s))
  OBVIOUS
<1>1. /\ t \in Seq(Block) /\ Len(t) = Len(s) - c
      /\ \A j \in 1..(Len(s) - c) : t[j] = s[c + j]
  BY <1>a
<1>2. IsFiniteSet(Ran(t)) /\ Cardinality(Ran(t)) <= Len(s) - c
  BY <1>1, RanBound
<1>3. ASSUME NEW i \in 1..Len(s), i > c PROVE s[i] \in Ran(t)
  <2>1. i - c \in 1..(Len(s) - c) /\ c + (i - c) = i
    BY <1>3
  <2>2. t[i - c] = s[i] /\ i - c \in 1..Len(t)
    BY <1>1, <2>1
  <2> QED
    BY <2>2 DEF Ran
<1> QED
  BY <1>2, <1>3

\* The match: of the blocks it takes, those of the hold were credited to the
\* request, and each other one is a promise kept.
LEMMA MatchPrefixStep ==
    ASSUME IInv, NEW r \in Req, MatchPrefix(r)
    PROVE  IInv'
<1>a. PICK hits : hits = Hits(r, Cap[r])
  OBVIOUS
<1>1. /\ stage[r] = "admitted" /\ gate = NoReq
      /\ assigned' = [assigned EXCEPT ![r] = hits] /\ entitled' = entitled - Len(assigned'[r])
      /\ stage' = [stage EXCEPT ![r] = "matched"]
      /\ UNCHANGED <<content, primary, hold, reserved, drawn, admitted, gate, want>>
  BY <1>a DEF MatchPrefix, Goto, store, turn
<1>2. /\ hits \in Seq(Block) /\ Len(hits) \in Nat /\ Len(hits) <= Cap[r]
      /\ \A i \in 1..Len(hits) : hits[i] \in Canonical(Chain[r][i])
  <2>1. Cap[r] \in Nat /\ Cap[r] <= Len(Chain[r])
    BY Numbers
  <2>2. /\ hits \in Seq(Block) /\ Len(hits) \in 0..Cap[r]
        /\ \A i \in 1..Len(hits) : hits[i] \in Canonical(Chain[r][i])
    BY <1>a, <2>1, HitsFacts
  <2> QED
    BY <2>1, <2>2
<1>3. /\ stage' \in [Req -> Stages] /\ stage'[r] = "matched"
      /\ \A q \in Req : q # r => stage'[q] = stage[q]
  BY <1>1, Types DEF Stages
<1>4. /\ assigned' \in [Req -> Seq(Block)] /\ assigned'[r] = hits
      /\ \A q \in Req : q # r => assigned'[q] = assigned[q]
  BY <1>1, <1>2, Types
<1>5. TypeOK /\ CounterExact /\ CreditRedeemed /\ OneAdmitting /\ Backed /\ StageFacts(r)
  BY DEF IInv
<1>6. admitted[r] /\ assigned[r] = <<>> /\ drawn[r] = <<>> /\ Len(hold[r]) <= Cap[r]
  BY <1>1, <1>5 DEF StageFacts
<1>7. /\ Len(hold[r]) <= Len(hits)
      /\ \A i \in 1..Len(hold[r]) : hits[i] \in Ran(hold[r]) \cup Behind(Ran(hold[r]), primary)
  BY <1>a, <1>6, HoldRedeemed
<1>8. {q \in Req : stage[q] = "admitted"} = {r} /\ {q \in Req : stage'[q] = "admitted"} = {}
  <2>1. \A q \in Req : stage[q] = "admitted" => q = r
    BY <1>1, <1>5 DEF OneAdmitting, Admitting
  <2> QED
    BY <2>1, <1>1, <1>3
<1>9. \A q \in Req : Len(assigned'[q]) + Len(drawn'[q]) <= Life[q]
  <2>1. Len(drawn'[r]) = 0 /\ Len(assigned'[r]) = Len(hits)
    BY <1>1, <1>4, <1>6
  <2>2. Len(assigned'[r]) + Len(drawn'[r]) <= Life[r]
    BY <2>1, <1>2, Numbers
  <2> QED
    BY <2>2, <1>1, <1>4, Types
<1>10. entitled' \in Nat /\ CounterExact'
  <2>1. /\ admitted \in [Req -> BOOLEAN] /\ admitted' \in [Req -> BOOLEAN]
        /\ assigned \in [Req -> Seq(Block)]
        /\ drawn \in [Req -> Seq(Block)] /\ drawn' \in [Req -> Seq(Block)]
        /\ \A q \in Req : Len(assigned[q]) + Len(drawn[q]) <= Life[q]
        /\ \A q \in Req : admitted'[q] = admitted[q]
    BY <1>1, Types
  <2>2. \A q \in Req : q # r => Len(assigned'[q]) + Len(drawn'[q]) = Len(assigned[q]) + Len(drawn[q])
    BY <1>1, <1>4
  <2>3. Owing(admitted, assigned, drawn)[r] = Life[r] - (Len(assigned[r]) + Len(drawn[r]))
    BY <1>6 DEF Owing
  <2>4. Owing(admitted', assigned', drawn')[r] = Life[r] - (Len(assigned'[r]) + Len(drawn'[r]))
    BY <1>1, <1>6 DEF Owing
  <2>5. /\ Len(assigned[r]) = 0 /\ Len(drawn[r]) = 0 /\ Len(drawn'[r]) = 0
        /\ Len(assigned'[r]) = Len(hits)
    BY <1>1, <1>4, <1>6
  <2>6. entitled' = entitled - Len(hits)
    BY <1>1, <1>4, Zenon
  <2>7. entitled - Len(hits) = entitled - (Life[r] - (0 + 0)) + (Life[r] - (Len(hits) + 0))
    <3>1. \A e, l, n \in Nat : e - n = e - (l - (0 + 0)) + (l - (n + 0))
      OBVIOUS
    <3>2. entitled \in Nat /\ Life[r] \in Nat
      BY Types, Numbers
    <3> QED
      BY <3>1, <3>2, <1>2, Zenon
  <2>8. entitled' = entitled - Owing(admitted, assigned, drawn)[r] + Owing(admitted', assigned', drawn')[r]
    BY <2>3, <2>4, <2>5, <2>6, <2>7, Zenon
  <2> QED
    BY <1>4, <1>5, <1>9, <2>1, <2>2, <2>8, CounterStep
<1>11. TypeOK'
  BY <1>1, <1>3, <1>4, <1>5, <1>9, <1>10 DEF TypeOK, Resident
<1>12. CreditRedeemed' /\ OneAdmitting'
  <2>1. \A q \in Req : stage'[q] \in {"admitted", "matched"} => stage[q] \in {"admitted", "matched"}
    BY <1>1, <1>3
  <2>2. OneAdmitting'
    BY <1>5, <2>1 DEF OneAdmitting, Admitting
  <2>3. CreditRedeemed'
    <3> SUFFICES ASSUME NEW q \in Req, stage'[q] = "matched" PROVE Len(assigned'[q]) >= Len(hold'[q])
      BY DEF CreditRedeemed
    <3>1. q = r
      BY <2>1, <1>1, <1>5 DEF OneAdmitting, Admitting
    <3>2. Len(hold[r]) \in Nat
      BY Types
    <3> QED
      BY <3>1, <3>2, <1>1, <1>2, <1>4, <1>7
  <2> QED
    BY <2>2, <2>3
<1>13. \A q \in Req : StageFacts(q)'
  <2>1. StageFacts(r)'
    BY <1>1, <1>3, <1>5, <1>6 DEF StageFacts
  <2> QED
    BY <1>1, <1>3, <1>4, <2>1, OthersKeepFacts
<1>14. Sound(content', primary', hold', reserved', assigned', drawn')
  <2>1. Sound(content, primary, hold, reserved, assigned, drawn)
    BY DEF IInv
  <2>2. Filled(content, hold, assigned')
    <3>1. \A i \in 1..Len(hits) : content[hits[i]] # NoHash
      <4> SUFFICES ASSUME NEW i \in 1..Len(hits) PROVE content[hits[i]] # NoHash
        OBVIOUS
      <4>1. i \in 1..Len(Chain[r])
        BY <1>2, Numbers
      <4> QED
        BY <4>1, <1>2, Numbers DEF Canonical
    <3>2. \A q \in Req : \A i \in 1..Len(assigned'[q]) : content[assigned'[q][i]] # NoHash
      BY <3>1, <1>4, <2>1 DEF Sound, Filled
    <3> QED
      BY <3>2, <2>1 DEF Sound, Filled
  <2>3. Duplicates(content, primary, hold, assigned')
    <3>1. Ran(assigned[r]) = {}
      BY <1>6 DEF Ran
    <3>2. \A b : Kept(b, hold, assigned) => Kept(b, hold, assigned')
      BY <1>4, <3>1 DEF Kept
    <3> QED
      BY <2>1, <3>2 DEF Sound, Duplicates
  <2>4. Sound(content, primary, hold, reserved, assigned', drawn)
    BY <2>1, <2>2, <2>3 DEF Sound
  <2> QED
    BY <2>4, <1>1
<1>15. Backed'
  <2>1. /\ CreditPending = Len(hold[r])
        /\ Credited = Ran(hold[r]) \cup Behind(Ran(hold[r]), primary)
    BY <1>5, <1>8, OneCredit
  <2>2. Len(hold[r]) \in Nat /\ entitled \in Nat
    BY Types
  <2>3. PICK X : /\ IsFiniteSet(X) /\ Cardinality(X) <= Len(hits) - Len(hold[r])
                 /\ \A i \in 1..Len(hits) : i > Len(hold[r]) => hits[i] \in X
    BY <2>2, <1>2, <1>7, RestBound
  <2>4. Ran(hits) \subseteq Credited \cup X
    <3> SUFFICES ASSUME NEW i \in 1..Len(hits) PROVE hits[i] \in Credited \cup X
      BY DEF Ran
    <3>1. CASE i > Len(hold[r])
      BY <3>1, <2>3
    <3>2. CASE ~ (i > Len(hold[r]))
      <4>1. i \in 1..Len(hold[r])
        BY <3>2, <2>2, <1>2
      <4> QED
        BY <4>1, <2>1, <1>7
    <3> QED
      BY <3>1, <3>2
  <2>5. (Unowned \ Credited) \ X \subseteq Unowned'
    <3> SUFFICES ASSUME NEW b \in Unowned, b \notin Credited \cup X PROVE b \in Unowned'
      OBVIOUS
    <3>1. /\ b \in Block /\ b \notin Ran(hits)
          /\ \A q \in Req : b \notin reserved[q] /\ b \notin Ran(assigned[q]) /\ b \notin Ran(drawn[q])
      BY <2>4, UnownedFacts
    <3>2. \A q \in Req : b \notin Ran(assigned'[q])
      BY <3>1, <1>4
    <3> QED
      BY <3>1, <3>2, <1>1 DEF Unowned
  <2>6. IsFiniteSet(Unowned \ Credited) /\ IsFiniteSet(Unowned')
    <3>1. Unowned' \subseteq Block
      BY DEF Unowned
    <3> QED
      BY <3>1, UnownedFacts, PoolAssumption, FS_Subset
  <2>7. Cardinality(Unowned \ Credited) \in Nat /\ Cardinality(Unowned') \in Nat
    BY <2>6, FS_CardinalityType
  <2>8. Len(hits) - Len(hold[r]) \in Nat
    BY <2>2, <1>2, <1>7
  <2>9. Cardinality(Unowned') >= Cardinality(Unowned \ Credited) - (Len(hits) - Len(hold[r]))
    BY <2>3, <2>5, <2>6, <2>8, Shrink
  <2>10. Cardinality(Unowned \ Credited) + Len(hold[r]) >= entitled
    BY <2>1, <1>1, <1>5 DEF Backed
  <2>11. Cardinality(Unowned') + 0 >= entitled'
    <3>1. \A u, w, c, l, e \in Nat : (u >= w - (l - c) /\ w + c >= e) => u + 0 >= e - l
      OBVIOUS
    <3>2. entitled' = entitled - Len(hits)
      BY <1>1, <1>4, Zenon
    <3> QED
      BY <3>1, <3>2, <2>2, <2>7, <2>9, <2>10, <1>2, Zenon
  <2>12. Credited' = {}
    BY <1>8 DEF Credited
  <2>13. CreditPending' = 0
    <3>1. UNION {{q} \X (1..Len(hold'[q])) : q \in {p \in Req : stage'[p] = "admitted"}} = {}
      BY <1>8
    <3> QED
      BY <3>1, FS_EmptySet DEF CreditPending
  <2>14. Unowned' \ Credited' = Unowned' /\ gate' = NoReq
    BY <2>12, <1>1
  <2> QED
    BY <2>11, <2>13, <2>14 DEF Backed
<1> QED
  BY <1>10, <1>11, <1>12, <1>13, <1>14, <1>15 DEF IInv

-----------------------------------------------------------------------------
(* The theorems.                                                           *)

\* Nothing is held, promised or pinned at the start.
LEMMA InitStep == Init => IInv
<1> SUFFICES ASSUME Init PROVE IInv
  OBVIOUS
<1>1. PICK f \in [Block -> Cached \cup {NoHash}] :
          (\A a, b \in Block : a # b /\ f[a] = f[b] => f[a] = NoHash) /\ content = f
  BY DEF Init
<1>2. /\ primary = [b \in Block |-> NoBlock] /\ stage = [r \in Req |-> "new"]
      /\ hold = [r \in Req |-> <<>>] /\ reserved = [r \in Req |-> {}]
      /\ assigned = [r \in Req |-> <<>>] /\ drawn = [r \in Req |-> <<>>]
      /\ admitted = [r \in Req |-> FALSE] /\ entitled = 0 /\ gate = NoReq /\ want = 0
  BY DEF Init
<1>3. \A r \in Req : /\ stage[r] = "new" /\ hold[r] = <<>> /\ reserved[r] = {}
                     /\ assigned[r] = <<>> /\ drawn[r] = <<>>
                     /\ Len(hold[r]) = 0 /\ Len(assigned[r]) = 0 /\ Len(drawn[r]) = 0
  BY <1>2
<1>4. \A r \in Req : admitted[r] = FALSE
  BY <1>2
<1>5. Cardinality(Block) \in Nat /\ \A r \in Req : Life[r] \in Nat
  BY PoolAssumption, FS_CardinalityType
<1>6. TypeOK
  <2>1. content \in [Block -> Hash \cup {NoHash}] /\ primary \in [Block -> Block \cup {NoBlock}]
    BY <1>1, <1>2, PoolAssumption
  <2>2. <<>> \in Seq(Block)
    OBVIOUS
  <2>3. /\ hold \in [Req -> Seq(Block)] /\ reserved \in [Req -> SUBSET Block]
        /\ assigned \in [Req -> Seq(Block)] /\ drawn \in [Req -> Seq(Block)]
        /\ stage \in [Req -> Stages] /\ admitted \in [Req -> BOOLEAN]
    BY <2>2, <1>2 DEF Stages
  <2>4. ASSUME NEW r \in Req PROVE Resident(r) <= Life[r]
    <3>1. Len(assigned[r]) = 0 /\ Len(drawn[r]) = 0 /\ Life[r] \in Nat
      BY <1>3, <1>5
    <3>2. \A n \in Nat : 0 + 0 <= n
      OBVIOUS
    <3> QED
      BY <3>1, <3>2, Zenon DEF Resident
  <2>5. entitled \in Nat /\ gate \in Req \cup {NoReq} /\ want \in 0..Cardinality(Block)
    BY <1>2, <1>5
  <2> QED
    BY <2>1, <2>3, <2>4, <2>5 DEF TypeOK
<1>7. CounterExact
  <2>1. {p \in Req : admitted[p]} = {}
    BY <1>4, Zenon
  <2>2. Promised = {}
    BY <2>1 DEF Promised
  <2> QED
    BY <2>2, <1>2, FS_EmptySet DEF CounterExact
<1>8. CreditRedeemed /\ SchedulerFree /\ OneAdmitting
  BY <1>3 DEF CreditRedeemed, SchedulerFree, OneAdmitting, Admitting
<1>9. Sound(content, primary, hold, reserved, assigned, drawn)
  <2>1. OneCanonical(content, primary)
    BY <1>1 DEF OneCanonical
  <2>2. Duplicates(content, primary, hold, assigned)
    BY <1>2 DEF Duplicates
  <2>3. Filled(content, hold, assigned)
    <3>1. \A r \in Req : Len(Chain[r]) \in Nat
      BY Numbers
    <3> QED
      BY <1>3, <3>1 DEF Filled
  <2>4. Raw(content, reserved, drawn)
    BY <1>3 DEF Raw
  <2>5. \A r \in Req : Ran(drawn[r]) = {}
    BY <1>3 DEF Ran
  <2>6. Exclusive(reserved, drawn)
    BY <1>3, <2>5 DEF Exclusive
  <2> QED
    BY <2>1, <2>2, <2>3, <2>4, <2>6 DEF Sound
<1>10. ASSUME NEW r \in Req PROVE StageFacts(r)
  <2>1. (stage[r] \in {"admitted", "matched", "running"}) = FALSE
    BY <1>3
  <2>2. admitted[r] = (stage[r] \in {"admitted", "matched", "running"})
    BY <1>4, <2>1, Zenon
  <2> QED
    BY <1>3, <2>2 DEF StageFacts
<1>11. Backed
  <2>1. CreditPending = 0
    BY <1>8, NoCredit
  <2>2. IsFiniteSet(Unowned \ Credited)
    BY UnownedFacts, FS_Subset
  <2>3. Cardinality(Unowned \ Credited) \in Nat
    BY <2>2, FS_CardinalityType
  <2>4. Cardinality(Unowned \ Credited) + CreditPending >= entitled
    BY <2>1, <2>3, <1>2
  <2> QED
    BY <2>4, <1>2 DEF Backed
<1> QED
  BY <1>6, <1>7, <1>8, <1>9, <1>10, <1>11 DEF IInv

\* Every step keeps the invariant.
LEMMA NextStep == IInv /\ [Next]_vars => IInv'
<1> SUFFICES ASSUME IInv, [Next]_vars PROVE IInv'
  OBVIOUS
<1>1. CASE EvictInactive
  BY <1>1, EvictStep
<1>2. ASSUME NEW r \in Req, ProbePrefix(r) PROVE IInv'
  BY <1>2, ProbePrefixStep
<1>3. ASSUME NEW r \in Req, NEW n \in Counts, ReserveCheck(r, n) PROVE IInv'
  BY <1>3, ReserveCheckStep
<1>4. ASSUME NEW r \in Req, ReserveTake(r) PROVE IInv'
  BY <1>4, ReserveTakeStep
<1>5. ASSUME NEW r \in Req, StartLoad(r) PROVE IInv'
  BY <1>5, StartLoadStep
<1>6. ASSUME NEW r \in Req, LoadFails(r) \/ LateLoadSettles(r) PROVE IInv'
  BY <1>6, GiveUpStep
<1>7. ASSUME NEW r \in Req, CommitLoaded(r) PROVE IInv'
  BY <1>7, CommitLoadedStep
<1>8. ASSUME NEW r \in Req, Finish(r) PROVE IInv'
  BY <1>8, FinishStep
<1>9. ASSUME NEW r \in Req, Cancel(r) PROVE IInv'
  BY <1>9, CancelStep
<1>10. ASSUME NEW r \in Req, Shed(r) \/ DropHold(r) PROVE IInv'
  BY <1>10, DropHoldStep
<1>11. ASSUME NEW r \in Req, TryAdmit(r) PROVE IInv'
  BY <1>11, TryAdmitStep
<1>12. ASSUME NEW r \in Req, MatchPrefix(r) PROVE IInv'
  BY <1>12, MatchPrefixStep
<1>13. ASSUME NEW r \in Req, NEW k \in Counts, Draw(r, k) PROVE IInv'
  BY <1>13, DrawStep
<1>14. ASSUME NEW r \in Req, RegisterDrawn(r) PROVE IInv'
  BY <1>14, RegisterDrawnStep
<1>15. ASSUME NEW r \in Req, NEW k \in Counts, ReturnDrawn(r, k) PROVE IInv'
  BY <1>15, ReturnDrawnStep
<1>16. ASSUME NEW r \in Req, Retire(r) PROVE IInv'
  BY <1>16, RetireStep
<1>17. ASSUME NEW r \in Req, Release(r) PROVE IInv'
  BY <1>17, ReleaseStep
<1>18. CASE UNCHANGED vars
  BY <1>18 DEF vars, IInv, TypeOK, CounterExact, CreditRedeemed, StageFacts, OneAdmitting, Backed,
               Resident, Promised, Remaining, Admitting, Unowned, Credited, CreditPending
<1> QED
  BY <1>1, <1>2, <1>3, <1>4, <1>5, <1>6, <1>7, <1>8, <1>9, <1>10, <1>11, <1>12, <1>13, <1>14, <1>15,
     <1>16, <1>17, <1>18 DEF Next

\* The invariant, for any requests, chains, lifetimes and pool size.
THEOREM PoolInvariant == Spec => []IInv
BY InitStep, NextStep, PTL DEF Spec

\* The types: no sequence outgrows its lifetime and the signed counter of
\* BlockPool never goes below zero, so its reader's clamp never acts.
THEOREM PoolTypes == Spec => []TypeOK
<1>1. IInv => TypeOK
  BY DEF IInv
<1> QED
  BY PoolInvariant, <1>1, PTL

\* BlockPool::entitled is, at every moment another thread can read it, the
\* number of blocks that admitted requests may still draw.
THEOREM CounterExactHolds == Spec => []CounterExact
<1>1. IInv => CounterExact
  BY DEF IInv
<1> QED
  BY PoolInvariant, <1>1, PTL

\* What try_admit credited a request's hold for, match_and_add_prefix redeems.
THEOREM CreditRedeemedHolds == Spec => []CreditRedeemed
<1>1. IInv => CreditRedeemed
  BY DEF IInv
<1> QED
  BY PoolInvariant, <1>1, PTL

\* Reservations and sequences never eat into what admitted requests are owed.
THEOREM FloorCoveredHolds == Spec => []FloorCovered
<1>1. IInv => FloorCovered
  <2> SUFFICES ASSUME IInv PROVE FloorCovered
    OBVIOUS
  <2>1. /\ Cardinality(Unowned \ Credited) <= Cardinality(Unowned)
        /\ Cardinality(Unowned \ Credited) \in Nat /\ Cardinality(Unowned) \in Nat
    BY UnownedFacts, Grow
  <2>2. CreditPending \in Nat /\ want \in Nat /\ entitled \in Nat
    BY CreditNatural, Types DEF IInv
  <2>3. Backed
    BY DEF IInv
  <2>4. CASE gate = NoReq
    BY <2>1, <2>2, <2>3, <2>4 DEF Backed, FloorCovered
  <2>5. CASE gate # NoReq
    BY <2>1, <2>2, <2>3, <2>5 DEF Backed, FloorCovered
  <2> QED
    BY <2>4, <2>5
<1> QED
  BY PoolInvariant, <1>1, PTL
===============================================================================
