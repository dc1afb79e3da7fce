------------------------- MODULE BlockRegistryProofs -------------------------
(***************************************************************************)
(* A hash has one canonical registration, and its Create and Remove events *)
(* are balanced, for any number of hashes, handles and clones.             *)
(***************************************************************************)
EXTENDS BlockRegistry, FiniteSetTheorems, TLAPS

\* Only an unused address has no hash, and only a live object has handles.
ObjectShape ==
    \A a \in Handle :
        /\ handles[a].phase # "unused" => handles[a].hash \in Hash
        /\ handles[a].phase = "live" <=> handles[a].refs > 0

IInv == TypeOK /\ ObjectShape /\ CanonicalRegistration

USE RegistryAssumption DEF Phases, NoObject, Fresh, TypeOK, ObjectShape, CanonicalRegistration

\* The inductive invariant holds of an empty registry.
LEMMA InitInv == Init => IInv
  BY DEF Init, IInv

\* Every step of a registration, a clone or any stage of a Drop preserves it.
LEMMA NextInv == IInv /\ [Next]_vars => IInv'
<1> SUFFICES ASSUME IInv, [Next]_vars PROVE IInv'
  OBVIOUS
<1> USE DEF IInv
<1>1. CASE UNCHANGED vars
  BY <1>1 DEF vars
<1>2. ASSUME NEW h \in Hash, Acquire(h) PROVE IInv'
  BY <1>2 DEF Acquire, Upgrades
<1>3. ASSUME NEW h \in Hash, NEW a \in Handle, Register(h, a) PROVE IInv'
  BY <1>3 DEF Register, Upgrades, Vacant
<1>4. ASSUME NEW a \in Handle, CloneHandle(a) PROVE IInv'
  BY <1>4 DEF CloneHandle
<1>5. ASSUME NEW a \in Handle, DropHandle(a) PROVE IInv'
  <2> DEFINE ph == IF handles[a].refs = 1 THEN "dropping" ELSE "live"
             mid == [handles EXCEPT ![a].refs = @ - 1]
  <2>1. /\ handles[a].phase = "live" /\ handles[a].hash \in Hash
        /\ handles[a].refs \in 1..MaxRefs /\ entry[handles[a].hash] = a
    BY <1>5 DEF DropHandle
  <2>2. /\ handles' = [mid EXCEPT ![a].phase = ph]
        /\ UNCHANGED <<entry, balance>>
    BY <1>5 DEF DropHandle
  <2>3. mid \in [Handle -> [phase : Phases, hash : Hash \cup {NoHash}, refs : 0..MaxRefs]]
    BY <2>1
  <2>4. /\ mid[a].refs = handles[a].refs - 1 /\ mid[a].hash = handles[a].hash
        /\ \A c \in Handle : c # a => mid[c] = handles[c]
    OBVIOUS
  <2> HIDE DEF mid
  <2>5. handles' \in [Handle -> [phase : Phases, hash : Hash \cup {NoHash}, refs : 0..MaxRefs]]
    BY <2>2, <2>3
  <2>6. /\ handles'[a].phase = ph /\ handles'[a].refs = handles[a].refs - 1
        /\ handles'[a].hash = handles[a].hash
        /\ \A c \in Handle : c # a => handles'[c] = handles[c]
    BY <2>2, <2>3, <2>4
  <2> QED
    BY <2>1, <2>2, <2>5, <2>6
<1>6. ASSUME NEW a \in Handle, Unregister(a) PROVE IInv'
  BY <1>6 DEF Unregister
<1>7. ASSUME NEW a \in Handle, Close(a) PROVE IInv'
  BY <1>7 DEF Close
<1> HIDE DEF IInv
<1> QED
  BY <1>1, <1>2, <1>3, <1>4, <1>5, <1>6, <1>7 DEF Next

\* A live handle is the one every lookup of its hash returns: an older handle
\* that is still being dropped never unregisters it.
THEOREM OneRegistrationPerHash == Spec => [](TypeOK /\ CanonicalRegistration)
<1>1. IInv => TypeOK /\ CanonicalRegistration
  BY DEF IInv
<1> QED
  BY <1>1, InitInv, NextInv, PTL DEF Spec

\* Every map entry, handle and counter has its type: no strong count goes below
\* zero, however Drops and upgrades interleave.
THEOREM RegistryTypes == Spec => []TypeOK
  BY OneRegistrationPerHash, PTL

-----------------------------------------------------------------------------
(* The events *)

\* The objects of a hash that are not completely gone.
Objects(h) == {a \in Handle : handles[a].hash = h}

\* An address nobody uses belongs to no hash.
UnusedBlank == \A a \in Handle : handles[a].phase = "unused" => handles[a].hash = NoHash

BInv == UnusedBlank /\ EventsBalanced

\* The objects of a hash are finitely many.
LEMMA ObjectsFinite ==
    ASSUME NEW h \in Hash
    PROVE  IsFiniteSet(Objects(h)) /\ Cardinality(Objects(h)) \in Nat
<1>1. Objects(h) \in SUBSET Handle
  BY DEF Objects
<1>2. IsFiniteSet(Objects(h))
  BY <1>1, FiniteAddresses, FS_Subset
<1> QED
  BY <1>2, FS_CardinalityType

\* An empty registry has sent nothing.
LEMMA InitEvents == Init => BInv
<1> SUFFICES ASSUME Init PROVE BInv
  OBVIOUS
<1>1. UnusedBlank
  BY DEF Init, UnusedBlank
<1>2. ASSUME NEW h \in Hash PROVE balance[h] = 0 /\ Objects(h) = {}
  BY DEF Init, Objects
<1>3. EventsBalanced
  BY <1>2, FS_EmptySet DEF EventsBalanced, Objects
<1> QED
  BY <1>1, <1>3 DEF BInv

\* A step that leaves every object's hash and the events alone keeps the balance.
LEMMA QuietEvents ==
    ASSUME EventsBalanced, UNCHANGED balance,
           \A a \in Handle : handles'[a].hash = handles[a].hash
    PROVE  EventsBalanced'
<1>1. ASSUME NEW h \in Hash PROVE Objects(h)' = Objects(h)
  BY DEF Objects
<1> QED
  BY <1>1 DEF EventsBalanced, Objects

\* Create is sent with the object's birth.
LEMMA RegisterEvents ==
    ASSUME IInv, BInv, NEW g \in Hash, NEW a \in Handle, Register(g, a)
    PROVE  BInv'
<1>1. handles[a].hash = NoHash /\ handles' = [handles EXCEPT ![a] = Fresh(g)]
      /\ balance' = [balance EXCEPT ![g] = IF g \in Emitting THEN @ + 1 ELSE @]
  BY DEF BInv, UnusedBlank, Register, Vacant
<1>2. UnusedBlank'
  BY <1>1 DEF IInv, BInv, UnusedBlank
<1>3. a \notin Objects(g) /\ Objects(g)' = Objects(g) \cup {a}
  BY <1>1 DEF IInv, Objects
<1>4. Cardinality(Objects(g)') = Cardinality(Objects(g)) + 1
  BY <1>3, ObjectsFinite, FS_AddElement
<1>5. ASSUME NEW h \in Hash, h # g PROVE Objects(h)' = Objects(h) /\ balance'[h] = balance[h]
  BY <1>1, <1>5 DEF IInv, Objects
<1>6. balance'[g] = IF g \in Emitting THEN balance[g] + 1 ELSE balance[g]
  BY <1>1 DEF IInv
<1>7. EventsBalanced'
  BY <1>4, <1>5, <1>6 DEF BInv, EventsBalanced, Objects
<1> QED
  BY <1>2, <1>7 DEF BInv

\* Remove is sent with the object's last step.
LEMMA CloseEvents ==
    ASSUME IInv, BInv, NEW a \in Handle, Close(a)
    PROVE  BInv'
<1>1. PICK g \in Hash : g = handles[a].hash
  BY DEF IInv, Close
<1>2. /\ handles' = [handles EXCEPT ![a] = NoObject]
      /\ balance' = [balance EXCEPT ![g] = IF g \in Emitting THEN @ - 1 ELSE @]
  BY <1>1 DEF Close
<1>3. UnusedBlank'
  BY <1>2 DEF IInv, BInv, UnusedBlank
<1>4. a \in Objects(g) /\ Objects(g)' = Objects(g) \ {a}
  BY <1>1, <1>2 DEF IInv, Objects
<1>5. Cardinality(Objects(g)') = Cardinality(Objects(g)) - 1
  BY <1>4, ObjectsFinite, FS_RemoveElement
<1>6. ASSUME NEW h \in Hash, h # g PROVE Objects(h)' = Objects(h) /\ balance'[h] = balance[h]
  BY <1>1, <1>2, <1>6 DEF IInv, Objects
<1>7. balance'[g] = IF g \in Emitting THEN balance[g] - 1 ELSE balance[g]
  BY <1>2 DEF IInv
<1>8. EventsBalanced'
  BY <1>5, <1>6, <1>7 DEF BInv, EventsBalanced, Objects
<1> QED
  BY <1>3, <1>8 DEF BInv

\* Every other step changes neither an object's hash nor the events.
LEMMA NextEvents == IInv /\ BInv /\ [Next]_vars => BInv'
<1> SUFFICES ASSUME IInv, BInv, [Next]_vars PROVE BInv'
  OBVIOUS
<1>1. ASSUME UNCHANGED balance,
             \A a \in Handle : /\ handles'[a].hash = handles[a].hash
                               /\ handles'[a].phase = "unused" <=> handles[a].phase = "unused"
      PROVE BInv'
  BY <1>1, QuietEvents DEF BInv, UnusedBlank
<1>2. CASE UNCHANGED vars
  BY <1>1, <1>2 DEF vars
<1>3. ASSUME NEW h \in Hash, Acquire(h) PROVE BInv'
  BY <1>1, <1>3 DEF Acquire, Upgrades, IInv
<1>4. ASSUME NEW h \in Hash, NEW a \in Handle, Register(h, a) PROVE BInv'
  BY <1>4, RegisterEvents
<1>5. ASSUME NEW a \in Handle, CloneHandle(a) PROVE BInv'
  BY <1>1, <1>5 DEF CloneHandle, IInv
<1>6. ASSUME NEW a \in Handle, DropHandle(a) PROVE BInv'
  BY <1>1, <1>6 DEF DropHandle, IInv
<1>7. ASSUME NEW a \in Handle, Unregister(a) PROVE BInv'
  BY <1>1, <1>7 DEF Unregister, IInv
<1>8. ASSUME NEW a \in Handle, Close(a) PROVE BInv'
  BY <1>8, CloseEvents
<1> QED
  BY <1>2, <1>3, <1>4, <1>5, <1>6, <1>7, <1>8 DEF Next

\* Create minus Remove events of a hash count its objects that are not yet gone,
\* although Remove is sent after the lock is given back (EventReleaseHandle::drop)
\* and may come after the Create of a newer registration.
THEOREM EventsStayBalanced == Spec => []EventsBalanced
<1>1. BInv => EventsBalanced
  BY DEF BInv
<1>2. Spec => [](IInv /\ BInv)
  BY InitInv, NextInv, InitEvents, NextEvents, PTL DEF Spec
<1> QED
  BY <1>1, <1>2, PTL
=============================================================================
