---------------------------- MODULE BlockRegistry ----------------------------
(***************************************************************************)
(* The registry of kvbm-logical (registry/mod.rs, registry/handle.rs) and  *)
(* the cache events it emits (events/manager.rs, events/protocol.rs).      *)
(*                                                                         *)
(* A sequence hash maps to a Weak of its registration handle.  Lookups and *)
(* registrations run under the lock of the hash's position; a handle's     *)
(* Drop takes the same lock, but only after its strong count is already    *)
(* zero, and its fields (the attachment that sends the Remove event among  *)
(* them) are dropped after that lock is given back.  A hash can therefore  *)
(* be registered again before, between and after those two steps.          *)
(***************************************************************************)
EXTENDS Integers, FiniteSets

CONSTANTS Hash,      \* sequence hashes
          Handle,    \* addresses of BlockRegistrationHandleInner allocations
          NoHash, NoHandle,
          Emitting,  \* hashes for which EventEmissionPolicy::should_emit holds
          MaxRefs    \* bound on the clones of one handle

ASSUME RegistryAssumption ==
    /\ NoHash \notin Hash /\ NoHandle \notin Handle
    /\ Emitting \subseteq Hash /\ MaxRefs \in Nat \ {0}

\* Addresses are finitely many.
ASSUME FiniteAddresses == IsFiniteSet(Handle)

VARIABLES
    entry,    \* Hash -> the Weak stored in the map, NoHandle when there is none
    handles,  \* Handle -> the object at that address
    balance   \* Hash -> Create events sent minus Remove events sent

vars == <<entry, handles, balance>>

Phases == {"unused", "live", "dropping", "closing"}
NoObject == [phase |-> "unused", hash |-> NoHash, refs |-> 0]
Fresh(h) == [phase |-> "live", hash |-> h, refs |-> 1]

Init ==
    /\ entry = [h \in Hash |-> NoHandle]
    /\ handles = [a \in Handle |-> NoObject]
    /\ balance = [h \in Hash |-> 0]

\* Weak::upgrade succeeds.
Upgrades(h) == entry[h] \in Handle /\ handles[entry[h]].phase = "live"
\* An address the allocator may hand out: a Weak keeps an allocation.
Vacant(a) == handles[a].phase = "unused" /\ \A h \in Hash : entry[h] # a

\* match_sequence_hash, and register_sequence_hash / transfer_registration of
\* a hash that has a live handle.
Acquire(h) ==
    /\ Upgrades(h) /\ handles[entry[h]].refs < MaxRefs
    /\ handles' = [handles EXCEPT ![entry[h]].refs = @ + 1]
    /\ UNCHANGED <<entry, balance>>

\* register_sequence_hash of a hash with no entry or a dead one; the Create
\* event is sent under the same lock.
Register(h, a) ==
    /\ ~Upgrades(h) /\ Vacant(a)
    /\ entry' = [entry EXCEPT ![h] = a]
    /\ handles' = [handles EXCEPT ![a] = Fresh(h)]
    /\ balance' = [balance EXCEPT ![h] = IF h \in Emitting THEN @ + 1 ELSE @]

CloneHandle(a) ==
    /\ handles[a].phase = "live" /\ handles[a].refs < MaxRefs
    /\ handles' = [handles EXCEPT ![a].refs = @ + 1]
    /\ UNCHANGED <<entry, balance>>

\* Mutant: a raw decrement that forgets the guard the count was taken for.
DropHandleTwice(a) ==
    /\ handles[a].phase = "live"
    /\ handles' = [handles EXCEPT ![a].refs = @ - 2,
                                  ![a].phase = IF handles[a].refs = 1 THEN "dropping" ELSE "live"]
    /\ UNCHANGED <<entry, balance>>

\* The strong count goes down; at zero the Drop is still to run.
DropHandle(a) ==
    /\ handles[a].phase = "live"
    /\ handles' = [handles EXCEPT ![a].refs = @ - 1,
                                  ![a].phase = IF handles[a].refs = 1 THEN "dropping" ELSE "live"]
    /\ UNCHANGED <<entry, balance>>

\* Mutant: the entry is removed whoever it points to.
UnregisterAny(a) ==
    /\ handles[a].phase = "dropping"
    /\ entry' = [entry EXCEPT ![handles[a].hash] = NoHandle]
    /\ handles' = [handles EXCEPT ![a].phase = "closing"]
    /\ UNCHANGED balance

\* Mutant: the dead entry is left for the next registration to replace.
UnregisterNever(a) ==
    /\ handles[a].phase = "dropping"
    /\ handles' = [handles EXCEPT ![a].phase = "closing"]
    /\ UNCHANGED <<entry, balance>>

\* Drop for BlockRegistrationHandleInner: remove the entry if it is still ours.
Unregister(a) ==
    /\ handles[a].phase = "dropping"
    /\ entry' = [entry EXCEPT ![handles[a].hash] = IF @ = a THEN NoHandle ELSE @]
    /\ handles' = [handles EXCEPT ![a].phase = "closing"]
    /\ UNCHANGED balance

\* Mutant: an event is sent for a hash the policy filters out.
CloseAlways(a) ==
    LET h == handles[a].hash IN
    /\ handles[a].phase = "closing"
    /\ handles' = [handles EXCEPT ![a] = NoObject]
    /\ balance' = [balance EXCEPT ![h] = @ - 1]
    /\ UNCHANGED entry

\* The fields go: the attached EventReleaseHandle sends Remove.
Close(a) ==
    LET h == handles[a].hash IN
    /\ handles[a].phase = "closing"
    /\ handles' = [handles EXCEPT ![a] = NoObject]
    /\ balance' = [balance EXCEPT ![h] = IF h \in Emitting THEN @ - 1 ELSE @]
    /\ UNCHANGED entry

Next ==
    \/ \E h \in Hash : Acquire(h) \/ \E a \in Handle : Register(h, a)
    \/ \E a \in Handle : CloneHandle(a) \/ DropHandle(a) \/ Unregister(a) \/ Close(a)

Spec == Init /\ [][Next]_vars

\* A Drop that has begun runs to its end.
Fairness == \A a \in Handle : WF_vars(Unregister(a)) /\ WF_vars(Close(a))
FairSpec == Spec /\ Fairness
-----------------------------------------------------------------------------
\* Every map entry and handle has its type; no reference count goes below zero.
TypeOK ==
    /\ entry \in [Hash -> Handle \cup {NoHandle}]
    /\ handles \in [Handle -> [phase : Phases, hash : Hash \cup {NoHash}, refs : 0..MaxRefs]]
    /\ balance \in [Hash -> Int]

\* A hash has one canonical registration: every live handle is the one a lookup
\* of its hash returns, however many older handles are still being dropped.
CanonicalRegistration ==
    \A a \in Handle : handles[a].phase = "live" => entry[handles[a].hash] = a

\* The events are balanced: one Remove is outstanding for every object that is
\* not completely gone, and none is sent for a hash the policy filters out.
EventsBalanced ==
    \A h \in Hash :
        balance[h] = IF h \in Emitting THEN Cardinality({a \in Handle : handles[a].hash = h})
                     ELSE 0

\* No dead entry stays in the map: it is removed or replaced by a live one.
DeadEntriesGo ==
    \A h \in Hash : (entry[h] # NoHandle /\ ~Upgrades(h)) ~> (entry[h] = NoHandle \/ Upgrades(h))
=============================================================================
