---------------------------- MODULE MarkerStore ----------------------------
(***************************************************************************)
(* The bounded store of invalid markers (invalid_marker_store.py).         *)
(*                                                                         *)
(* A tool call that names a credential and cannot be analysed gets a       *)
(* marker, so that approval and execution refuse it although no plan says  *)
(* so.  When the store is full no marker is evicted: a circuit opens that  *)
(* refuses every call on the reference path for a marker's whole life.  A  *)
(* call without a session or a tool_call_id has no key and opens a circuit *)
(* of its own.  Every method holds the store's lock for its whole body.    *)
(*                                                                         *)
(* 0 stands for None: the clock starts at 0, every deadline is later.      *)
(*                                                                         *)
(* A definition marked "mutant" is not part of the model: it is a wrong    *)
(* version of the definition below it, kept to test the properties.        *)
(***************************************************************************)
EXTENDS Integers, FiniteSets

CONSTANTS
    Key,         \* keys (session_id, tool_call_id), neither part empty
    NoId,        \* an identity of which a part is empty
    Capacity,    \* the store's capacity
    TTL,         \* a marker's life, in seconds
    MaxTime      \* bound on the clock

ASSUME MarkerStoreAssumption ==
    /\ NoId \notin Key
    /\ Capacity \in Nat \ {0}
    /\ TTL \in Nat \ {0}
    /\ MaxTime \in Nat

VARIABLES
    entries,         \* _entries: each marker's deadline, or 0
    overflow_until,  \* _overflow_until
    empty_until,     \* _empty_identity_until
    now,             \* the monotonic clock
    owed             \* history: until when a call must be refused, or 0

vars == <<entries, overflow_until, empty_until, now, owed>>

-----------------------------------------------------------------------------

Id == Key \cup {NoId}

Deadline == now + TTL

\* _cleanup_locked.
KeptAsRemaining(deadline) == deadline - now           \* mutant
Kept(deadline) == IF deadline <= now THEN 0 ELSE deadline
CleanEntries   == [k \in Key |-> Kept(entries[k])]
CleanCircuits  ==
    /\ overflow_until' = Kept(overflow_until)
    /\ empty_until' = Kept(empty_until)

Marked == {k \in Key : CleanEntries[k] # 0}

\* reference_path_blocked, as it answers after its cleanup.
ReferencePathBlocked(i) ==
    \/ Kept(overflow_until) # 0
    \/ i = NoId /\ Kept(empty_until) # 0
    \/ i \in Marked

Init ==
    /\ entries = [k \in Key |-> 0]
    /\ overflow_until = 0
    /\ empty_until = 0
    /\ now = 0
    /\ owed = [i \in Id |-> 0]

-----------------------------------------------------------------------------
(* set: no identity, a marker to refresh or with room for it, or no room.   *)

SetEmptyIdentity ==
    /\ entries' = CleanEntries
    /\ overflow_until' = Kept(overflow_until)
    /\ empty_until' = Deadline
    /\ owed' = [owed EXCEPT ![NoId] = Deadline]
    /\ UNCHANGED now

SetMarkerOneTooMany(k) ==                             \* mutant
    /\ k \in Marked \/ Cardinality(Marked) <= Capacity
    /\ entries' = [CleanEntries EXCEPT ![k] = Deadline]
    /\ CleanCircuits
    /\ owed' = [owed EXCEPT ![k] = Deadline]
    /\ UNCHANGED now
SetMarker(k) ==
    /\ k \in Marked \/ Cardinality(Marked) < Capacity
    /\ entries' = [CleanEntries EXCEPT ![k] = Deadline]
    /\ CleanCircuits
    /\ owed' = [owed EXCEPT ![k] = Deadline]
    /\ UNCHANGED now

SetOverflowOnce(k) ==                                 \* mutant
    /\ k \notin Marked /\ Cardinality(Marked) >= Capacity
    /\ entries' = CleanEntries
    /\ overflow_until' = IF Kept(overflow_until) = 0 THEN Deadline ELSE overflow_until
    /\ empty_until' = Kept(empty_until)
    /\ owed' = [owed EXCEPT ![k] = Deadline]
    /\ UNCHANGED now
SetOverflow(k) ==
    /\ k \notin Marked /\ Cardinality(Marked) >= Capacity
    /\ entries' = CleanEntries
    /\ overflow_until' = Deadline
    /\ empty_until' = Kept(empty_until)
    /\ owed' = [owed EXCEPT ![k] = Deadline]
    /\ UNCHANGED now

\* consume takes the marker of a call that is being refused.
ConsumeKeeps(k) ==                                    \* mutant
    /\ entries' = CleanEntries
    /\ CleanCircuits
    /\ owed' = [owed EXCEPT ![k] = 0]
    /\ UNCHANGED now
Consume(k) ==
    /\ entries' = [CleanEntries EXCEPT ![k] = 0]
    /\ CleanCircuits
    /\ owed' = [owed EXCEPT ![k] = 0]
    /\ UNCHANGED now

\* clear removes the marker of a call that was analysed after all.  It is the
\* one method without a cleanup.
Clear(k) ==
    /\ entries' = [entries EXCEPT ![k] = 0]
    /\ owed' = [owed EXCEPT ![k] = 0]
    /\ UNCHANGED <<overflow_until, empty_until, now>>

\* get, reference_path_blocked, is_overflow_active, is_empty_identity_blocked,
\* snapshot, and consume without an identity: a cleanup and an answer.
Read ==
    /\ entries' = CleanEntries
    /\ CleanCircuits
    /\ UNCHANGED <<now, owed>>

Tick ==
    /\ now < MaxTime
    /\ now' = now + 1
    /\ UNCHANGED <<entries, overflow_until, empty_until, owed>>

Next ==
    \/ SetEmptyIdentity
    \/ \E k \in Key : SetMarker(k)
    \/ \E k \in Key : SetOverflow(k)
    \/ \E k \in Key : Consume(k)
    \/ \E k \in Key : Clear(k)
    \/ Read
    \/ Tick

Spec == Init /\ [][Next]_vars

-----------------------------------------------------------------------------
(* Properties.                                                             *)

\* Types of all variables.
TypeOK ==
    /\ entries \in [Key -> Nat]
    /\ overflow_until \in Nat
    /\ empty_until \in Nat
    /\ now \in Nat
    /\ owed \in [Id -> Nat]

\* Fail closed: a call that was marked, and whose marker was neither cleared
\* nor consumed, is refused for the marker's whole life, whether the store had
\* room for the marker, was full, or could not even name the call.
NoFailOpen ==
    \A i \in Id : owed[i] > now => ReferencePathBlocked(i)

\* The store keeps at most Capacity markers, the stale ones included.
MarkersBounded ==
    Cardinality({k \in Key : entries[k] # 0}) <= Capacity

\* A marker that is still in force belongs to a call that must be refused, and
\* lapses when it should: none outlives the clear or the consume of its call,
\* to refuse a later call of the same key.
NoStaleMarker ==
    \A k \in Key : entries[k] > now => entries[k] = owed[k]

\* Why no call slips through: a marker that is owed is in the store, or a
\* circuit stays open at least as long.
OwedIsCovered ==
    /\ \A k \in Key : owed[k] > now =>
           entries[k] = owed[k] \/ overflow_until >= owed[k]
    /\ owed[NoId] > now => empty_until >= owed[NoId]

=============================================================================
