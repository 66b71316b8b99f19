------------------------- MODULE MarkerStoreProofs -------------------------
(***************************************************************************)
(* Theorems of MarkerStore, for every capacity, life and set of keys.      *)
(***************************************************************************)
EXTENDS MarkerStore, FiniteSetTheorems, TLAPS

LEMMA KeptType ==
    ASSUME NEW d \in Nat, now \in Nat
    PROVE  /\ Kept(d) \in Nat
           /\ Kept(d) = d \/ Kept(d) = 0
           /\ d > now => Kept(d) = d
           /\ d <= now => Kept(d) = 0
BY DEF Kept

LEMMA MarkerTypeInit == Init => TypeOK
BY DEF Init, TypeOK

LEMMA MarkerTypeNext == TypeOK /\ [Next]_vars => TypeOK'
<1> SUFFICES ASSUME TypeOK, [Next]_vars
             PROVE  TypeOK'
  OBVIOUS
<1> USE MarkerStoreAssumption
<1>1. Deadline \in Nat
  BY DEF TypeOK, Deadline
<1>2. /\ CleanEntries \in [Key -> Nat]
      /\ Kept(overflow_until) \in Nat /\ Kept(empty_until) \in Nat
  BY KeptType DEF TypeOK, CleanEntries
<1>3. CASE SetEmptyIdentity
  BY <1>1, <1>2, <1>3 DEF SetEmptyIdentity, TypeOK
<1>4. ASSUME NEW k \in Key, SetMarker(k)
      PROVE  TypeOK'
  BY <1>1, <1>2, <1>4 DEF SetMarker, CleanCircuits, TypeOK
<1>5. ASSUME NEW k \in Key, SetOverflow(k)
      PROVE  TypeOK'
  BY <1>1, <1>2, <1>5 DEF SetOverflow, TypeOK
<1>6. ASSUME NEW k \in Key, Consume(k)
      PROVE  TypeOK'
  BY <1>2, <1>6 DEF Consume, CleanCircuits, TypeOK
<1>7. ASSUME NEW k \in Key, Clear(k)
      PROVE  TypeOK'
  BY <1>7 DEF Clear, TypeOK
<1>8. CASE Read
  BY <1>2, <1>8 DEF Read, CleanCircuits, TypeOK
<1>9. CASE Tick
  BY <1>9 DEF Tick, TypeOK
<1>10. CASE UNCHANGED vars
  BY <1>10 DEF vars, TypeOK
<1> QED
  BY <1>3, <1>4, <1>5, <1>6, <1>7, <1>8, <1>9, <1>10 DEF Next

\* The variables keep their types.
THEOREM MarkersTyped == Spec => []TypeOK
BY MarkerTypeInit, MarkerTypeNext, PTL DEF Spec

-----------------------------------------------------------------------------
(* Nothing that must be refused gets through.                              *)

\* Nothing is owed for longer than one life from now: a circuit that opens
\* again never closes earlier than it would have.
OwedSoon == \A i \in Id : owed[i] <= now + TTL

CoverInv == TypeOK /\ OwedSoon /\ OwedIsCovered

LEMMA OwedSoonNext == TypeOK /\ OwedSoon /\ [Next]_vars => OwedSoon'
BY MarkerStoreAssumption
   DEF TypeOK, OwedSoon, Next, SetEmptyIdentity, SetMarker, SetOverflow, Consume,
       Clear, Read, Tick, vars, Deadline, Id

LEMMA CoverInvNext == CoverInv /\ [Next]_vars => CoverInv'
<1> SUFFICES ASSUME TypeOK, OwedSoon, OwedIsCovered, [Next]_vars
             PROVE  OwedIsCovered'
  BY MarkerTypeNext, OwedSoonNext DEF CoverInv
<1> USE MarkerStoreAssumption
<1> DEFINE Covered(k) == owed[k] > now =>
               entries[k] = owed[k] \/ overflow_until >= owed[k]
           EmptyCovered == owed[NoId] > now => empty_until >= owed[NoId]
\* A cleanup removes nothing that is owed for longer than now.
<1>1. ASSUME NEW k \in Key, owed[k] > now
      PROVE  CleanEntries[k] = owed[k] \/ Kept(overflow_until) >= owed[k]
  BY <1>1, KeptType DEF TypeOK, OwedIsCovered, CleanEntries, Kept, Id
<1>2. ASSUME owed[NoId] > now
      PROVE  Kept(empty_until) >= owed[NoId]
  BY <1>2, KeptType DEF TypeOK, OwedIsCovered, Kept, Id
<1>3. CASE SetEmptyIdentity
  <2>1. ASSUME NEW k \in Key
        PROVE  Covered(k)'
    BY <1>1, <1>3 DEF SetEmptyIdentity, TypeOK, Id
  <2>2. EmptyCovered'
    BY <1>3 DEF SetEmptyIdentity, TypeOK, Id, Deadline
  <2> QED
    BY <2>1, <2>2 DEF OwedIsCovered
<1>4. ASSUME NEW k \in Key, SetMarker(k)
      PROVE  OwedIsCovered'
  <2>1. CleanEntries \in [Key -> Nat]
    BY KeptType DEF TypeOK, CleanEntries
  <2>2. ASSUME NEW j \in Key
        PROVE  Covered(j)'
    BY <1>1, <1>4, <2>1 DEF SetMarker, CleanCircuits, TypeOK, Id
  <2>3. EmptyCovered'
    BY <1>2, <1>4 DEF SetMarker, CleanCircuits, TypeOK, Id
  <2> QED
    BY <2>2, <2>3 DEF OwedIsCovered
<1>5. ASSUME NEW k \in Key, SetOverflow(k)
      PROVE  OwedIsCovered'
  <2>1. ASSUME NEW j \in Key
        PROVE  Covered(j)'
    <3>1. CASE j = k
      BY <1>5, <3>1 DEF SetOverflow, TypeOK, Id, Deadline
    <3>2. CASE j # k
      <4>1. ASSUME owed[j] > now
            PROVE  CleanEntries[j] = owed[j] \/ Deadline >= owed[j]
        BY <1>1, <4>1 DEF TypeOK, OwedSoon, Deadline, Id
      <4> QED
        BY <1>5, <3>2, <4>1 DEF SetOverflow, TypeOK, Id
    <3> QED
      BY <3>1, <3>2
  <2>2. EmptyCovered'
    BY <1>2, <1>5 DEF SetOverflow, TypeOK, Id
  <2> QED
    BY <2>1, <2>2 DEF OwedIsCovered
<1>6. ASSUME NEW k \in Key, Consume(k)
      PROVE  OwedIsCovered'
  <2>1. CleanEntries \in [Key -> Nat]
    BY KeptType DEF TypeOK, CleanEntries
  <2>2. ASSUME NEW j \in Key
        PROVE  Covered(j)'
    BY <1>1, <1>6, <2>1 DEF Consume, CleanCircuits, TypeOK, Id
  <2>3. EmptyCovered'
    BY <1>2, <1>6 DEF Consume, CleanCircuits, TypeOK, Id
  <2> QED
    BY <2>2, <2>3 DEF OwedIsCovered
<1>7. ASSUME NEW k \in Key, Clear(k)
      PROVE  OwedIsCovered'
  BY <1>7 DEF Clear, OwedIsCovered, TypeOK, Id
<1>8. CASE Read
  BY <1>1, <1>2, <1>8 DEF Read, CleanCircuits, OwedIsCovered
<1>9. CASE Tick
  BY <1>9 DEF Tick, OwedIsCovered, TypeOK, Id
<1>10. CASE UNCHANGED vars
  BY <1>10 DEF vars, OwedIsCovered
<1> QED
  BY <1>3, <1>4, <1>5, <1>6, <1>7, <1>8, <1>9, <1>10 DEF Next

\* A call that must be refused is refused.
THEOREM MarkersFailClosed == Spec => []NoFailOpen
<1>1. Init => CoverInv
  BY MarkerStoreAssumption, MarkerTypeInit
     DEF Init, CoverInv, OwedSoon, OwedIsCovered, Id
<1>2. CoverInv => NoFailOpen
  <2> SUFFICES ASSUME TypeOK, OwedIsCovered, NEW i \in Id, owed[i] > now
               PROVE  ReferencePathBlocked(i)
    BY DEF CoverInv, NoFailOpen
  <2>1. now \in Nat /\ owed[i] \in Nat
    BY DEF TypeOK
  <2>2. CASE i = NoId
    <3>1. empty_until \in Nat /\ empty_until > now
      BY <2>1, <2>2 DEF TypeOK, OwedIsCovered
    <3> QED
      BY <2>1, <2>2, <3>1 DEF ReferencePathBlocked, Kept
  <2>3. CASE i \in Key /\ entries[i] = owed[i]
    <3>1. CleanEntries[i] # 0
      BY <2>1, <2>3 DEF CleanEntries, Kept
    <3> QED
      BY <2>3, <3>1 DEF ReferencePathBlocked, Marked
  <2>4. CASE i \in Key /\ overflow_until >= owed[i]
    <3>1. overflow_until \in Nat /\ overflow_until > now
      BY <2>1, <2>4 DEF TypeOK
    <3> QED
      BY <2>1, <3>1 DEF ReferencePathBlocked, Kept
  <2> QED
    BY <2>2, <2>3, <2>4 DEF OwedIsCovered, Id
<1> QED
  BY <1>1, <1>2, CoverInvNext, PTL DEF Spec

-----------------------------------------------------------------------------
(* No marker outlives its call.                                            *)

LEMMA NoStaleNext == TypeOK /\ NoStaleMarker /\ [Next]_vars => NoStaleMarker'
<1> SUFFICES ASSUME TypeOK, NoStaleMarker, [Next]_vars, NEW j \in Key
             PROVE  (entries[j] > now => entries[j] = owed[j])'
  BY DEF NoStaleMarker
<1> USE MarkerStoreAssumption
<1>1. \/ CleanEntries[j] = entries[j]
      \/ CleanEntries[j] = 0
  BY KeptType DEF TypeOK, CleanEntries
<1>2. CASE SetEmptyIdentity \/ Read
  BY <1>1, <1>2 DEF SetEmptyIdentity, Read, NoStaleMarker, TypeOK, Id
<1>3. ASSUME NEW k \in Key, SetMarker(k) \/ SetOverflow(k) \/ Consume(k)
      PROVE  (entries[j] > now => entries[j] = owed[j])'
  <2>1. CASE SetMarker(k)
    BY <1>1, <2>1 DEF SetMarker, NoStaleMarker, TypeOK, Id, CleanEntries
  <2>2. CASE SetOverflow(k)
    BY <1>1, <2>2 DEF SetOverflow, NoStaleMarker, TypeOK, Id, Marked
  <2>3. CASE Consume(k)
    BY <1>1, <2>3 DEF Consume, NoStaleMarker, TypeOK, Id, CleanEntries
  <2> QED
    BY <1>3, <2>1, <2>2, <2>3
<1>4. ASSUME NEW k \in Key, Clear(k)
      PROVE  (entries[j] > now => entries[j] = owed[j])'
  BY <1>4 DEF Clear, NoStaleMarker, TypeOK, Id
<1>5. CASE Tick \/ UNCHANGED vars
  BY <1>5 DEF Tick, vars, NoStaleMarker, TypeOK
<1> QED
  BY <1>2, <1>3, <1>4, <1>5 DEF Next

\* A marker in force is one that is owed.
THEOREM MarkersNotStale == Spec => []NoStaleMarker
<1>1. Init => NoStaleMarker
  BY DEF Init, NoStaleMarker
<1> QED
  BY <1>1, MarkerTypeInit, MarkerTypeNext, NoStaleNext, PTL DEF Spec

-----------------------------------------------------------------------------
(* The bound on the markers.                                               *)

Held == {k \in Key : entries[k] # 0}

HeldInv == TypeOK /\ IsFiniteSet(Held) /\ MarkersBounded

LEMMA HeldInvNext == HeldInv /\ [Next]_vars => HeldInv'
<1> SUFFICES ASSUME HeldInv, [Next]_vars
             PROVE  IsFiniteSet(Held') /\ Cardinality(Held') <= Capacity
  BY MarkerTypeNext DEF HeldInv, MarkersBounded, Held
<1> USE MarkerStoreAssumption
<1>1. TypeOK /\ IsFiniteSet(Held) /\ Cardinality(Held) <= Capacity /\ Cardinality(Held) \in Nat
  BY FS_CardinalityType DEF HeldInv, MarkersBounded, Held
<1>2. Marked \subseteq Held
  BY <1>1 DEF Marked, Held, CleanEntries, Kept
<1>3. IsFiniteSet(Marked) /\ Cardinality(Marked) \in Nat /\ Cardinality(Marked) <= Cardinality(Held)
  BY <1>1, <1>2, FS_Subset, FS_CardinalityType
\* Every method but set() leaves at most the markers there are.
<1>4. ASSUME Held' \subseteq Held
      PROVE  IsFiniteSet(Held') /\ Cardinality(Held') <= Capacity
  <2>1. IsFiniteSet(Held') /\ Cardinality(Held') <= Cardinality(Held)
    BY <1>1, <1>4, FS_Subset
  <2> QED
    BY <1>1, <2>1, FS_CardinalityType
<1>5. ASSUME NEW k \in Key, SetMarker(k)
      PROVE  IsFiniteSet(Held') /\ Cardinality(Held') <= Capacity
  <2>1. Held' \subseteq Marked \cup {k}
    <3>1. CleanEntries \in [Key -> Nat]
      BY <1>1, KeptType DEF TypeOK, CleanEntries
    <3> QED
      BY <1>5, <3>1 DEF SetMarker, Held, Marked
  <2>2. /\ IsFiniteSet(Marked \cup {k})
        /\ Cardinality(Marked \cup {k}) <= Capacity
    <3>1. CASE k \in Marked
      <4>1. Marked \cup {k} = Marked
        BY <3>1
      <4> QED
        BY <1>1, <1>3, <4>1
    <3>2. CASE k \notin Marked
      <4>1. Cardinality(Marked) < Capacity
        BY <1>5, <3>2 DEF SetMarker
      <4>2. /\ IsFiniteSet(Marked \cup {k})
            /\ Cardinality(Marked \cup {k}) = Cardinality(Marked) + 1
        BY <1>3, <3>2, FS_AddElement
      <4> QED
        BY <1>3, <4>1, <4>2
    <3> QED
      BY <3>1, <3>2
  <2>3. IsFiniteSet(Held') /\ Cardinality(Held') <= Cardinality(Marked \cup {k})
    BY <2>1, <2>2, FS_Subset
  <2> QED
    BY <2>2, <2>3, FS_CardinalityType
<1>6. \A k \in Key : CleanEntries[k] # 0 => entries[k] # 0
  BY <1>1 DEF CleanEntries, Kept
<1>7. CASE SetEmptyIdentity \/ Read \/ \E k \in Key : SetOverflow(k)
  <2>1. entries' = CleanEntries
    BY <1>7 DEF SetEmptyIdentity, Read, SetOverflow
  <2> QED
    BY <1>4, <1>6, <2>1 DEF Held
<1>8. ASSUME NEW k \in Key, Consume(k) \/ Clear(k)
      PROVE  IsFiniteSet(Held') /\ Cardinality(Held') <= Capacity
  <2>1. \A j \in Key : entries'[j] # 0 => entries[j] # 0
    <3>1. CleanEntries \in [Key -> Nat]
      BY <1>1, KeptType DEF TypeOK, CleanEntries
    <3> QED
      BY <1>1, <1>6, <1>8, <3>1 DEF Consume, Clear, TypeOK
  <2> QED
    BY <1>4, <2>1 DEF Held
<1>9. CASE Tick \/ UNCHANGED vars
  BY <1>4, <1>9 DEF Tick, vars, Held
<1> QED
  BY <1>5, <1>7, <1>8, <1>9 DEF Next

\* The store never keeps more markers than its capacity, the stale ones included.
THEOREM MarkersStayBounded == Spec => []MarkersBounded
<1>1. Init => HeldInv
  <2> SUFFICES ASSUME Init PROVE Held = {}
    BY MarkerTypeInit, FS_EmptySet, MarkerStoreAssumption DEF HeldInv, MarkersBounded, Held
  <2> QED
    BY DEF Init, Held
<1>2. HeldInv => MarkersBounded
  BY DEF HeldInv
<1> QED
  BY <1>1, <1>2, HeldInvNext, PTL DEF Spec

=============================================================================
