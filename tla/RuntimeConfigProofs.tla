------------------------ MODULE RuntimeConfigProofs ------------------------
(***************************************************************************)
(* Proofs about the configuration lock and the published view.             *)
(*                                                                         *)
(* The properties are not inductive: they rest on who holds the lock at    *)
(* which point of a load or a replacement (LockInv), and on what a loader  *)
(* has read being what the file still holds, because nobody can replace    *)
(* the file while it holds the lock (DraftInv).                            *)
(***************************************************************************)
EXTENDS RuntimeConfig, FiniteSetTheorems, TLAPS

LoadPoints  == {"read", "number", "build", "publish", "done"}
WritePoints == {"write", "replace", "unlock"}

\* The writers that have still to replace the file.
ToCome == {w \in Writer : pc[w] \in {"wait", "write", "replace"}}

VersionBounded == file.version + Cardinality(ToCome) <= MaxVersion

-----------------------------------------------------------------------------
(* Types.                                                                  *)

\* What a loader has read by now is a version.
DraftFilled ==
    \A t \in Loader :
        /\ pc[t] \in {"number", "build", "publish"} => draft[t].content \in Version
        /\ pc[t] = "publish" => draft[t].identity \in Version

TypeInv == TypeOK /\ VersionBounded /\ DraftFilled

\* The writers that have not replaced the file are finitely many.
LEMMA WritersFinite ==
    /\ IsFiniteSet(ToCome) /\ Cardinality(ToCome) \in Nat
    /\ IsFiniteSet(ToCome') /\ Cardinality(ToCome') \in Nat
    /\ Cardinality(ToCome) <= Cardinality(Replacing) /\ Cardinality(Replacing) \in Nat
<1>1. ToCome \subseteq Replacing /\ IsFiniteSet(Replacing)
    BY ConfigLockAssumption, FS_Subset DEF ToCome, Replacing
<1> QED BY <1>1, ConfigLockAssumption, FS_Subset, FS_CardinalityType DEF ToCome

\* The configuration starts well typed.
LEMMA InitTyped == Init => TypeInv
<1> SUFFICES ASSUME Init PROVE TypeInv
    OBVIOUS
<1>1. ToCome = {}
    BY ConfigLockAssumption DEF Init, LockInit, ToCome, Thread
<1>2. Cardinality(ToCome) = 0
    BY <1>1, FS_EmptySet
<1>3. VersionBounded
    BY <1>2, ConfigLockAssumption DEF Init, LockInit, VersionBounded
<1>4. TypeOK
    BY ConfigLockAssumption
    DEF Init, LockInit, TypeOK, Mode, Part, Version, View, NoView, Draft, Thread
<1>5. DraftFilled
    BY DEF Init, LockInit, DraftFilled, Thread
<1> QED BY <1>3, <1>4, <1>5 DEF TypeInv

\* A step that starts no writer leaves none more to come.
LEMMA VersionStays ==
    ASSUME TypeInv, ToCome' \subseteq ToCome, file'.version = file.version
    PROVE  VersionBounded'
<1>1. Cardinality(ToCome') <= Cardinality(ToCome)
    BY WritersFinite, FS_Subset
<1> QED BY <1>1, WritersFinite, ConfigLockAssumption
        DEF TypeInv, TypeOK, VersionBounded, Version

\* Every step of a load keeps the types.
LEMMA LoadTyped ==
    ASSUME TypeInv, NEW t \in Loader, LoadStarts(t) \/ LoadRefused(t) \/ Load(t)
    PROVE  TypeInv'
<1> USE DEF TypeInv
<1> t \in Thread /\ t \notin Writer
    BY ConfigLockAssumption DEF Thread
<1>1. file' = file /\ temp' = temp
    BY DEF LoadStarts, LoadRefused, Load, LoadAcquires, LoadPolls, LoadTimesOut, ReadBody,
           ReadRejected, NumberView, BuildView, BuildRejected, Publish, LoadReturns,
           MarkUnavailable, fileVars, configVars
<1>2. \A w \in Writer : pc'[w] = pc[w]
    BY DEF LoadStarts, LoadRefused, Load, LoadAcquires, LoadPolls, LoadTimesOut, ReadBody,
           ReadRejected, NumberView, BuildView, BuildRejected, Publish, LoadReturns,
           MarkUnavailable, StartWaiting, GoTo, TypeOK, Thread
<1>3. VersionBounded'
    BY <1>1, <1>2, VersionStays DEF ToCome
<1>4. TypeOK'
  <2> USE <1>1 DEF TypeOK, lockVars, configVars, GoTo
  <2>1. CASE LoadStarts(t)
      BY <2>1, ConfigLockAssumption DEF LoadStarts, StartWaiting, Draft, NoView
  <2>2. CASE LoadAcquires(t)
      BY <2>2 DEF LoadAcquires, Acquire, Mode
  <2>3. CASE LoadPolls(t)
      BY <2>3, ConfigLockAssumption DEF LoadPolls, PollAgain
  <2>4. CASE LoadTimesOut(t) \/ LoadRefused(t)
      BY <2>4 DEF LoadTimesOut, LoadRefused
  <2>5. CASE ReadBody(t)
      BY <2>5 DEF ReadBody, Draft
  <2>6. CASE ReadRejected(t) \/ BuildRejected(t)
      BY <2>6 DEF ReadRejected, BuildRejected, Release, Mode
  <2>7. CASE NumberView(t)
      BY <2>7 DEF NumberView, Draft
  <2>8. CASE BuildView(t)
      BY <2>8 DEF BuildView, Draft
  <2>9. CASE Publish(t)
      BY <2>9 DEF Publish, DraftFilled, Draft, View
  <2>10. CASE LoadReturns(t)
      BY <2>10 DEF LoadReturns, Release, Mode
  <2>11. CASE MarkUnavailable(t)
      BY <2>11 DEF MarkUnavailable
  <2> QED BY <2>1, <2>2, <2>3, <2>4, <2>5, <2>6, <2>7, <2>8, <2>9, <2>10, <2>11 DEF Load
<1>5. DraftFilled'
  <2> USE <1>1 DEF TypeOK, DraftFilled, lockVars, configVars, GoTo, Thread, Draft
  <2>1. CASE LoadStarts(t) \/ LoadRefused(t) \/ LoadAcquires(t) \/ LoadPolls(t) \/ LoadTimesOut(t)
      BY <2>1 DEF LoadStarts, StartWaiting, LoadRefused, LoadAcquires, LoadPolls, LoadTimesOut
  <2>2. CASE ReadBody(t) \/ ReadRejected(t) \/ BuildRejected(t)
      BY <2>2 DEF ReadBody, ReadRejected, BuildRejected
  <2>3. CASE NumberView(t)
      BY <2>3 DEF NumberView
  <2>4. CASE BuildView(t)
      BY <2>4 DEF BuildView
  <2>5. CASE Publish(t) \/ LoadReturns(t) \/ MarkUnavailable(t)
      BY <2>5 DEF Publish, LoadReturns, MarkUnavailable
  <2> QED BY <2>1, <2>2, <2>3, <2>4, <2>5 DEF Load
<1> QED BY <1>3, <1>4, <1>5

\* Every step of a replacement keeps the types.
LEMMA WriteTyped ==
    ASSUME TypeInv, NEW w \in Writer, UNCHANGED configVars,
           WriterStarts(w) \/ Write(w) \/ WriterStops(w)
    PROVE  TypeInv'
<1> USE DEF TypeInv
<1> w \in Thread /\ w \notin Loader
    BY ConfigLockAssumption DEF Thread
<1>1. VersionBounded' /\ file' \in [version : Version, content : Part]
  <2>1. CASE WriterStarts(w)
    <3>1. ToCome' = ToCome \cup {w} /\ file' = file
        BY <2>1 DEF WriterStarts, StartWaiting, GoTo, ToCome, TypeOK, Thread, fileVars
    <3>2. Cardinality(ToCome') <= Cardinality(ToCome) + 1
        BY <3>1, WritersFinite, FS_AddElement
    <3> QED BY <2>1, <3>1, <3>2, WritersFinite, ConfigLockAssumption
            DEF WriterStarts, VersionBounded, TypeOK, Version
  <2>2. CASE ReplaceFile(w)
    <3>1. ToCome' = ToCome \ {w} /\ w \in ToCome
        BY <2>2 DEF ReplaceFile, GoTo, ToCome, TypeOK, Thread
    <3>2. Cardinality(ToCome') = Cardinality(ToCome) - 1
        BY <3>1, WritersFinite, FS_RemoveElement
    <3>3. file'.version = file.version + 1 /\ file'.content \in Part
        BY <2>2 DEF ReplaceFile, TypeOK
    <3>4. file' = [version |-> file'.version, content |-> file'.content]
        BY <2>2 DEF ReplaceFile
    <3> QED BY <3>2, <3>3, <3>4, WritersFinite, ConfigLockAssumption
            DEF VersionBounded, TypeOK, Version
  <2>3. CASE ~WriterStarts(w) /\ ~ReplaceFile(w)
    <3>1. ToCome' \subseteq ToCome /\ file' = file
        BY <2>3 DEF Write, WriterAcquires, WriterPolls, WriterTimesOut, WriteTemp,
               WriterReleases, WriterStops, Acquire, GoTo, ToCome, TypeOK, Thread, fileVars
    <3> QED BY <3>1, VersionStays DEF TypeOK
  <2> QED BY <2>1, <2>2, <2>3
<1>2. TypeOK'
  <2> USE <1>1 DEF TypeOK, lockVars, fileVars, configVars, GoTo
  <2>1. CASE WriterStarts(w)
      BY <2>1, ConfigLockAssumption DEF WriterStarts, StartWaiting
  <2>2. CASE WriterAcquires(w)
      BY <2>2 DEF WriterAcquires, Acquire, Mode
  <2>3. CASE WriterPolls(w)
      BY <2>3, ConfigLockAssumption DEF WriterPolls, PollAgain
  <2>4. CASE WriterTimesOut(w)
      BY <2>4 DEF WriterTimesOut
  <2>5. CASE WriteTemp(w)
      BY <2>5 DEF WriteTemp, Part
  <2>6. CASE ReplaceFile(w)
      BY <2>6 DEF ReplaceFile, Part
  <2>7. CASE WriterReleases(w)
      BY <2>7 DEF WriterReleases, Release, Mode
  <2>8. CASE WriterStops(w)
      BY <2>8 DEF WriterStops, Release, Mode, Part
  <2> QED BY <2>1, <2>2, <2>3, <2>4, <2>5, <2>6, <2>7, <2>8 DEF Write
<1>3. DraftFilled'
    BY DEF DraftFilled, TypeOK, Thread, configVars, WriterStarts, StartWaiting, Write,
           WriterAcquires, WriterPolls, WriterTimesOut, WriteTemp, ReplaceFile,
           WriterReleases, WriterStops, Acquire, GoTo, lockVars, fileVars
<1> QED BY <1>1, <1>2, <1>3

\* Every step keeps the types.
LEMMA NextTyped == TypeInv /\ [Next]_vars => TypeInv'
<1> SUFFICES ASSUME TypeInv, [Next]_vars PROVE TypeInv'
    OBVIOUS
<1>1. CASE UNCHANGED vars
    BY <1>1 DEF TypeInv, TypeOK, VersionBounded, DraftFilled, ToCome,
                vars, lockVars, fileVars, configVars
<1>2. CASE Next
    BY <1>2, LoadTyped, WriteTyped DEF Next
<1> QED BY <1>1, <1>2

\* Everything that the loads, the publication and the writers keep has its type:
\* _PUBLISHED, _GENERATION, the lock, the file and the temporary files.
THEOREM ConfigTyped == Spec => []TypeOK
<1>1. TypeInv => TypeOK
    BY DEF TypeInv
<1> QED BY <1>1, InitTyped, NextTyped, PTL DEF Spec

-----------------------------------------------------------------------------
(* Who holds the lock.                                                     *)

LockInv ==
    /\ \A t \in Loader :
           /\ pc[t] \in {"idle", "wait", "failed"} \cup LoadPoints
           /\ holding[t] = IF pc[t] \in LoadPoints THEN "shared" ELSE "none"
    /\ \A w \in Writer :
           /\ pc[w] \in {"idle", "wait"} \cup WritePoints
           /\ holding[w] = IF pc[w] \in WritePoints THEN "exclusive" ELSE "none"
           /\ pc[w] = "replace" => temp[w] = "whole"
    /\ FileWhole
    /\ LockExcludes

\* Every step of a load keeps the lock in order.
LEMMA LoadKeepsLock ==
    ASSUME TypeOK, LockInv, NEW t \in Loader, LoadStarts(t) \/ LoadRefused(t) \/ Load(t)
    PROVE  LockInv'
<1> USE DEF TypeOK, LockInv, LoadPoints, WritePoints, FileWhole, LockExcludes, Thread,
            lockVars, fileVars, configVars, GoTo
<1> t \in Thread /\ t \notin Writer
    BY ConfigLockAssumption
<1>1. CASE LoadStarts(t)
    BY <1>1 DEF LoadStarts, StartWaiting
<1>2. CASE LoadAcquires(t)
  <2>1. \A u \in Thread : holding[u] # "exclusive"
      BY <1>2 DEF LoadAcquires, Acquire, Conflict
  <2> QED BY <1>2, <2>1 DEF LoadAcquires, Acquire
<1>3. CASE LoadPolls(t) \/ LoadTimesOut(t) \/ LoadRefused(t)
    BY <1>3
       DEF LoadPolls, LoadTimesOut, LoadRefused, LockUnusable, PollAgain, NotAcquired,
           TimesOut, LockReplaced
<1>4. CASE ReadBody(t) \/ NumberView(t) \/ BuildView(t) \/ Publish(t)
    BY <1>4 DEF ReadBody, NumberView, BuildView, Publish
<1>5. CASE ReadRejected(t) \/ BuildRejected(t) \/ LoadReturns(t)
    BY <1>5 DEF ReadRejected, BuildRejected, LoadReturns, Release
<1>6. CASE MarkUnavailable(t)
    BY <1>6 DEF MarkUnavailable
<1> QED BY <1>1, <1>2, <1>3, <1>4, <1>5, <1>6 DEF Load

\* Every step of a replacement, a crash included, keeps the lock in order.
LEMMA WriteKeepsLock ==
    ASSUME TypeOK, LockInv, NEW w \in Writer,
           WriterStarts(w) \/ Write(w) \/ WriterStops(w)
    PROVE  LockInv'
<1> USE DEF TypeOK, LockInv, LoadPoints, WritePoints, FileWhole, LockExcludes, Thread,
            lockVars, fileVars, GoTo
<1> w \in Thread /\ w \notin Loader
    BY ConfigLockAssumption
<1>1. CASE WriterStarts(w)
    BY <1>1 DEF WriterStarts, StartWaiting
<1>2. CASE WriterAcquires(w)
  <2>1. \A u \in Thread \ {w} : holding[u] = "none"
      BY <1>2 DEF WriterAcquires, Acquire, Conflict, Mode
  <2> QED BY <1>2, <2>1 DEF WriterAcquires, Acquire
<1>3. CASE WriterPolls(w) \/ WriterTimesOut(w)
    BY <1>3
       DEF WriterPolls, WriterTimesOut, PollAgain, NotAcquired, TimesOut, LockReplaced
<1>4. CASE WriteTemp(w)
    BY <1>4 DEF WriteTemp
<1>5. CASE ReplaceFile(w)
    BY <1>5 DEF ReplaceFile
<1>6. CASE WriterReleases(w) \/ WriterStops(w)
    BY <1>6 DEF WriterReleases, WriterStops, Release
<1> QED BY <1>1, <1>2, <1>3, <1>4, <1>5, <1>6 DEF Write

\* The lock is in order in every reachable state.
LEMMA LockInOrder == Spec => []LockInv
<1>1. Init => LockInv
    BY ConfigLockAssumption
    DEF Init, LockInit, LockInv, LoadPoints, WritePoints, FileWhole, LockExcludes, Thread
<1>2. TypeOK /\ LockInv /\ [Next]_vars => LockInv'
  <2>1. CASE Next
      BY <2>1, LoadKeepsLock, WriteKeepsLock DEF Next
  <2>2. CASE UNCHANGED vars
      BY <2>2 DEF vars, lockVars, fileVars, LockInv, FileWhole, LockExcludes
  <2> QED BY <2>1, <2>2
<1> QED BY <1>1, <1>2, ConfigTyped, PTL DEF Spec

\* exclusive_atomic_replace_config never shows a reader half a file, also when a
\* writer dies between two of its steps.
THEOREM FileAlwaysWhole == Spec => []FileWhole
<1>1. LockInv => FileWhole
    BY DEF LockInv
<1> QED BY <1>1, LockInOrder, PTL

\* exclusive_atomic_replace_config replaces the file under its lock, and nobody
\* else has the lock then: whoever holds it has one file before it throughout.
THEOREM FileKeptForHolders == Spec => FileStillForHolders
<1>1. LockInv /\ [Next]_vars
          => [file' # file =>
                  \E w \in Writer :
                      /\ holding[w] = "exclusive" /\ pc[w] = "replace"
                      /\ \A t \in Thread \ {w} : holding[t] = "none"]_vars
  <2> SUFFICES ASSUME LockInv, Next, file' # file
               PROVE  \E w \in Writer :
                          /\ holding[w] = "exclusive" /\ pc[w] = "replace"
                          /\ \A t \in Thread \ {w} : holding[t] = "none"
      BY DEF vars, fileVars
  <2>1. PICK w \in Writer : ReplaceFile(w)
      BY DEF Next, Load, LoadStarts, LoadRefused, LoadAcquires, LoadPolls, LoadTimesOut,
             ReadBody, ReadRejected, NumberView, BuildView, BuildRejected, Publish,
             LoadReturns, MarkUnavailable, Write, WriterStarts, WriterStops,
             WriterAcquires, WriterPolls, WriterTimesOut, WriteTemp, WriterReleases, fileVars
  <2>2. holding[w] = "exclusive" /\ pc[w] = "replace"
      BY <2>1 DEF ReplaceFile, LockInv, WritePoints
  <2>3. \A t \in Thread \ {w} : holding[t] = "none"
      BY <2>2 DEF LockInv, LockExcludes, Thread
  <2> QED BY <2>2, <2>3
<1> QED BY <1>1, LockInOrder, PTL DEF Spec, FileStillForHolders

-----------------------------------------------------------------------------
(* What a load has read is what the file holds.                            *)

DraftInv ==
    /\ \A t \in Loader :
           /\ pc[t] \in {"number", "build", "publish"} =>
                  draft[t].content = file.version /\ file.version \notin Invalid
           /\ pc[t] = "publish" => draft[t].identity = file.version
    /\ PublishedIsOneVersion

\* Every step of a load keeps the drafts true.
LEMMA LoadKeepsDrafts ==
    ASSUME TypeOK, DraftInv, NEW t \in Loader, LoadStarts(t) \/ LoadRefused(t) \/ Load(t)
    PROVE  DraftInv'
<1> USE DEF TypeOK, DraftInv, PublishedIsOneVersion, Thread, Draft,
            lockVars, fileVars, configVars, GoTo
<1>1. CASE LoadStarts(t) \/ LoadRefused(t) \/ LoadAcquires(t) \/ LoadPolls(t) \/ LoadTimesOut(t)
    BY <1>1 DEF LoadStarts, StartWaiting, LoadRefused, LoadAcquires, LoadPolls, LoadTimesOut
<1>2. CASE ReadBody(t) \/ ReadRejected(t) \/ BuildRejected(t)
    BY <1>2 DEF ReadBody, ReadRejected, BuildRejected
<1>3. CASE NumberView(t) \/ BuildView(t)
    BY <1>3 DEF NumberView, BuildView
<1>4. CASE Publish(t)
    BY <1>4 DEF Publish
<1>5. CASE LoadReturns(t) \/ MarkUnavailable(t)
    BY <1>5 DEF LoadReturns, MarkUnavailable, NoView
<1> QED BY <1>1, <1>2, <1>3, <1>4, <1>5 DEF Load

\* No step of a writer changes the file under a load.
LEMMA WriteKeepsDrafts ==
    ASSUME TypeOK, LockInv, DraftInv, NEW w \in Writer, UNCHANGED configVars,
           WriterStarts(w) \/ Write(w) \/ WriterStops(w)
    PROVE  DraftInv'
<1> USE DEF TypeOK, DraftInv, PublishedIsOneVersion, configVars
<1> w \in Thread /\ w \notin Loader
    BY ConfigLockAssumption DEF Thread
<1>1. \A t \in Loader : pc'[t] = pc[t]
    BY DEF WriterStarts, Write, WriterStops, WriterAcquires, WriterPolls, WriterTimesOut,
           WriteTemp, ReplaceFile, WriterReleases, StartWaiting, GoTo, Thread
<1>2. CASE ReplaceFile(w)
  <2>1. \A t \in Loader : pc[t] \notin LoadPoints
      BY <1>2 DEF ReplaceFile, LockInv, LockExcludes, WritePoints, Thread
  <2> QED BY <1>1, <2>1 DEF LoadPoints
<1>3. CASE ~ReplaceFile(w)
  <2>1. file' = file
      BY <1>3 DEF WriterStarts, Write, WriterStops, WriterAcquires, WriterPolls,
             WriterTimesOut, WriteTemp, WriterReleases, fileVars
  <2> QED BY <1>1, <2>1
<1> QED BY <1>2, <1>3

\* The drafts are true in every reachable state.
LEMMA DraftsTrue == Spec => []DraftInv
<1>1. Init => DraftInv
    BY DEF Init, LockInit, DraftInv, PublishedIsOneVersion, Thread
<1>2. TypeOK /\ LockInv /\ DraftInv /\ [Next]_vars => DraftInv'
  <2>1. CASE Next
      BY <2>1, LoadKeepsDrafts, WriteKeepsDrafts DEF Next
  <2>2. CASE UNCHANGED vars
      BY <2>2 DEF vars, fileVars, configVars, DraftInv, PublishedIsOneVersion
  <2> QED BY <2>1, <2>2
<1> QED BY <1>1, <1>2, ConfigTyped, LockInOrder, PTL DEF Spec

\* The body and the identity of a published view, which load_and_publish_runtime
\* reads apart, are of one version of the file, and of a valid one.
THEOREM ViewsOfOneVersion == Spec => []PublishedIsOneVersion
<1>1. DraftInv => PublishedIsOneVersion
    BY DEF DraftInv
<1> QED BY <1>1, DraftsTrue, PTL

\* No load publishes a view of a version that has been replaced meanwhile.
THEOREM ViewsPublishedInTime == Spec => PublishedWhenCurrent
<1>1. DraftInv /\ [Next]_vars
          => [published' # published /\ published' # NoView =>
                  published'.content = file.version]_vars
  <2> SUFFICES ASSUME DraftInv, Next, published' # published, published' # NoView
               PROVE  published'.content = file.version
      BY DEF vars
  <2>1. PICK t \in Loader : Publish(t)
      BY DEF Next, Load, LoadStarts, LoadRefused, LoadAcquires, LoadPolls, LoadTimesOut,
             ReadBody, ReadRejected, NumberView, BuildView, BuildRejected, LoadReturns, MarkUnavailable, configVars
  <2> QED BY <2>1 DEF Publish, DraftInv
<1> QED BY <1>1, DraftsTrue, PTL DEF Spec, PublishedWhenCurrent

=============================================================================
