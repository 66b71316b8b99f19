------------------------ MODULE TargetCatalogProofs ------------------------
(***************************************************************************)
(* Proofs about the sidecar and the transactions that write it.            *)
(*                                                                         *)
(* The invariant says who holds the lock at which point of a generation, a *)
(* replacement or a registration (LockInv), and how far what a thread has  *)
(* read by now is still what the file holds (ReadInv): nobody replaces the *)
(* file under a generator's shared lock, and an edit by hand is caught by  *)
(* the next look, or torn.                                                 *)
(***************************************************************************)
EXTENDS TargetCatalog, FiniteSetTheorems, WellFoundedInduction, TLAPS

Tasks       == {"replace", "generate", "prepare"}
Kinds       == {"private", "link", "readable"}
Drafts      == [seen : Nat, fd : Nat, bindings : Nat, before : Nat, identity : Nat, when : Nat]
Generating  == Failing \cup {"written"}
Registering == {"look", "read", "after"}
Committing  == {"write", "replace", "unlock"}
Points      == {"idle", "wait"} \cup Generating \cup Registering \cup Committing

\* The writers that have still to replace the file.
ToCome == {w \in Writer : task[w] = "replace" /\ pc[w] \in {"wait", "write", "replace"}}

TypeOK ==
    /\ holding \in [Thread -> Mode]
    /\ pc \in [Thread -> Points]
    /\ file.version \in Version
    /\ task \in [Thread -> Tasks]
    /\ disk \in [inode : Version, kind : Kinds]
    /\ bytes \in [Version -> Version]
    /\ catalog \in [bindings : Nat, identity : Nat]
    /\ draft \in [Thread -> Drafts]
    /\ state \in [Loader -> Int]
    /\ outcome \in [Writer -> {"none", "ok", "partial"}]
    /\ committed \in [Writer -> Nat]
    /\ torn \in BOOLEAN

\* A descriptor that is open is that of a version.
OpenIsVersion ==
    \A t \in Thread :
        task[t] = "generate" /\ pc[t] \in {"again", "read", "verify"} => draft[t].fd \in Version

TypeInv == TypeOK /\ OpenIsVersion /\ file.version + Cardinality(ToCome) <= MaxVersion

-----------------------------------------------------------------------------
(* Types.                                                                  *)

\* The writers that have not replaced the file are finitely many.
LEMMA ToComeFinite ==
    /\ IsFiniteSet(ToCome) /\ Cardinality(ToCome) \in Nat
    /\ IsFiniteSet(ToCome') /\ Cardinality(ToCome') \in Nat
    /\ Cardinality(ToCome) <= Cardinality(Replacing) /\ Cardinality(Replacing) \in Nat
<1>1. ToCome \subseteq Replacing /\ Replacing \subseteq Writer /\ ToCome' \subseteq Writer
  BY DEF ToCome, Replacing
<1>2. IsFiniteSet(Replacing) /\ IsFiniteSet(ToCome')
  BY <1>1, ConfigLockAssumption, FS_Subset
<1>3. IsFiniteSet(ToCome) /\ Cardinality(ToCome) <= Cardinality(Replacing)
  BY <1>1, <1>2, FS_Subset
<1>4. Cardinality(ToCome) \in Nat
  BY <1>3, FS_CardinalityType
<1>5. Cardinality(ToCome') \in Nat
  BY <1>2, FS_CardinalityType
<1>6. Cardinality(Replacing) \in Nat
  BY <1>2, FS_CardinalityType
<1> QED
  BY <1>2, <1>3, <1>4, <1>5, <1>6

\* A step that starts no writer leaves none more to come.
LEMMA VersionStays ==
    ASSUME TypeInv, ToCome' \subseteq ToCome, file'.version = file.version
    PROVE  file'.version + Cardinality(ToCome') <= MaxVersion
<1>1. Cardinality(ToCome') <= Cardinality(ToCome)
  BY ToComeFinite, FS_Subset
<1>2. file.version \in Nat /\ MaxVersion \in Nat /\ file.version + Cardinality(ToCome) <= MaxVersion
  BY ConfigLockAssumption DEF TypeInv, TypeOK, Version
<1> QED
  BY <1>1, <1>2, ToComeFinite

\* Nothing is waited for or read at first.
LEMMA TypeInit == Init => TypeInv
<1> SUFFICES ASSUME Init PROVE TypeInv
  OBVIOUS
<1>1. ToCome = {}
  BY DEF Init, ToCome, Thread
<1>2. Cardinality(ToCome) = 0
  BY <1>1, FS_EmptySet
<1>3. TypeOK
  <2>1. NoDraft \in Drafts /\ NoCatalog \in [bindings : Nat, identity : Nat] /\ Unprepared \in Int
    BY DEF NoDraft, Drafts, NoCatalog, Unprepared
  <2>2. 1 \in Version
    BY ConfigLockAssumption DEF Version
  <2> QED
    BY <2>1, <2>2 DEF Init, LockInit, TypeOK, Mode, Points, Tasks, Kinds
<1>4. OpenIsVersion
  BY DEF Init, LockInit, OpenIsVersion
<1> QED
  BY <1>2, <1>3, <1>4, ConfigLockAssumption DEF Init, LockInit, TypeInv

\* A look or a reading notes one number.
LEMMA SetTyped ==
    ASSUME draft \in [Thread -> Drafts], NEW t \in Thread, NEW v \in Nat,
           NEW field \in {"seen", "fd", "bindings", "before", "identity", "when"}, Set(t, field, v)
    PROVE  /\ draft' \in [Thread -> Drafts]
           /\ draft'[t] = [draft[t] EXCEPT ![field] = v]
           /\ \A u \in Thread \ {t} : draft'[u] = draft[u]
<1>1. [draft[t] EXCEPT ![field] = v] \in Drafts
  BY DEF Drafts
<1>2. draft' = [draft EXCEPT ![t] = [draft[t] EXCEPT ![field] = v]]
  BY DEF Set
<1> QED
  BY <1>1, <1>2

\* What a step of a generation leaves alone.
LEMMA GenerateLeaves ==
    ASSUME TypeOK, NEW t \in Thread, Generate(t)
    PROVE  /\ task[t] # "replace"
           /\ UNCHANGED <<file, task, disk, bytes, state, committed, torn>>
           /\ pc' \in [Thread -> Points] /\ holding' \in [Thread -> Mode]
           /\ \A u \in Thread \ {t} :
                  /\ UNCHANGED <<pc[u], holding[u], draft[u]>>
                  /\ u \in Writer => outcome'[u] = outcome[u]
<1> USE DEF TypeOK, lockVars, fileVars, diskVars, SameCatalog, Doing, GoTo, Points, Generating,
            Failing, Mode
<1>1. CASE ShareLock(t) \/ SharePolls(t)
  BY <1>1 DEF ShareLock, SharePolls, Acquire, PollAgain
<1>2. CASE ShareTimesOut(t)
  BY <1>2 DEF ShareTimesOut, NotAcquired, TimesOut, LockUnusable, LockReplaced, Fail
<1>3. CASE LookAtFile(t) \/ OpenFile(t)
  BY <1>3 DEF LookAtFile, OpenFile, LookAt, Set
<1>4. CASE LookAgain(t) \/ ReadFile(t) \/ LoadConfig(t)
  BY <1>4 DEF LookAgain, ReadFile, LoadConfig, Set
<1>5. CASE Identity(t) \/ WriteCatalog(t)
  BY <1>5 DEF Identity, WriteCatalog, Set
<1>6. CASE GenerateReturns(t) \/ GenerateFails(t)
  BY <1>6 DEF GenerateReturns, GenerateFails, Fail, Release
<1> QED
  BY <1>1, <1>2, <1>3, <1>4, <1>5, <1>6 DEF Generate

\* Every step of a generation keeps the types.
LEMMA GenerateTyped ==
    ASSUME TypeInv, NEW t \in Thread, Generate(t)
    PROVE  TypeInv'
<1> USE DEF TypeInv
<1>1. ToCome' \subseteq ToCome
  BY GenerateLeaves DEF ToCome, Thread
<1>2. file'.version + Cardinality(ToCome') <= MaxVersion
  BY <1>1, GenerateLeaves, VersionStays
<1>3. draft' \in [Thread -> Drafts]
  <2> USE DEF TypeOK, SameCatalog
  <2>1. file.version \in Nat /\ disk.inode \in Nat /\ bytes \in [Version -> Nat]
    BY DEF Version
  <2>2. CASE LookAtFile(t) \/ OpenFile(t)
    BY <2>1, <2>2, SetTyped DEF LookAtFile, OpenFile
  <2>3. CASE Identity(t)
    BY <2>1, <2>3, SetTyped DEF Identity
  <2>4. CASE ReadFile(t)
    <3>1. bytes[draft[t].fd] \in Nat
      BY <2>1, <2>4 DEF ReadFile, OpenIsVersion, Doing
    <3> QED
      BY <2>4, <3>1, SetTyped DEF ReadFile
  <2>5. CASE ~(LookAtFile(t) \/ OpenFile(t) \/ Identity(t) \/ ReadFile(t))
    BY <2>5 DEF Generate, ShareLock, SharePolls, ShareTimesOut, LookAgain, LoadConfig,
       WriteCatalog, GenerateReturns, GenerateFails
  <2> QED
    BY <2>2, <2>3, <2>4, <2>5
<1>4. catalog' \in [bindings : Nat, identity : Nat]
  <2>1. CASE WriteCatalog(t)
    BY <2>1 DEF WriteCatalog, TypeOK, Drafts
  <2>2. CASE ~WriteCatalog(t)
    BY <2>2 DEF TypeOK, Generate, ShareLock, SharePolls, ShareTimesOut, LookAtFile, OpenFile,
       LookAgain, ReadFile, LoadConfig, Identity, GenerateReturns, GenerateFails, SameCatalog
  <2> QED
    BY <2>1, <2>2
<1>5. outcome' \in [Writer -> {"none", "ok", "partial"}]
  BY DEF TypeOK, Generate, ShareLock, SharePolls, ShareTimesOut, LookAtFile, OpenFile, LookAgain,
     ReadFile, LoadConfig, Identity, WriteCatalog, GenerateReturns, GenerateFails, Fail, SameCatalog
<1>6. OpenIsVersion'
  <2>1. ASSUME NEW u \in Thread \ {t}
        PROVE  (task[u] = "generate" /\ pc[u] \in {"again", "read", "verify"} => draft[u].fd \in Version)'
    BY GenerateLeaves DEF OpenIsVersion
  <2>2. (task[t] = "generate" /\ pc[t] \in {"again", "read", "verify"} => draft[t].fd \in Version)'
    <3> USE DEF TypeOK, OpenIsVersion, SameCatalog, Doing, GoTo
    <3>1. CASE OpenFile(t)
      <4>1. draft'[t].fd = disk.inode
        BY <3>1 DEF OpenFile, Set, Drafts
      <4> QED
        BY <4>1
    <3>2. CASE LookAgain(t) \/ SharePolls(t)
      BY <3>2 DEF LookAgain, SharePolls, PollAgain
    <3>3. CASE ReadFile(t)
      <4>1. draft'[t].fd = draft[t].fd
        BY <3>3 DEF ReadFile, Set, Drafts
      <4> QED
        BY <3>3, <4>1 DEF ReadFile
    <3>4. CASE ShareLock(t) \/ ShareTimesOut(t) \/ LookAtFile(t) \/ LoadConfig(t)
      BY <3>4 DEF ShareLock, ShareTimesOut, Fail, LookAtFile, LookAt, LoadConfig
    <3>5. CASE Identity(t) \/ WriteCatalog(t) \/ GenerateReturns(t) \/ GenerateFails(t)
      BY <3>5 DEF Identity, WriteCatalog, GenerateReturns, GenerateFails, Fail
    <3> QED
      BY <3>1, <3>2, <3>3, <3>4, <3>5 DEF Generate
  <2> QED
    BY <2>1, <2>2 DEF OpenIsVersion
<1> QED
  BY <1>2, <1>3, <1>4, <1>5, <1>6, GenerateLeaves DEF TypeOK

\* The registration of the tools, and the refresh command.
Register(t) ==
    RefreshStarts(t) \/ PrepareStarts(t) \/ LookBefore(t) \/ ReadCatalog(t) \/ CatalogRefused(t) \/ LookAfter(t)

\* What a step of a loading process leaves alone.
LEMMA RegisterLeaves ==
    ASSUME TypeOK, NEW t \in Loader, Register(t)
    PROVE  /\ t \in Thread /\ t \notin Writer
           /\ UNCHANGED <<file, disk, bytes, catalog, outcome, committed, torn>>
           /\ pc' \in [Thread -> Points] /\ holding' \in [Thread -> Mode]
           /\ task' \in [Thread -> Tasks] /\ draft' \in [Thread -> Drafts]
           /\ \A u \in Thread \ {t} : UNCHANGED <<pc[u], holding[u], task[u], draft[u]>>
<1> t \in Thread /\ t \notin Writer
  BY ConfigLockAssumption DEF Thread
<1> USE DEF TypeOK, lockVars, fileVars, diskVars, SameCatalog, Doing, GoTo, Points, Generating,
            Failing, Registering, Mode, Tasks
<1>1. NoDraft \in Drafts /\ file.version \in Nat
  BY DEF NoDraft, Drafts, Version
<1>2. CASE RefreshStarts(t) \/ PrepareStarts(t)
  BY <1>1, <1>2 DEF RefreshStarts, PrepareStarts, StartWaiting
<1>3. CASE LookBefore(t)
  BY <1>1, <1>3, SetTyped DEF LookBefore, Set
<1>4. CASE ReadCatalog(t)
  <2> DEFINE d == [draft[t] EXCEPT !.bindings = catalog.bindings, !.identity = catalog.identity,
                                   !.when = file.version]
  <2>1. d \in Drafts
    <3>1. draft[t] \in Drafts /\ catalog.bindings \in Nat /\ catalog.identity \in Nat
      OBVIOUS
    <3> QED
      BY <1>1, <3>1 DEF Drafts
  <2>2. draft' = [draft EXCEPT ![t] = d]
    BY <1>4 DEF ReadCatalog
  <2> HIDE DEF d
  <2>3. draft' \in [Thread -> Drafts] /\ \A u \in Thread \ {t} : draft'[u] = draft[u]
    BY <2>1, <2>2
  <2>4. /\ UNCHANGED <<file, disk, bytes, catalog, outcome, committed, torn, holding, task>>
        /\ pc' = [pc EXCEPT ![t] = "after"]
    BY <1>4 DEF ReadCatalog
  <2> QED
    BY <2>3, <2>4
<1>5. CASE CatalogRefused(t) \/ LookAfter(t)
  BY <1>5 DEF CatalogRefused, LookAfter, Release
<1> QED
  BY <1>2, <1>3, <1>4, <1>5 DEF Register

\* Every step of a loading process keeps the types.
LEMMA RegisterTyped ==
    ASSUME TypeInv, NEW t \in Loader, Register(t)
    PROVE  TypeInv'
<1> USE DEF TypeInv
<1>1. ToCome' \subseteq ToCome
  BY RegisterLeaves DEF ToCome, Thread
<1>2. file'.version + Cardinality(ToCome') <= MaxVersion
  BY <1>1, RegisterLeaves, VersionStays
<1>3. state' \in [Loader -> Int]
  <2>1. t \in Thread /\ draft[t].bindings \in Int
    BY DEF TypeOK, Drafts, Thread
  <2> QED
    BY <2>1 DEF TypeOK, Register, RefreshStarts, PrepareStarts, LookBefore, ReadCatalog, CatalogRefused,
       LookAfter, SameCatalog, PreparedInvalid
<1>4. OpenIsVersion'
  <2>1. task'[t] = "prepare" \/ pc'[t] \in {"wait", "idle"}
    BY DEF TypeOK, Thread, Register, RefreshStarts, PrepareStarts, StartWaiting, LookBefore,
       ReadCatalog, CatalogRefused, LookAfter, SameCatalog, Doing, GoTo
  <2> QED
    BY <2>1, RegisterLeaves DEF OpenIsVersion
<1> QED
  BY <1>2, <1>3, <1>4, RegisterLeaves DEF TypeOK

\* A replacement.
Replace(w) ==
    \/ ReplaceStarts(w) \/ BeforeCommit(w) \/ Commit(w) \/ ThenGenerate(w) \/ Dies(w)

\* What a step of a replacement leaves alone.
LEMMA ReplaceLeaves ==
    ASSUME TypeOK, NEW w \in Writer, Replace(w)
    PROVE  /\ w \in Thread
           /\ UNCHANGED <<catalog, state, torn>>
           /\ pc' \in [Thread -> Points] /\ holding' \in [Thread -> Mode]
           /\ task' \in [Thread -> Tasks] /\ draft' \in [Thread -> Drafts]
           /\ \A u \in Thread \ {w} : UNCHANGED <<pc[u], holding[u], task[u], draft[u]>>
<1> w \in Thread
  BY DEF Thread
<1> USE DEF TypeOK, lockVars, fileVars, diskVars, SameCatalog, Doing, GoTo, Points, Committing,
            Mode, Tasks
<1>1. NoDraft \in Drafts
  BY DEF NoDraft, Drafts
<1>2. CASE ReplaceStarts(w)
  BY <1>1, <1>2 DEF ReplaceStarts, WriterStarts, StartWaiting
<1>3. CASE BeforeCommit(w)
  <2>1. CASE WriterAcquires(w)
    BY <1>3, <2>1 DEF BeforeCommit, WriterAcquires, Acquire
  <2>2. CASE WriterPolls(w) \/ WriterTimesOut(w)
    BY <1>3, <2>2 DEF BeforeCommit, WriterPolls, WriterTimesOut
  <2>3. CASE WriteTemp(w)
    BY <1>3, <2>3 DEF BeforeCommit, WriteTemp
  <2> QED
    BY <1>3, <2>1, <2>2, <2>3 DEF BeforeCommit
<1>4. CASE Commit(w) \/ ThenGenerate(w)
  BY <1>4 DEF Commit, ReplaceFile, ThenGenerate, Release
<1>5. CASE Dies(w)
  BY <1>5 DEF Dies, WriterStops, Release
<1> QED
  BY <1>2, <1>3, <1>4, <1>5 DEF Replace

\* Every step of a replacement keeps the types, and finds a version to commit.
LEMMA ReplaceTyped ==
    ASSUME TypeInv, NEW w \in Writer, Replace(w)
    PROVE  TypeInv'
<1> USE DEF TypeInv
<1> w \in Thread
  BY DEF Thread
<1>1. file'.version + Cardinality(ToCome') <= MaxVersion /\ file'.version \in Version
  <2>1. CASE ReplaceStarts(w)
    <3>1. ToCome' \subseteq ToCome \cup {w} /\ w \notin ToCome /\ file' = file
      BY <2>1 DEF ReplaceStarts, WriterStarts, StartWaiting, GoTo, ToCome, TypeOK, Thread, fileVars
    <3>2. Cardinality(ToCome \cup {w}) = Cardinality(ToCome) + 1 /\ IsFiniteSet(ToCome \cup {w})
      BY <3>1, ToComeFinite, FS_AddElement
    <3>3. Cardinality(ToCome') <= Cardinality(ToCome) + 1
      BY <3>1, <3>2, FS_Subset
    <3>4. file.version + Cardinality(Replacing) < MaxVersion
      BY <2>1 DEF ReplaceStarts, WriterStarts
    <3>5. file.version \in Nat /\ file.version >= 1 /\ MaxVersion \in Nat
      BY ConfigLockAssumption DEF TypeOK, Version
    <3> HIDE DEF TypeInv
    <3> QED
      BY <3>1, <3>3, <3>4, <3>5, ToComeFinite DEF Version
  <2>2. CASE Commit(w)
    <3>1. ToCome' = ToCome \ {w} /\ w \in ToCome
      BY <2>2 DEF Commit, ReplaceFile, GoTo, ToCome, TypeOK, Thread
    <3>2. Cardinality(ToCome') = Cardinality(ToCome) - 1
      BY <3>1, ToComeFinite, FS_RemoveElement
    <3>3. file'.version = file.version + 1
      BY <2>2 DEF Commit, ReplaceFile
    <3>4. file.version \in Nat /\ file.version >= 1 /\ MaxVersion \in Nat
      BY ConfigLockAssumption DEF TypeOK, Version
    <3>5. file.version + Cardinality(ToCome) <= MaxVersion
      OBVIOUS
    <3> HIDE DEF TypeInv
    <3>6. Cardinality(ToCome) >= 1
      BY <3>2, ToComeFinite
    <3> QED
      BY <3>2, <3>3, <3>4, <3>5, <3>6, ToComeFinite DEF Version
  <2>3. CASE BeforeCommit(w) \/ ThenGenerate(w) \/ Dies(w)
    <3>1. ToCome' \subseteq ToCome /\ file' = file
      <4>1. CASE BeforeCommit(w)
        BY <4>1 DEF BeforeCommit, WriterAcquires, WriterPolls, WriterTimesOut, WriteTemp, Acquire,
           GoTo, ToCome, TypeOK, Thread, fileVars, SameCatalog
      <4>2. CASE ThenGenerate(w) \/ Dies(w)
        BY <4>2 DEF ThenGenerate, Dies, WriterStops, GoTo, ToCome, TypeOK, Thread, fileVars, SameCatalog
      <4> QED
        BY <2>3, <4>1, <4>2
    <3> QED
      BY <3>1, VersionStays DEF TypeOK
  <2> QED
    BY <2>1, <2>2, <2>3 DEF Replace
<1>2. disk' \in [inode : Version, kind : Kinds] /\ bytes' \in [Version -> Version]
  <2>1. CASE Commit(w)
    BY <1>1, <2>1 DEF Commit, Put, TypeOK, Kinds
  <2>2. CASE ~Commit(w)
    BY <2>2 DEF Replace, ReplaceStarts, BeforeCommit, ThenGenerate, Dies, SameCatalog, diskVars, TypeOK
  <2> QED
    BY <2>1, <2>2
<1>3. outcome' \in [Writer -> {"none", "ok", "partial"}] /\ committed' \in [Writer -> Nat]
  <2>1. file'.version \in Nat
    BY <1>1 DEF Version
  <2> QED
    BY <2>1 DEF Replace, ReplaceStarts, BeforeCommit, Commit, ThenGenerate, Dies, SameCatalog, TypeOK
<1>4. OpenIsVersion'
  <2>1. /\ task'[w] = "generate" /\ pc'[w] \in {"again", "read", "verify"} =>
             task[w] = "generate" /\ pc[w] \in {"again", "read", "verify"}
        /\ ~ReplaceStarts(w) => draft' = draft
        /\ ReplaceStarts(w) => task'[w] = "replace"
    BY DEF Replace, ReplaceStarts, BeforeCommit, WriterAcquires, WriterPolls, WriterTimesOut,
       WriteTemp, Acquire, Commit, ReplaceFile, ThenGenerate, Dies, WriterStops, GoTo, TypeOK,
       Doing, SameCatalog
  <2> QED
    BY <2>1, ReplaceLeaves DEF OpenIsVersion
<1> QED
  BY <1>1, <1>2, <1>3, <1>4, ReplaceLeaves DEF TypeOK

\* An edit by hand keeps the types: it leaves a version for every writer to come.
LEMMA EditTyped == TypeInv /\ HandEdit => TypeInv'
<1> SUFFICES ASSUME TypeInv, HandEdit PROVE TypeInv'
  OBVIOUS
<1>1. ToCome' = ToCome /\ file'.version = file.version + 1
  BY DEF HandEdit, ToCome
<1>2. file'.version + Cardinality(ToCome') <= MaxVersion /\ file'.version \in Version
  <2>1. file.version + Cardinality(Replacing) < MaxVersion
    BY DEF HandEdit
  <2>2. file.version \in Nat /\ file.version >= 1 /\ MaxVersion \in Nat
    BY ConfigLockAssumption DEF TypeInv, TypeOK, Version
  <2> QED
    BY <1>1, <2>1, <2>2, ToComeFinite DEF Version
<1>3. disk' \in [inode : Version, kind : Kinds] /\ bytes' \in [Version -> Version]
  <2>1. disk \in [inode : Version, kind : Kinds] /\ bytes \in [Version -> Version]
    BY DEF TypeInv, TypeOK
  <2>2. CASE disk' = disk /\ bytes' = [bytes EXCEPT ![disk.inode] = file'.version]
    BY <1>2, <2>1, <2>2
  <2>3. CASE \E kind \in {"private", "link", "readable"} : Put(file'.version, kind)
    BY <1>2, <2>1, <2>3 DEF Put, Kinds
  <2> QED
    BY <2>2, <2>3 DEF HandEdit
<1>4. torn' \in BOOLEAN
  BY DEF HandEdit
<1>5. UNCHANGED <<holding, pc, task, catalog, draft, state, outcome, committed>>
  BY DEF HandEdit, lockVars
<1> QED
  BY <1>2, <1>3, <1>4, <1>5 DEF TypeInv, TypeOK, OpenIsVersion

\* Every step is one of these.
LEMMA StepIsOneOf ==
    Next => \/ \E t \in Loader : Register(t)
            \/ \E t \in Thread : Generate(t)
            \/ \E w \in Writer : Replace(w)
            \/ HandEdit
            \/ UNCHANGED <<lockVars, pc, fileVars, catalogVars>>
BY DEF Next, Register, Replace, ValidateFile

\* Every step keeps the types.
LEMMA TypeNext == TypeInv /\ [Next]_vars => TypeInv'
<1> SUFFICES ASSUME TypeInv, [Next]_vars PROVE TypeInv'
  OBVIOUS
<1>1. CASE UNCHANGED <<lockVars, pc, fileVars, catalogVars>>
  BY <1>1 DEF TypeInv, TypeOK, OpenIsVersion, ToCome, lockVars, fileVars, catalogVars
<1> QED
  BY <1>1, StepIsOneOf, RegisterTyped, GenerateTyped, ReplaceTyped, EditTyped DEF vars

\* Everything that the generators, the writers and the registrations keep has
\* its type, and every version that a writer will commit fits the bound.
THEOREM CatalogTyped == Spec => []TypeInv
BY TypeInit, TypeNext, PTL DEF Spec

-----------------------------------------------------------------------------
(* Who holds the lock.                                                     *)

LockedAs(t) ==
    /\ task[t] = "generate" =>
           /\ pc[t] \in {"idle", "wait"} \cup Generating
           /\ holding[t] = IF pc[t] \in Generating THEN "shared" ELSE "none"
    /\ task[t] = "prepare" =>
           /\ pc[t] \in {"idle", "wait"} \cup Registering
           /\ holding[t] = IF pc[t] \in Registering THEN "shared" ELSE "none"
    /\ task[t] = "replace" =>
           /\ t \in Writer
           /\ pc[t] \in {"idle", "wait"} \cup Committing
           /\ holding[t] = IF pc[t] \in Committing THEN "exclusive" ELSE "none"

LockInv == LockExcludes /\ \A t \in Thread : LockedAs(t)

\* Every step of a generation keeps the lock in order.
LEMMA GenerateLocked ==
    ASSUME TypeOK, LockInv, NEW t \in Thread, Generate(t)
    PROVE  LockInv'
<1>1. ASSUME NEW u \in Thread \ {t} PROVE LockedAs(u)'
  BY GenerateLeaves DEF LockInv, LockedAs
<1>2. /\ task[t] # "replace" /\ LockedAs(t) /\ task' = task
      /\ holding \in [Thread -> Mode] /\ pc \in [Thread -> Points] /\ task[t] \in Tasks
  BY GenerateLeaves DEF LockInv, TypeOK
<1>3. LockedAs(t)' /\ (holding'[t] # "none" => holding[t] = holding'[t] \/ ~Conflict(t, "shared"))
      /\ holding'[t] # "exclusive"
  <2> USE <1>2 DEF LockedAs, Generating, Failing, Registering, Tasks, Mode, Doing, GoTo, SameCatalog
  <2>1. CASE ShareLock(t)
    BY <2>1 DEF ShareLock, Acquire
  <2>2. CASE SharePolls(t)
    BY <2>2 DEF SharePolls, PollAgain
  <2>3. CASE ShareTimesOut(t)
    BY <2>3 DEF ShareTimesOut, NotAcquired, TimesOut, LockUnusable, LockReplaced, Fail, lockVars
  <2>4. CASE LookAtFile(t) \/ OpenFile(t) \/ LookAgain(t)
    BY <2>4 DEF LookAtFile, OpenFile, LookAgain, LookAt, lockVars
  <2>5. CASE ReadFile(t) \/ LoadConfig(t)
    BY <2>5 DEF ReadFile, LoadConfig, lockVars
  <2>6. CASE Identity(t) \/ WriteCatalog(t)
    BY <2>6 DEF Identity, WriteCatalog, lockVars
  <2>7. CASE GenerateReturns(t) \/ GenerateFails(t)
    BY <2>7 DEF GenerateReturns, GenerateFails, Fail, Release
  <2> QED
    BY <2>1, <2>2, <2>3, <2>4, <2>5, <2>6, <2>7 DEF Generate
<1>4. LockExcludes'
  BY <1>3, GenerateLeaves DEF LockInv, LockExcludes, Conflict
<1> QED
  BY <1>1, <1>3, <1>4 DEF LockInv

\* Every step of a loading process keeps the lock in order.
LEMMA RegisterLocked ==
    ASSUME TypeOK, LockInv, NEW t \in Loader, Register(t)
    PROVE  LockInv'
<1>1. ASSUME NEW u \in Thread \ {t} PROVE LockedAs(u)'
  BY RegisterLeaves DEF LockInv, LockedAs
<1>2. /\ t \in Thread /\ LockedAs(t) /\ holding \in [Thread -> Mode] /\ pc \in [Thread -> Points]
      /\ task \in [Thread -> Tasks]
  BY RegisterLeaves DEF LockInv, TypeOK
<1>3. LockedAs(t)' /\ holding'[t] \in {holding[t], "none"}
  <2> USE <1>2 DEF LockedAs, Generating, Failing, Registering, Tasks, Mode, Doing, GoTo,
               SameCatalog, lockVars
  <2>1. CASE RefreshStarts(t) \/ PrepareStarts(t)
    BY <2>1, ConfigLockAssumption DEF RefreshStarts, PrepareStarts, StartWaiting, Committing
  <2>2. CASE LookBefore(t) \/ ReadCatalog(t)
    BY <2>2 DEF LookBefore, ReadCatalog
  <2>3. CASE CatalogRefused(t) \/ LookAfter(t)
    BY <2>3 DEF CatalogRefused, LookAfter, Release
  <2> QED
    BY <2>1, <2>2, <2>3 DEF Register
<1>4. LockExcludes'
  BY <1>3, RegisterLeaves DEF LockInv, LockExcludes
<1> QED
  BY <1>1, <1>3, <1>4 DEF LockInv

\* Every step of a replacement, a crash included, keeps the lock in order.
LEMMA ReplaceLocked ==
    ASSUME TypeOK, LockInv, NEW w \in Writer, Replace(w)
    PROVE  LockInv'
<1>1. ASSUME NEW u \in Thread \ {w} PROVE LockedAs(u)'
  BY ReplaceLeaves DEF LockInv, LockedAs
<1>2. /\ w \in Thread /\ LockedAs(w) /\ holding \in [Thread -> Mode] /\ pc \in [Thread -> Points]
      /\ task \in [Thread -> Tasks]
  BY ReplaceLeaves DEF LockInv, TypeOK
<1>3. LockedAs(w)' /\ (holding'[w] \in {holding[w], "none"} \/ ~Conflict(w, "exclusive"))
  <2> USE <1>2 DEF LockedAs, Generating, Failing, Registering, Committing, Tasks, Mode, Doing, GoTo,
               SameCatalog, lockVars
  <2>1. CASE ReplaceStarts(w)
    BY <2>1 DEF ReplaceStarts, WriterStarts, StartWaiting
  <2>2. CASE BeforeCommit(w)
    <3>1. CASE WriterAcquires(w)
      BY <2>2, <3>1 DEF BeforeCommit, WriterAcquires, Acquire
    <3>2. CASE WriterPolls(w) \/ WriterTimesOut(w)
      BY <2>2, <3>2
         DEF BeforeCommit, WriterPolls, WriterTimesOut, NotAcquired, TimesOut, LockReplaced
    <3>3. CASE WriteTemp(w)
      BY <2>2, <3>3 DEF BeforeCommit, WriteTemp
    <3> QED
      BY <2>2, <3>1, <3>2, <3>3 DEF BeforeCommit
  <2>3. CASE Commit(w)
    BY <2>3 DEF Commit, ReplaceFile
  <2>4. CASE ThenGenerate(w) \/ Dies(w)
    BY <2>4 DEF ThenGenerate, Dies, WriterStops, Release
  <2> QED
    BY <2>1, <2>2, <2>3, <2>4 DEF Replace
<1>4. LockExcludes'
  <2>1. \A u \in Thread \ {w} : holding[u] \in Mode /\ holding'[u] = holding[u]
    BY <1>2, ReplaceLeaves
  <2> QED
    BY <1>3, <2>1 DEF LockInv, LockExcludes, Conflict, Mode
<1> QED
  BY <1>1, <1>3, <1>4 DEF LockInv

\* Every step keeps the lock in order.
LEMMA LockNext == TypeOK /\ LockInv /\ [Next]_vars => LockInv'
<1> SUFFICES ASSUME TypeOK, LockInv, [Next]_vars PROVE LockInv'
  OBVIOUS
<1>1. CASE HandEdit \/ UNCHANGED <<lockVars, pc, fileVars, catalogVars>>
  BY <1>1 DEF LockInv, LockExcludes, LockedAs, HandEdit, lockVars, catalogVars
<1> QED
  BY <1>1, StepIsOneOf, RegisterLocked, GenerateLocked, ReplaceLocked DEF vars

-----------------------------------------------------------------------------
(* What has been read, and what of it still holds.                         *)

ReadAs(t) ==
    /\ task[t] = "generate" =>
           /\ pc[t] \in {"again", "read", "verify"} => draft[t].fd <= file.version
           /\ pc[t] = "verify" => torn \/ draft[t].bindings = bytes[draft[t].fd]
           /\ pc[t] = "lstat" => torn \/ draft[t].bindings = file.version
           /\ pc[t] = "write" =>
                  /\ torn \/ draft[t].bindings = draft[t].identity
                  /\ \A w \in Writer : draft[t].identity >= committed[w]
           /\ pc[t] = "written" => \A w \in Writer : catalog.identity >= committed[w]
    /\ task[t] = "prepare" =>
           /\ pc[t] = "read" => draft[t].before <= file.version
           /\ pc[t] = "after" =>
                  /\ draft[t].before <= draft[t].when /\ draft[t].when <= file.version
                  /\ torn \/ draft[t].bindings = draft[t].identity

CommittedFits ==
    \A w \in Writer :
        /\ committed[w] <= file.version
        /\ task[w] = "replace" => outcome[w] = "none"

ReadInv ==
    /\ disk.inode <= file.version
    /\ bytes[disk.inode] = file.version
    /\ CatalogTrue
    /\ OkMeansRefreshed
    /\ CommittedFits
    /\ \A t \in Thread : ReadAs(t)

Inv == TypeInv /\ LockInv /\ ReadInv

\* A step that only one thread takes, and that leaves the file and the sidecar,
\* leaves what the others have read as true as it was.
LEMMA OthersReadOn ==
    ASSUME Inv, NEW t \in Thread, NEW u \in Thread \ {t},
           UNCHANGED <<pc[u], task[u], draft[u], file, bytes, catalog, committed, torn>>
    PROVE  ReadAs(u)'
BY DEF Inv, ReadInv, ReadAs

\* Every step of a loading process keeps what is known of the readings.
LEMMA RegisterReads ==
    ASSUME Inv, NEW t \in Loader, Register(t)
    PROVE  ReadInv'
<1> TypeOK
  BY DEF Inv, TypeInv
<1>1. /\ t \in Thread /\ t \notin Writer
      /\ UNCHANGED <<file, disk, bytes, catalog, outcome, committed, torn>>
  BY RegisterLeaves
<1>2. ASSUME NEW u \in Thread \ {t} PROVE ReadAs(u)'
  BY <1>1, RegisterLeaves, OthersReadOn
<1>3. ReadAs(t)'
  <2>1. /\ ReadAs(t) /\ CatalogTrue /\ draft[t] \in Drafts /\ file.version \in Nat
        /\ pc \in [Thread -> Points] /\ task \in [Thread -> Tasks] /\ draft \in [Thread -> Drafts]
    BY <1>1 DEF Inv, ReadInv, TypeOK, Version
  <2> USE <1>1, <2>1 DEF ReadAs, Doing, GoTo, SameCatalog
  <2>2. CASE RefreshStarts(t) \/ PrepareStarts(t)
    BY <2>2 DEF RefreshStarts, PrepareStarts, StartWaiting
  <2>3. CASE LookBefore(t)
    <3>1. draft'[t].before = file.version
      BY <2>3 DEF LookBefore, Set, Drafts
    <3> QED
      BY <2>3, <3>1 DEF LookBefore
  <2>4. CASE ReadCatalog(t)
    <3>1. /\ draft'[t].before = draft[t].before /\ draft'[t].when = file.version
          /\ draft'[t].bindings = catalog.bindings /\ draft'[t].identity = catalog.identity
      BY <2>4 DEF ReadCatalog, Drafts
    <3> QED
      BY <2>4, <3>1 DEF ReadCatalog, CatalogTrue
  <2>5. CASE CatalogRefused(t) \/ LookAfter(t)
    BY <2>5 DEF CatalogRefused, LookAfter
  <2> QED
    BY <2>2, <2>3, <2>4, <2>5 DEF Register
<1>4. CommittedFits'
  BY <1>1, RegisterLeaves DEF Inv, ReadInv, CommittedFits, Thread
<1> QED
  BY <1>1, <1>2, <1>3, <1>4 DEF Inv, ReadInv, CatalogTrue, OkMeansRefreshed

\* Every step of a generation keeps what is known of the readings.
LEMMA GenerateReads ==
    ASSUME Inv, NEW t \in Thread, Generate(t)
    PROVE  ReadInv'
<1> TypeOK
  BY DEF Inv, TypeInv
<1>1. /\ task[t] # "replace"
      /\ UNCHANGED <<file, task, disk, bytes, state, committed, torn>>
  BY GenerateLeaves
<1>2. /\ ReadAs(t) /\ draft[t] \in Drafts /\ file.version \in Nat /\ disk.inode \in Nat
      /\ pc \in [Thread -> Points] /\ task \in [Thread -> Tasks] /\ draft \in [Thread -> Drafts]
      /\ committed \in [Writer -> Nat] /\ outcome \in [Writer -> {"none", "ok", "partial"}]
      /\ disk.inode <= file.version /\ bytes[disk.inode] = file.version
      /\ CatalogTrue /\ OkMeansRefreshed /\ CommittedFits
  BY DEF Inv, ReadInv, TypeOK, Version
\* The sidecar, and what a replacement reports.
<1>3. /\ CatalogTrue' /\ OkMeansRefreshed'
      /\ \A w \in Writer : (catalog' # catalog \/ pc'[t] = "written") => catalog'.identity >= committed[w]
  <2> USE <1>1, <1>2 DEF CatalogTrue, OkMeansRefreshed, SameCatalog, Doing, GoTo
  <2>1. CASE ShareLock(t) \/ SharePolls(t) \/ LookAgain(t) \/ LoadConfig(t)
    BY <2>1 DEF ShareLock, SharePolls, PollAgain, LookAgain, LoadConfig
  <2>2. CASE ShareTimesOut(t)
    BY <2>2 DEF ShareTimesOut, Fail
  <2>3. CASE LookAtFile(t) \/ OpenFile(t) \/ ReadFile(t) \/ Identity(t)
    BY <2>3 DEF LookAtFile, OpenFile, LookAt, ReadFile, Identity
  <2>4. CASE WriteCatalog(t)
    BY <2>4 DEF WriteCatalog, ReadAs
  <2>5. CASE GenerateReturns(t)
    BY <2>5 DEF GenerateReturns, ReadAs
  <2>6. CASE GenerateFails(t)
    BY <2>6 DEF GenerateFails, Fail
  <2> QED
    BY <2>1, <2>2, <2>3, <2>4, <2>5, <2>6 DEF Generate
<1>4. CommittedFits'
  BY <1>1, <1>2, GenerateLeaves DEF CommittedFits, Thread
<1>5. ASSUME NEW u \in Thread \ {t} PROVE ReadAs(u)'
  <2>1. UNCHANGED <<pc[u], task[u], draft[u], file, bytes, committed, torn>>
    BY <1>1, GenerateLeaves
  <2>2. CASE catalog' = catalog
    BY <2>1, <2>2, OthersReadOn
  <2>3. CASE catalog' # catalog
    BY <1>3, <2>1, <2>3 DEF Inv, ReadInv, ReadAs
  <2> QED
    BY <2>2, <2>3
<1>6. ReadAs(t)'
  <2> USE <1>1, <1>2 DEF ReadAs, SameCatalog, Doing, GoTo
  <2>1. CASE ShareLock(t) \/ SharePolls(t)
    BY <2>1 DEF ShareLock, SharePolls, PollAgain
  <2>2. CASE ShareTimesOut(t)
    BY <2>2 DEF ShareTimesOut, Fail
  <2>3. CASE LookAtFile(t)
    BY <2>3 DEF LookAtFile, LookAt
  <2>4. CASE OpenFile(t)
    <3>1. draft'[t].fd = disk.inode
      BY <2>4 DEF OpenFile, Set, Drafts
    <3> QED
      BY <2>4, <3>1 DEF OpenFile, LookAt
  <2>5. CASE LookAgain(t)
    BY <2>5 DEF LookAgain
  <2>6. CASE ReadFile(t)
    <3>1. draft'[t].fd = draft[t].fd /\ draft'[t].bindings = bytes[draft[t].fd]
      BY <2>6 DEF ReadFile, Set, Drafts
    <3> QED
      BY <2>6, <3>1 DEF ReadFile
  <2>7. CASE LoadConfig(t)
    BY <2>7 DEF LoadConfig
  <2>8. CASE Identity(t)
    <3>1. draft'[t].identity = file.version /\ draft'[t].bindings = draft[t].bindings
      BY <2>8 DEF Identity, Set, Drafts
    <3> QED
      BY <2>8, <3>1 DEF Identity, CommittedFits
  <2>9. CASE WriteCatalog(t)
    BY <1>3, <2>9 DEF WriteCatalog
  <2>10. CASE GenerateReturns(t) \/ GenerateFails(t)
    BY <2>10 DEF GenerateReturns, GenerateFails, Fail
  <2> QED
    BY <2>1, <2>2, <2>3, <2>4, <2>5, <2>6, <2>7, <2>8, <2>9, <2>10 DEF Generate
<1> QED
  BY <1>1, <1>2, <1>3, <1>4, <1>5, <1>6 DEF ReadInv

\* A commit finds no generator at work, and every other step of a replacement
\* leaves the file and the sidecar.
LEMMA ReplaceReads ==
    ASSUME Inv, NEW w \in Writer, Replace(w)
    PROVE  ReadInv'
<1> w \in Thread
  BY DEF Thread
<1> TypeOK
  BY DEF Inv, TypeInv
<1>1. /\ UNCHANGED <<catalog, state, torn>>
      /\ \A u \in Thread \ {w} : UNCHANGED <<pc[u], holding[u], task[u], draft[u]>>
  BY ReplaceLeaves
<1>2. /\ file.version \in Nat /\ disk.inode \in Nat /\ catalog.identity \in Nat
      /\ pc \in [Thread -> Points] /\ task \in [Thread -> Tasks] /\ draft \in [Thread -> Drafts]
      /\ committed \in [Writer -> Nat] /\ outcome \in [Writer -> {"none", "ok", "partial"}]
      /\ disk.inode <= file.version /\ bytes[disk.inode] = file.version
      /\ CatalogTrue /\ OkMeansRefreshed /\ CommittedFits /\ bytes \in [Version -> Version]
      /\ \A u \in Thread : ReadAs(u) /\ LockedAs(u)
  BY DEF Inv, ReadInv, LockInv, TypeOK, Version
<1>3. ReadAs(w)'
  <2>1. task'[w] = "replace" \/ pc'[w] \in {"idle", "wait"}
    BY <1>2 DEF Replace, ReplaceStarts, BeforeCommit, Commit, ThenGenerate, Dies, WriterStops,
       SameCatalog, Doing, GoTo
  <2> QED
    BY <2>1 DEF ReadAs
<1>4. CASE Commit(w)
  <2>1. /\ task[w] = "replace" /\ pc[w] = "replace" /\ file'.version = file.version + 1
        /\ disk'.inode = file'.version /\ bytes' = [bytes EXCEPT ![file'.version] = file'.version]
        /\ committed' = [committed EXCEPT ![w] = file'.version]
        /\ UNCHANGED <<task, outcome>>
    BY <1>4 DEF Commit, ReplaceFile, Put
  <2>2. file'.version \in Version
    BY ReplaceTyped DEF Inv, TypeInv, TypeOK
  <2>3. holding[w] = "exclusive"
    BY <1>2, <2>1 DEF LockedAs, Committing
  <2>4. ASSUME NEW u \in Thread \ {w} PROVE ReadAs(u)'
    <3>1. holding[u] = "none"
      BY <2>3 DEF Inv, LockInv, LockExcludes
    <3>2. task[u] = "generate" => pc[u] \in {"idle", "wait"}
      BY <1>2, <3>1 DEF LockedAs
    <3>3. draft[u] \in Drafts /\ ReadAs(u)
      BY <1>2
    <3> QED
      BY <1>1, <1>2, <2>1, <3>2, <3>3 DEF ReadAs, Drafts
  <2>5. OkMeansRefreshed' /\ CommittedFits'
    BY <1>1, <1>2, <2>1 DEF OkMeansRefreshed, CommittedFits
  <2>6. bytes'[disk'.inode] = file'.version
    BY <1>2, <2>1, <2>2
  <2>7. disk'.inode <= file'.version /\ CatalogTrue'
    BY <1>1, <1>2, <2>1 DEF CatalogTrue
  <2> QED
    BY <1>3, <2>4, <2>5, <2>6, <2>7 DEF ReadInv
<1>5. CASE ~Commit(w)
  <2>1. UNCHANGED <<file, disk, bytes, committed>>
    BY <1>5 DEF Replace, ReplaceStarts, WriterStarts, BeforeCommit, WriterAcquires, WriterPolls,
       WriterTimesOut, WriteTemp, ThenGenerate, Dies, WriterStops, SameCatalog, diskVars, fileVars
  <2>2. ASSUME NEW u \in Thread \ {w} PROVE ReadAs(u)'
    BY <1>1, <2>1, OthersReadOn
  <2>3. OkMeansRefreshed' /\ CommittedFits'
    <3>1. /\ ReplaceStarts(w) => outcome' = [outcome EXCEPT ![w] = "none"]
          /\ ~ReplaceStarts(w) => outcome' = outcome
          /\ ~ReplaceStarts(w) => \A v \in Writer : task'[v] = "replace" => task[v] = "replace"
          /\ \A v \in Writer \ {w} : task'[v] = task[v]
      BY <1>2, <1>5 DEF Replace, ReplaceStarts, BeforeCommit, ThenGenerate, Dies, SameCatalog, Thread
    <3> QED
      BY <1>1, <1>2, <2>1, <3>1 DEF OkMeansRefreshed, CommittedFits
  <2> QED
    BY <1>1, <1>2, <1>3, <2>1, <2>2, <2>3 DEF ReadInv, CatalogTrue
<1> QED
  BY <1>4, <1>5

\* An edit by hand makes no reading true that the next look does not catch,
\* unless it is torn.
LEMMA EditReads == Inv /\ HandEdit => ReadInv'
<1> SUFFICES ASSUME Inv, HandEdit PROVE ReadInv'
  OBVIOUS
<1>1. /\ UNCHANGED <<holding, pc, task, catalog, draft, state, outcome, committed>>
      /\ file'.version = file.version + 1
      /\ torn => torn'
  BY DEF HandEdit, lockVars, Inv, TypeInv, TypeOK
<1>2. /\ file.version \in Nat /\ disk.inode \in Version /\ disk.inode \in Nat
      /\ pc \in [Thread -> Points] /\ task \in [Thread -> Tasks] /\ draft \in [Thread -> Drafts]
      /\ committed \in [Writer -> Nat]
      /\ disk.inode <= file.version /\ bytes \in [Version -> Version]
      /\ \A u \in Thread : ReadAs(u)
      /\ CatalogTrue /\ OkMeansRefreshed /\ CommittedFits
  BY DEF Inv, ReadInv, TypeInv, TypeOK, Version
<1>3. file'.version \in Version
  BY EditTyped DEF Inv, TypeInv, TypeOK
<1>4. \/ /\ disk' = disk /\ bytes' = [bytes EXCEPT ![disk.inode] = file'.version]
         /\ \A u \in Thread : Doing(u, "generate", "verify") => torn'
      \/ disk'.inode = file'.version /\ bytes' = [bytes EXCEPT ![file'.version] = file'.version]
  BY DEF HandEdit, Put
<1>5. disk'.inode <= file'.version /\ bytes'[disk'.inode] = file'.version
  BY <1>1, <1>2, <1>3, <1>4
<1>6. ASSUME NEW u \in Thread PROVE ReadAs(u)'
  <2>1. draft[u] \in Drafts /\ ReadAs(u)
    BY <1>2
  <2>2. draft[u].fd \in Nat /\ draft[u].before \in Nat /\ draft[u].when \in Nat
    BY <2>1 DEF Drafts
  <2>3. Doing(u, "generate", "lstat") => torn'
    BY DEF HandEdit
  <2>4. task[u] = "generate" /\ pc[u] = "verify" => torn' \/ draft[u].bindings = bytes'[draft[u].fd]
    <3> SUFFICES ASSUME task[u] = "generate", pc[u] = "verify", ~torn'
                 PROVE  draft[u].bindings = bytes'[draft[u].fd]
      OBVIOUS
    <3>1. bytes' = [bytes EXCEPT ![file'.version] = file'.version]
      BY <1>4 DEF Doing
    <3>2. draft[u].fd \in Version /\ draft[u].fd # file'.version
      BY <1>1, <1>2, <2>1, <2>2 DEF ReadAs, Inv, TypeInv, OpenIsVersion
    <3>3. draft[u].bindings = bytes[draft[u].fd]
      BY <1>1, <2>1 DEF ReadAs
    <3> QED
      BY <1>2, <3>1, <3>2, <3>3
  <2> QED
    BY <1>1, <1>2, <2>1, <2>2, <2>3, <2>4 DEF ReadAs, Doing
<1>7. CatalogTrue' /\ OkMeansRefreshed' /\ CommittedFits'
  BY <1>1, <1>2 DEF CatalogTrue, OkMeansRefreshed, CommittedFits
<1> QED
  BY <1>5, <1>6, <1>7 DEF ReadInv

\* Nothing is held or read at first.
LEMMA InvInit == Init => Inv
<1> SUFFICES ASSUME Init PROVE Inv
  OBVIOUS
<1>1. TypeInv
  BY TypeInit
<1>2. LockInv
  BY DEF Init, LockInit, LockInv, LockExcludes, LockedAs, Registering
<1>3. ReadInv
  <2>1. disk.inode = 1 /\ file.version = 1 /\ bytes[disk.inode] = 1
    BY ConfigLockAssumption DEF Init, LockInit, Version
  <2>2. CatalogTrue /\ OkMeansRefreshed
    BY DEF Init, CatalogTrue, NoCatalog, OkMeansRefreshed
  <2>3. CommittedFits
    BY <2>1 DEF Init, CommittedFits, Thread
  <2>4. \A t \in Thread : ReadAs(t)
    BY DEF Init, LockInit, ReadAs
  <2> QED
    BY <2>1, <2>2, <2>3, <2>4 DEF ReadInv
<1> QED
  BY <1>1, <1>2, <1>3 DEF Inv

\* Every step keeps the invariant.
LEMMA InvNext == Inv /\ [Next]_vars => Inv'
<1> SUFFICES ASSUME Inv, [Next]_vars PROVE Inv'
  OBVIOUS
<1>1. TypeInv' /\ LockInv'
  BY TypeNext, LockNext DEF Inv, TypeInv
<1>2. ReadInv'
  <2>1. CASE UNCHANGED <<lockVars, pc, fileVars, catalogVars>>
    BY <2>1 DEF Inv, ReadInv, CatalogTrue, OkMeansRefreshed, CommittedFits, ReadAs, lockVars,
       fileVars, catalogVars
  <2> QED
    BY <2>1, StepIsOneOf, RegisterReads, GenerateReads, ReplaceReads, EditReads DEF vars
<1> QED
  BY <1>1, <1>2 DEF Inv

-----------------------------------------------------------------------------

\* The identity in a sidecar and its bindings are of one version, for any
\* number of generators and writers.
THEOREM SidecarIsTrue == Spec => []CatalogTrue
<1>1. Inv => CatalogTrue
  BY DEF Inv, ReadInv
<1> QED
  BY <1>1, InvInit, InvNext, PTL DEF Spec

\* A replacement that reports success is never followed by an older sidecar.
THEOREM OkIsRefreshed == Spec => []OkMeansRefreshed
<1>1. Inv => OkMeansRefreshed
  BY DEF Inv, ReadInv
<1> QED
  BY <1>1, InvInit, InvNext, PTL DEF Spec

\* A registration shows the bindings that the configuration had when the
\* sidecar was read.
THEOREM ShownIsTheFile == Spec => ShownIsOfTheFile
<1> DEFINE Shows ==
        \A t \in Loader :
            state'[t] # state[t] /\ state'[t] # PreparedInvalid => state'[t] = draft[t].when \/ torn
<1>1. Inv /\ [Next]_vars => [Shows]_vars
  <2> SUFFICES ASSUME Inv, [Next]_vars, NEW t \in Loader,
                      state'[t] # state[t], state'[t] # PreparedInvalid
               PROVE  state'[t] = draft[t].when \/ torn
    OBVIOUS
  <2> TypeOK /\ t \in Thread
    BY DEF Inv, TypeInv, Thread
  <2>1. LookAfter(t)
    <3>1. CASE \E u \in Loader : Register(u)
      BY <3>1 DEF Register, RefreshStarts, PrepareStarts, LookBefore, ReadCatalog, CatalogRefused,
         LookAfter, SameCatalog, TypeOK
    <3>2. CASE (\E u \in Thread : Generate(u)) \/ (\E w \in Writer : Replace(w))
      BY <3>2, GenerateLeaves, ReplaceLeaves
    <3>3. CASE HandEdit \/ UNCHANGED <<lockVars, pc, fileVars, catalogVars>>
      BY <3>3 DEF HandEdit, catalogVars
    <3> QED
      BY <3>1, <3>2, <3>3, StepIsOneOf DEF vars
  <2>2. /\ draft[t].before = file.version /\ draft[t].identity = draft[t].before
        /\ state'[t] = draft[t].bindings
    BY <2>1 DEF LookAfter, TypeOK
  <2>3. /\ draft[t].before <= draft[t].when /\ draft[t].when <= file.version
        /\ torn \/ draft[t].bindings = draft[t].identity
    BY <2>1 DEF LookAfter, Doing, Inv, ReadInv, ReadAs
  <2>4. draft[t] \in Drafts /\ file.version \in Nat
    BY DEF TypeOK, Version
  <2>5. draft[t].when \in Nat
    BY <2>4 DEF Drafts
  <2> QED
    BY <2>2, <2>3, <2>4, <2>5
<1> QED
  BY <1>1, InvInit, InvNext, PTL DEF Spec, ShownIsOfTheFile

-----------------------------------------------------------------------------
(* What validates.                                                         *)

Entries(checks) == {checks[n] : n \in DOMAIN checks}

\* A list of checks in which a binding's credential is only ever faulted at its place.
Right(c) == c[1] \in {"credential", "fit"} => c[2] = "credential_ref"

Marked(checks) ==
    /\ checks \in Seq(Entries(checks))
    /\ \A c \in Entries(checks) : Right(c)

LEMMA MarkedNames ==
    ASSUME NEW s
    PROVE  CheckNames(s) = {c[1] : c \in Entries(s)}
BY DEF CheckNames, Entries

LEMMA MarkedTogether ==
    ASSUME NEW s, NEW t, Marked(s), Marked(t)
    PROVE  Marked(s \o t) /\ CheckNames(s \o t) = CheckNames(s) \cup CheckNames(t)
<1> DEFINE S == Entries(s) \cup Entries(t)
<1>1. s \in Seq(S) /\ t \in Seq(S)
    BY DEF Marked
<1> HIDE DEF S
<1>2. /\ s \o t \in Seq(S) /\ Len(s) \in Nat /\ Len(t) \in Nat
      /\ DOMAIN s = 1..Len(s) /\ DOMAIN t = 1..Len(t) /\ DOMAIN (s \o t) = 1..Len(s) + Len(t)
    BY <1>1
<1>3. \A n \in DOMAIN s : n \in DOMAIN (s \o t) /\ (s \o t)[n] = s[n]
    BY <1>1, <1>2
<1>4. \A n \in DOMAIN t : n + Len(s) \in DOMAIN (s \o t) /\ (s \o t)[n + Len(s)] = t[n]
    BY <1>1, <1>2
<1>5. S \subseteq Entries(s \o t)
    BY <1>3, <1>4 DEF S, Entries
<1>6. Entries(s \o t) \subseteq S
    BY <1>2 DEF Entries
<1>7. Entries(s \o t) = S
    BY <1>5, <1>6
<1>8. Marked(s \o t)
    BY <1>2, <1>7 DEF Marked, S
<1>9. CheckNames(s \o t) = CheckNames(s) \cup CheckNames(t)
    BY <1>7, MarkedNames DEF S
<1> QED BY <1>8, <1>9

\* Lists as they are written.
LEMMA Listed1 ==
    ASSUME NEW a, Right(a)
    PROVE  Marked(<<a>>) /\ CheckNames(<<a>>) = {a[1]}
<1>1. DOMAIN <<a>> = 1..1 /\ <<a>>[1] = a
    OBVIOUS
<1>2. Entries(<<a>>) = {a}
    BY <1>1 DEF Entries
<1>3. <<a>> \in Seq({a})
    OBVIOUS
<1> QED BY <1>2, <1>3, MarkedNames DEF Marked

LEMMA Listed2 ==
    ASSUME NEW a, NEW b, Right(a), Right(b)
    PROVE  Marked(<<a, b>>) /\ CheckNames(<<a, b>>) = {a[1], b[1]}
<1>1. DOMAIN <<a, b>> = 1..2 /\ <<a, b>>[1] = a /\ <<a, b>>[2] = b
    OBVIOUS
<1>2. Entries(<<a, b>>) = {a, b}
    BY <1>1 DEF Entries
<1>3. <<a, b>> \in Seq({a, b})
    OBVIOUS
<1> QED BY <1>2, <1>3, MarkedNames DEF Marked

LEMMA Listed3 ==
    ASSUME NEW a, NEW b, NEW c, Right(a), Right(b), Right(c)
    PROVE  Marked(<<a, b, c>>)
<1>1. DOMAIN <<a, b, c>> = 1..3 /\ <<a, b, c>>[1] = a /\ <<a, b, c>>[2] = b /\ <<a, b, c>>[3] = c
    OBVIOUS
<1>2. Entries(<<a, b, c>>) = {a, b, c}
    BY <1>1 DEF Entries
<1>3. <<a, b, c>> \in Seq({a, b, c})
    OBVIOUS
<1> QED BY <1>2, <1>3 DEF Marked

LEMMA Listed5 ==
    ASSUME NEW a, NEW b, NEW c, NEW e, NEW f, Right(a), Right(b), Right(c), Right(e), Right(f)
    PROVE  Marked(<<a, b, c, e, f>>) /\ a[1] \in CheckNames(<<a, b, c, e, f>>)
<1> DEFINE s == <<a, b, c, e, f>>
<1>1. DOMAIN s = 1..5 /\ s[1] = a /\ s[2] = b /\ s[3] = c /\ s[4] = e /\ s[5] = f
    OBVIOUS
<1>2. s \in Seq({a, b, c, e, f})
    OBVIOUS
<1> HIDE DEF s
<1>3. Entries(s) = {a, b, c, e, f}
    BY <1>1 DEF Entries
<1>4. Marked(s) /\ a[1] \in CheckNames(s)
    BY <1>2, <1>3, MarkedNames DEF Marked
<1> QED BY <1>4 DEF s

LEMMA FieldsMarked ==
    ASSUME NEW part, NEW unknown, NEW missing,
           unknown \notin {"credential", "fit"}, missing \notin {"credential", "fit"}
    PROVE  Marked(FieldsOf(part, unknown, missing))
<1>1. Right(<<unknown, part>>) /\ Right(<<missing, "missing">>)
    BY DEF Right
<1> QED BY <1>1, Listed2 DEF FieldsOf

LEMMA FitRight == Right(Fit) /\ Fit[1] = "fit"
BY DEF Fit, Right

\* The parts of a binding's checks.
LEMMA EntryMarked == Marked(EntryChecks)
<1>1. Right(<<"name", "nowhere">>) /\ Right(<<"object", "entry">>) /\ Right(<<"type", "type">>)
    BY DEF Right
<1> QED BY <1>1, Listed3 DEF EntryChecks

LEMMA CommonMarked == Marked(CommonChecks) /\ "credential" \in CheckNames(CommonChecks)
<1> DEFINE c == <<"credential", "credential_ref">>
           rest == << <<"approval", "approval">>, c >>
<1>1. Right(<<"approval", "approval">>) /\ Right(c) /\ c[1] = "credential"
    BY DEF Right
<1> HIDE DEF c
<1>2. Marked(rest) /\ "credential" \in CheckNames(rest)
    BY <1>1, Listed2
<1>3. CommonChecks = FieldsOf("entry", "unknown", "missing") \o rest
    BY DEF CommonChecks, c
<1> HIDE DEF rest
<1>4. Marked(FieldsOf("entry", "unknown", "missing"))
    BY FieldsMarked
<1> QED BY <1>2, <1>3, <1>4, MarkedTogether

LEMMA TargetMarked == Marked(TargetChecks)
<1> DEFINE front == << <<"target", "target">> >>
           rest  == << <<"scheme", "target.scheme">>, DnsHost, <<"port", "target.port">> >>
<1>1. Right(<<"target", "target">>) /\ Right(<<"scheme", "target.scheme">>) /\ Right(DnsHost)
      /\ Right(<<"port", "target.port">>)
    BY DEF Right, DnsHost
<1>2. Marked(front) /\ Marked(rest)
    BY <1>1, Listed1, Listed3
<1>3. TargetChecks = front \o FieldsOf("target", "target_unknown", "target_missing") \o rest
    BY DEF TargetChecks
<1> HIDE DEF front, rest
<1>4. Marked(FieldsOf("target", "target_unknown", "target_missing"))
    BY FieldsMarked
<1>5. Marked(front \o FieldsOf("target", "target_unknown", "target_missing"))
    BY <1>2, <1>4, MarkedTogether
<1> QED BY <1>2, <1>3, <1>5, MarkedTogether

LEMMA RequestMarked == Marked(RequestChecks)
<1> DEFINE front == << <<"request", "request">> >>
           rest  == << <<"methods", "request.allowed_methods">>, ExactPath,
                       <<"timeouts", "nowhere">>, <<"total_below_connect", "request">>,
                       <<"body_limit", "nowhere">> >>
<1>1. Right(<<"request", "request">>) /\ Right(<<"methods", "request.allowed_methods">>)
      /\ Right(ExactPath) /\ Right(<<"timeouts", "nowhere">>)
      /\ Right(<<"total_below_connect", "request">>) /\ Right(<<"body_limit", "nowhere">>)
    BY DEF Right, ExactPath
<1>2. Marked(front) /\ Marked(rest)
    BY <1>1, Listed1, Listed5
<1>3. RequestChecks = front \o FieldsOf("request", "request_unknown", "request_missing") \o rest
    BY DEF RequestChecks
<1> HIDE DEF front, rest
<1>4. Marked(FieldsOf("request", "request_unknown", "request_missing"))
    BY FieldsMarked
<1>5. Marked(front \o FieldsOf("request", "request_unknown", "request_missing"))
    BY <1>2, <1>4, MarkedTogether
<1> QED BY <1>2, <1>3, <1>5, MarkedTogether

LEMMA InjectMarked ==
    ASSUME NEW kind
    PROVE  Marked(InjectChecks(kind)) /\ "fit" \in CheckNames(InjectChecks(kind))
<1> DEFINE front == << <<"inject", "inject">>, <<"inject_type", "inject.type">> >>
           where == IF kind = "api_key_header" THEN HeaderName ELSE <<"location", "inject.location">>
           rest  == << where, Fit >>
<1>1. Right(<<"inject", "inject">>) /\ Right(<<"inject_type", "inject.type">>) /\ Right(where)
    BY DEF Right, HeaderName
<1>2. InjectChecks(kind) = front \o FieldsOf("inject", "inject_unknown", "inject_missing") \o rest
    BY DEF InjectChecks
<1> HIDE DEF where
<1>3. Marked(front) /\ Marked(rest) /\ "fit" \in CheckNames(rest)
    BY <1>1, FitRight, Listed2
<1> HIDE DEF front, rest
<1>4. Marked(FieldsOf("inject", "inject_unknown", "inject_missing"))
    BY FieldsMarked
<1>5. Marked(front \o FieldsOf("inject", "inject_unknown", "inject_missing"))
    BY <1>3, <1>4, MarkedTogether
<1> QED BY <1>2, <1>3, <1>5, MarkedTogether

LEMMA ProcessMarked ==
    ASSUME NEW type
    PROVE  Marked(ProcessChecks(type)) /\ "fit" \in CheckNames(ProcessChecks(type))
<1> DEFINE where == IF type = "stdin" THEN StdinFormat ELSE EnvName
<1>1. Right(where) /\ Right(ProgramPath) /\ Right(FixedArgv) /\ Right(ProcessLimits)
    BY DEF Right, StdinFormat, EnvName, ProgramPath, FixedArgv, ProcessLimits
<1>2. ProcessChecks(type) = << Fit, ProgramPath, FixedArgv, where, ProcessLimits >>
    BY DEF ProcessChecks
<1> HIDE DEF where
<1> QED BY <1>1, <1>2, FitRight, Listed5

LEMMA BindingMarked ==
    ASSUME NEW b
    PROVE  Marked(BindingChecks(b)) /\ {"credential", "fit"} \subseteq CheckNames(BindingChecks(b))
<1> DEFINE own == IF b.type = "http" THEN TargetChecks \o RequestChecks \o InjectChecks(b.inject)
                                     ELSE ProcessChecks(b.type)
<1>1. Marked(EntryChecks \o CommonChecks) /\ "credential" \in CheckNames(EntryChecks \o CommonChecks)
    BY EntryMarked, CommonMarked, MarkedTogether
<1>2. Marked(own) /\ "fit" \in CheckNames(own)
  <2>1. CASE b.type = "http"
    <3>1. Marked(TargetChecks \o RequestChecks)
        BY TargetMarked, RequestMarked, MarkedTogether
    <3>2. /\ Marked(TargetChecks \o RequestChecks \o InjectChecks(b.inject))
          /\ "fit" \in CheckNames(TargetChecks \o RequestChecks \o InjectChecks(b.inject))
        BY <3>1, InjectMarked, MarkedTogether
    <3> QED BY <2>1, <3>2
  <2>2. CASE b.type # "http"
      BY <2>2, ProcessMarked
  <2> QED BY <2>1, <2>2
<1>3. BindingChecks(b) = (EntryChecks \o CommonChecks) \o own
    BY DEF BindingChecks
<1> HIDE DEF own
<1> QED BY <1>1, <1>2, <1>3, MarkedTogether

LEMMA CredentialMarked ==
    ASSUME NEW type
    PROVE  Marked(CredentialChecks(type))
<1> DEFINE front == << <<"name", "nowhere">>, <<"object", "entry">>, <<"type", "type">>, <<"fields", "entry">> >>
           user  == IF type = "token" THEN << >> ELSE << <<"username", "username">> >>
<1>1. Marked(front)
  <2>1. DOMAIN front = 1..4
      OBVIOUS
  <2>2. Right(front[1]) /\ Right(front[2]) /\ Right(front[3]) /\ Right(front[4])
      BY DEF Right
  <2>3. front \in Seq({front[1], front[2], front[3], front[4]})
      OBVIOUS
  <2> HIDE DEF front
  <2>4. Entries(front) = {front[1], front[2], front[3], front[4]}
      BY <2>1 DEF Entries
  <2> QED BY <2>2, <2>3, <2>4 DEF Marked
<1>2. Marked(user)
  <2>1. DOMAIN << >> = {} /\ << >> \in Seq({})
      OBVIOUS
  <2>2. Entries(<< >>) = {}
      BY <2>1 DEF Entries
  <2>3. Marked(<< >>)
      BY <2>1, <2>2 DEF Marked
  <2>4. Marked(<< <<"username", "username">> >>)
      BY Listed1 DEF Right
  <2> QED BY <2>3, <2>4
<1>3. Marked(<< SecretString >>)
    BY Listed1 DEF Right, SecretString
<1>4. CredentialChecks(type) = front \o user \o << SecretString >>
    BY DEF CredentialChecks
<1> HIDE DEF front, user
<1>5. Marked(front \o user)
    BY <1>1, <1>2, MarkedTogether
<1> QED BY <1>3, <1>4, <1>5, MarkedTogether

LEMMA LeastIsLeast ==
    ASSUME NEW S \in SUBSET Nat, S # {}
    PROVE  Least(S) \in S /\ \A m \in S : Least(S) <= m
<1>1. PICK i \in S : \A j \in S : <<j, i>> \notin OpToRel(<, Nat)
    BY NatLessThanWellFounded, WFMin
<1>2. \A j \in S : ~ (j < i)
    BY <1>1 DEF OpToRel
<1>3. \A j \in S : i <= j
    BY <1>2
<1> QED BY <1>3 DEF Least

\* The first fault is that of the first entry in which a check fails.
FaultFirst(part, entries, checks, wrong, v) ==
    \/ v = Valid /\ \A i \in DOMAIN entries : FailedChecks(checks[i], wrong[i]) = {}
    \/ \E i \in DOMAIN entries :
         /\ \A j \in DOMAIN entries : j < i => FailedChecks(checks[j], wrong[j]) = {}
         /\ \E n \in FailedChecks(checks[i], wrong[i]) :
              v = Place(part, entries[i].name, checks[i][n][2])

LEMMA FirstFaultIsFirst ==
    ASSUME NEW part, NEW entries, NEW checks, NEW wrong, DOMAIN entries \subseteq Nat,
           \A i \in DOMAIN entries : DOMAIN checks[i] \subseteq Nat
    PROVE  FaultFirst(part, entries, checks, wrong, FirstFault(part, entries, checks, wrong))
<1> DEFINE bad == {i \in DOMAIN entries : FailedChecks(checks[i], wrong[i]) # {}}
<1>1. FirstFault(part, entries, checks, wrong) =
        IF bad = {} THEN Valid
        ELSE Place(part, entries[Least(bad)].name,
                   checks[Least(bad)][Least(FailedChecks(checks[Least(bad)], wrong[Least(bad)]))][2])
    BY DEF FirstFault
<1>2. CASE bad = {}
    BY <1>1, <1>2 DEF FaultFirst
<1>3. CASE bad # {}
  <2>1. bad \in SUBSET Nat
      OBVIOUS
  <2> DEFINE i == Least(bad)
  <2>2. i \in bad /\ \A m \in bad : i <= m
    <3> HIDE DEF bad
    <3> QED BY <1>3, <2>1, LeastIsLeast
  <2> DEFINE failed == FailedChecks(checks[i], wrong[i])
  <2>3. failed \in SUBSET Nat /\ failed # {}
      BY <2>2 DEF FailedChecks
  <2>4. Least(failed) \in failed
    <3> HIDE DEF failed
    <3> QED BY <2>3, LeastIsLeast
  <2>5. \A j \in DOMAIN entries : j < i => FailedChecks(checks[j], wrong[j]) = {}
    <3> SUFFICES ASSUME NEW j \in DOMAIN entries, j < i, j \in bad PROVE FALSE
        OBVIOUS
    <3> HIDE DEF bad
    <3>1. i <= j /\ i \in Nat /\ j \in Nat
        BY <2>1, <2>2
    <3> HIDE DEF i
    <3> QED BY <3>1
  <2>6. FirstFault(part, entries, checks, wrong) = Place(part, entries[i].name, checks[i][Least(failed)][2])
      BY <1>1, <1>3
  <2>7. i \in DOMAIN entries
      BY <2>2
  <2> HIDE DEF i, failed, bad
  <2> QED BY <2>4, <2>5, <2>6, <2>7 DEF failed, FaultFirst
<1> QED BY <1>2, <1>3

\* Where no check fails nothing is wrong.
LEMMA NothingWrong ==
    ASSUME NEW checks, NEW wrong, wrong \subseteq CheckNames(checks), FailedChecks(checks, wrong) = {}
    PROVE  wrong = {}
BY DEF CheckNames, FailedChecks

\* A binding's own faults and those of its credential are among its checks.
LEMMA WrongChecked ==
    ASSUME NEW d \in Documents, NEW i \in DOMAIN d.bindings
    PROVE  WrongBinding(d.bindings[i], d) \subseteq CheckNames(BindingChecks(d.bindings[i]))
<1>1. d.bindings[i].wrong \subseteq CheckNames(BindingChecks(d.bindings[i]))
    BY DocumentsAssumption DEF IsBinding
<1>2. {"credential", "fit"} \subseteq CheckNames(BindingChecks(d.bindings[i]))
    BY BindingMarked
<1> QED BY <1>1, <1>2 DEF WrongBinding

\* What the two passes over the entries find.
LEMMA CredentialFault ==
    ASSUME NEW d \in Documents, NEW v,
           v = FirstFault("credentials", d.credentials, CredentialsChecked(d), CredentialsWrong(d))
    PROVE  \/ v = Valid /\ \A i \in DOMAIN d.credentials : d.credentials[i].wrong = {}
           \/ /\ v # Valid /\ v.part # "bindings"
              /\ v.part = "credentials" => FirstAtFault(d.credentials, v.name, CredentialsWrong(d))
              /\ \E i \in DOMAIN d.credentials : d.credentials[i].wrong # {}
<1> DEFINE cs == d.credentials
           checks == CredentialsChecked(d)
           wrong == CredentialsWrong(d)
<1>1. /\ DOMAIN cs = 1..Len(cs) /\ Len(cs) \in Nat
      /\ \A i \in DOMAIN cs : /\ checks[i] = CredentialChecks(cs[i].type) /\ wrong[i] = cs[i].wrong
                              /\ wrong[i] \subseteq CheckNames(checks[i])
    BY DocumentsAssumption DEF CredentialsChecked, CredentialsWrong
<1>2. \A i \in DOMAIN cs : DOMAIN checks[i] \subseteq Nat
    BY <1>1, CredentialMarked DEF Marked
<1>3. \A i \in DOMAIN cs : FailedChecks(checks[i], wrong[i]) = {} => cs[i].wrong = {}
    BY <1>1, NothingWrong
<1>6. v = FirstFault("credentials", cs, checks, wrong) /\ DOMAIN cs \subseteq Nat
    BY <1>1
<1> HIDE DEF checks, wrong
<1>7. FaultFirst("credentials", cs, checks, wrong, v)
    BY <1>2, <1>6, FirstFaultIsFirst
<1>4. CASE v = Valid /\ \A i \in DOMAIN cs : FailedChecks(checks[i], wrong[i]) = {}
    BY <1>3, <1>4
<1>5. ASSUME NEW i \in DOMAIN cs,
             \A j \in DOMAIN cs : j < i => FailedChecks(checks[j], wrong[j]) = {},
             NEW n \in FailedChecks(checks[i], wrong[i]),
             v = Place("credentials", cs[i].name, checks[i][n][2])
      PROVE  /\ v # Valid /\ v.part # "bindings"
             /\ v.part = "credentials" => FirstAtFault(cs, v.name, wrong)
             /\ \E k \in DOMAIN cs : cs[k].wrong # {}
  <2>1. v.part \in {"credentials", "nowhere"} /\ v # Valid
      BY <1>5 DEF Place, Nowhere, Valid
  <2>2. v.part = "credentials" => v.name = cs[i].name
      BY <1>5 DEF Place, Nowhere
  <2>3. wrong[i] # {}
      BY DEF FailedChecks
  <2>4. \A j \in 1..i - 1 : j \in DOMAIN cs /\ j < i
      BY <1>1
  <2>5. \A j \in 1..i - 1 : wrong[j] = {}
      BY <1>1, <1>3, <1>5, <2>4
  <2> QED BY <1>1, <2>1, <2>2, <2>3, <2>5 DEF FirstAtFault
<1> QED BY <1>4, <1>5, <1>7 DEF wrong, FaultFirst

LEMMA BindingFault ==
    ASSUME NEW d \in Documents, NEW v,
           v = FirstFault("bindings", d.bindings, BindingsChecked(d), BindingsWrong(d))
    PROVE  \/ v = Valid /\ \A i \in DOMAIN d.bindings : WrongBinding(d.bindings[i], d) = {}
           \/ /\ v # Valid /\ v.part # "credentials"
              /\ v.part = "bindings" => FirstAtFault(d.bindings, v.name, BindingsWrong(d))
              /\ v = Nowhere => \E i \in DOMAIN d.bindings : d.bindings[i].wrong # {}
<1> DEFINE bs == d.bindings
           checks == BindingsChecked(d)
           wrong == BindingsWrong(d)
<1>1. /\ DOMAIN bs = 1..Len(bs) /\ Len(bs) \in Nat
      /\ \A i \in DOMAIN bs : /\ checks[i] = BindingChecks(bs[i]) /\ wrong[i] = WrongBinding(bs[i], d)
                              /\ wrong[i] \subseteq CheckNames(checks[i])
    BY DocumentsAssumption, WrongChecked DEF BindingsChecked, BindingsWrong
<1>2. \A i \in DOMAIN bs : Marked(checks[i]) /\ DOMAIN checks[i] \subseteq Nat
    BY <1>1, BindingMarked DEF Marked
<1>3. \A i \in DOMAIN bs : FailedChecks(checks[i], wrong[i]) = {} => WrongBinding(bs[i], d) = {}
    BY <1>1, NothingWrong
<1>6. v = FirstFault("bindings", bs, checks, wrong) /\ DOMAIN bs \subseteq Nat
    BY <1>1
<1> HIDE DEF checks, wrong
<1>7. FaultFirst("bindings", bs, checks, wrong, v)
    BY <1>2, <1>6, FirstFaultIsFirst
<1>4. CASE v = Valid /\ \A i \in DOMAIN bs : FailedChecks(checks[i], wrong[i]) = {}
    BY <1>3, <1>4
<1>5. ASSUME NEW i \in DOMAIN bs,
             \A j \in DOMAIN bs : j < i => FailedChecks(checks[j], wrong[j]) = {},
             NEW n \in FailedChecks(checks[i], wrong[i]),
             v = Place("bindings", bs[i].name, checks[i][n][2])
      PROVE  /\ v # Valid /\ v.part # "credentials"
             /\ v.part = "bindings" => FirstAtFault(bs, v.name, wrong)
             /\ v = Nowhere => \E k \in DOMAIN bs : bs[k].wrong # {}
  <2>1. v.part \in {"bindings", "nowhere"} /\ v # Valid
      BY <1>5 DEF Place, Nowhere, Valid
  <2>2. v.part = "bindings" => v.name = bs[i].name
      BY <1>5 DEF Place, Nowhere
  <2>3. wrong[i] # {}
      BY DEF FailedChecks
  <2>4. \A j \in 1..i - 1 : j \in DOMAIN bs /\ j < i
      BY <1>1
  <2>5. \A j \in 1..i - 1 : wrong[j] = {}
      BY <1>1, <1>3, <1>5, <2>4
  <2>6. v = Nowhere => bs[i].wrong # {}
    <3> SUFFICES ASSUME v = Nowhere, bs[i].wrong = {} PROVE FALSE
        OBVIOUS
    <3>1. checks[i][n][1] \in {"credential", "fit"}
        BY <1>1 DEF FailedChecks, WrongBinding
    <3>2. checks[i][n][2] = "credential_ref"
        BY <1>2, <3>1 DEF Marked, Entries, Right, FailedChecks
    <3>3. v.part = "bindings"
        BY <1>5, <3>2 DEF Place
    <3> QED BY <3>3 DEF Nowhere
  <2> QED BY <1>1, <2>1, <2>2, <2>3, <2>5, <2>6 DEF FirstAtFault
<1> QED BY <1>4, <1>5, <1>7 DEF wrong, FaultFirst

LEMMA SecretsCounted ==
    ASSUME NEW d \in Documents, ~ SharedSecret(d)
    PROVE  Cardinality(SecretsOf(d)) = Len(d.credentials)
<1> DEFINE n == Len(d.credentials)
           S == SecretsOf(d)
           f == [i \in 1..n |-> d.credentials[i].secret]
<1>1. DOMAIN d.credentials = 1..n /\ n \in Nat
    BY DocumentsAssumption
<1>2. f \in Bijection(1..n, S)
    BY <1>1 DEF SecretsOf, SharedSecret, Bijection, Injection, Surjection, IsInjective
<1>3. ExistsBijection(1..n, S)
  <2> HIDE DEF f
  <2> QED BY <1>2 DEF ExistsBijection
<1>4. IsFiniteSet(1..n) /\ Cardinality(1..n) = n
    BY <1>1, FS_Interval
<1> HIDE DEF S, n
<1>5. Cardinality(S) = Cardinality(1..n)
    BY <1>3, <1>4, FS_Bijection
<1> QED BY <1>4, <1>5 DEF S, n

\* A document without a fault is safe.
LEMMA FaultlessIsSafe ==
    ASSUME NEW d \in Documents, \A i \in DOMAIN d.credentials : d.credentials[i].wrong = {},
           \A i \in DOMAIN d.bindings : WrongBinding(d.bindings[i], d) = {},
           ~ SharedSecret(d), ~ Overlap(d)
    PROVE  Safe(d)
<1>1. ASSUME NEW i \in DOMAIN d.bindings
      PROVE  /\ d.bindings[i].wrong = {}
             /\ \E j \in DOMAIN d.credentials :
                  /\ d.credentials[j].name = d.bindings[i].ref
                  /\ d.credentials[j].type = TypeTaken(d.bindings[i])
  <2> DEFINE b == d.bindings[i]
             known == \E j \in DOMAIN d.credentials : d.credentials[j].name = b.ref
             other == \E j \in DOMAIN d.credentials :
                        d.credentials[j].name = b.ref /\ d.credentials[j].type # TypeTaken(b)
  <2>1. WrongBinding(b, d) = b.wrong \cup (IF known THEN {} ELSE {"credential"})
                               \cup (IF other THEN {"fit"} ELSE {})
      BY DEF WrongBinding
  <2>2. WrongBinding(b, d) = {}
      OBVIOUS
  <2>3. b.wrong = {} /\ known /\ ~ other
    <3> HIDE DEF known, other, b
    <3> QED BY <2>1, <2>2
  <2> QED BY <2>3
<1>2. ASSUME NEW line \in HttpLines(d) \cup ProcessLines(d), NEW t \in line
      PROVE  Inside[t] \cap SecretsOf(d) = {}
  <2>1. t \in VisibleTexts(d)
      BY <1>2 DEF HttpLines, ProcessLines, Catalog, VisibleTexts
  <2> QED BY <2>1 DEF Overlap
<1>3. CatalogLoads(d)
  <2> SUFFICES ASSUME NEW i \in DOMAIN d.bindings
               PROVE  /\ {d.bindings[i].name, d.bindings[i].ref} \subseteq GoodNames(d)
                      /\ d.bindings[i].type \in {"http", "process_env", "stdin"}
                      /\ d.bindings[i].type = "http" => d.bindings[i].texts # {}
      BY DEF CatalogLoads, Catalog
  <2>1. IsBinding(d.bindings[i])
      BY DocumentsAssumption
  <2>2. d.bindings[i].wrong = {}
      BY <1>1
  <2>3. d.bindings[i].name \in GoodNames(d)
      BY <2>2 DEF GoodNames
  <2>4. d.bindings[i].ref \in GoodNames(d)
    <3>1. PICK j \in DOMAIN d.credentials : d.credentials[j].name = d.bindings[i].ref
        BY <1>1
    <3> QED BY <3>1 DEF GoodNames
  <2> QED BY <2>1, <2>2, <2>3, <2>4 DEF IsBinding
<1> QED BY <1>1, <1>2, <1>3, SecretsCounted DEF Safe

VerdictOn(d, v) ==
    /\ v = Valid => Safe(d)
    /\ v.part = "credentials" => FirstAtFault(d.credentials, v.name, CredentialsWrong(d))
    /\ v.part = "bindings" =>
         /\ \A i \in DOMAIN d.credentials : d.credentials[i].wrong = {}
         /\ FirstAtFault(d.bindings, v.name, BindingsWrong(d))
    /\ v = Nowhere =>
         \/ ~ d.top \/ \E i \in DOMAIN d.credentials : d.credentials[i].wrong # {}
         \/ SharedSecret(d) \/ Overlap(d)
         \/ (NamesOf(d.credentials) \cup NamesOf(d.bindings)) \cap SecretsOf(d) # {}
         \/ \E i \in DOMAIN d.bindings : d.bindings[i].wrong # {}

LEMMA DiagnosisRight ==
    ASSUME NEW d \in Documents
    PROVE  VerdictOn(d, Diagnosis(d))
<1> DEFINE credentials == FirstFault("credentials", d.credentials, CredentialsChecked(d), CredentialsWrong(d))
           bindings == FirstFault("bindings", d.bindings, BindingsChecked(d), BindingsWrong(d))
           v == Diagnosis(d)
<1>1. v = IF ~ LoadsStrict(d) THEN Nowhere
          ELSE IF credentials # Valid THEN credentials
          ELSE IF SharedSecret(d) \/ NamesOf(d.credentials) \cap SecretsOf(d) # {} THEN Nowhere
          ELSE IF bindings # Valid THEN bindings
          ELSE IF NamesOf(d.bindings) \cap SecretsOf(d) # {} \/ Overlap(d) THEN Nowhere
          ELSE Valid
    BY DEF Diagnosis
<1>2. Nowhere.part = "nowhere" /\ Valid.part = "valid" /\ Nowhere # Valid
    BY DEF Nowhere, Valid
<1>3. \/ credentials = Valid /\ \A i \in DOMAIN d.credentials : d.credentials[i].wrong = {}
      \/ /\ credentials # Valid /\ credentials.part # "bindings"
         /\ credentials.part = "credentials" =>
              FirstAtFault(d.credentials, credentials.name, CredentialsWrong(d))
         /\ \E i \in DOMAIN d.credentials : d.credentials[i].wrong # {}
    BY CredentialFault
<1>4. \/ bindings = Valid /\ \A i \in DOMAIN d.bindings : WrongBinding(d.bindings[i], d) = {}
      \/ /\ bindings # Valid /\ bindings.part # "credentials"
         /\ bindings.part = "bindings" => FirstAtFault(d.bindings, bindings.name, BindingsWrong(d))
         /\ bindings = Nowhere => \E i \in DOMAIN d.bindings : d.bindings[i].wrong # {}
    BY BindingFault
<1> SUFFICES VerdictOn(d, v)
    OBVIOUS
<1> HIDE DEF v, credentials, bindings
<1>5. CASE v = Nowhere /\ ~ LoadsStrict(d)
    BY <1>2, <1>5 DEF VerdictOn, LoadsStrict
<1>6. CASE v = credentials /\ credentials # Valid
    BY <1>3, <1>6 DEF VerdictOn
<1>7. CASE v = Nowhere /\ (SharedSecret(d) \/ NamesOf(d.credentials) \cap SecretsOf(d) # {})
    BY <1>2, <1>7 DEF VerdictOn
<1>8. CASE v = bindings /\ bindings # Valid /\ credentials = Valid
    BY <1>3, <1>4, <1>8 DEF VerdictOn
<1>9. CASE v = Nowhere /\ (NamesOf(d.bindings) \cap SecretsOf(d) # {} \/ Overlap(d))
    BY <1>2, <1>9 DEF VerdictOn
<1>10. CASE /\ v = Valid /\ credentials = Valid /\ bindings = Valid
            /\ ~ SharedSecret(d) /\ ~ Overlap(d)
  <2>1. Safe(d)
      BY <1>3, <1>4, <1>10, FaultlessIsSafe
  <2> QED BY <1>2, <1>10, <2>1 DEF VerdictOn
<1> QED BY <1>1, <1>5, <1>6, <1>7, <1>8, <1>9, <1>10

\* Only the validate command changes what was checked.
LEMMA CheckedStays ==
    ASSUME [Next]_vars
    PROVE  ValidateFile \/ checked' = checked
<1> USE DEF SameCatalog, diskVars, catalogVars
<1>1. ASSUME NEW t, Generate(t) PROVE checked' = checked
    BY <1>1 DEF Generate, ShareLock, SharePolls, ShareTimesOut, LookAtFile, OpenFile, LookAgain, ReadFile,
                LoadConfig, Identity, WriteCatalog, GenerateReturns, GenerateFails
<1>2. ASSUME NEW t, RefreshStarts(t) \/ PrepareStarts(t) \/ LookBefore(t) \/ ReadCatalog(t)
                    \/ CatalogRefused(t) \/ LookAfter(t)
      PROVE  checked' = checked
    BY <1>2 DEF RefreshStarts, PrepareStarts, LookBefore, ReadCatalog, CatalogRefused, LookAfter
<1>3. ASSUME NEW w, ReplaceStarts(w) \/ BeforeCommit(w) \/ Commit(w) \/ ThenGenerate(w) \/ Dies(w)
      PROVE  checked' = checked
    BY <1>3 DEF ReplaceStarts, BeforeCommit, Commit, ThenGenerate, Dies
<1>4. HandEdit \/ UNCHANGED vars => checked' = checked
    BY DEF HandEdit, vars
<1> QED BY <1>1, <1>2, <1>3, <1>4 DEF Next

\* A document that validates is safe to use and to show, one that does not is refused
\* for a fault that it has, and at its first place, for documents of any size
\* (parse_config_document, run_validate).
THEOREM VerdictAlwaysRight == Spec => []VerdictRight
<1> DEFINE Judged == checked = NoDocument
                       \/ (checked.document \in Documents /\ checked.verdict = Diagnosis(checked.document))
<1>1. Init => Judged
    BY DEF Init
<1>2. Judged /\ [Next]_vars => Judged'
  <2> SUFFICES ASSUME Judged, [Next]_vars PROVE Judged'
      OBVIOUS
  <2>1. CASE ValidateFile
    <3>1. PICK d \in Documents : checked' = [document |-> d, verdict |-> Diagnosis(d)]
        BY <2>1 DEF ValidateFile, Validate
    <3>2. checked'.document = d /\ checked'.verdict = Diagnosis(d)
        BY <3>1
    <3> QED BY <3>2
  <2>2. CASE checked' = checked
      BY <2>2
  <2> QED BY <2>1, <2>2, CheckedStays
<1>3. Judged => VerdictRight
  <2> SUFFICES ASSUME Judged, checked # NoDocument
               PROVE  VerdictOn(checked.document, checked.verdict)
      BY DEF VerdictRight, VerdictOn
  <2> QED BY DiagnosisRight
<1> QED BY <1>1, <1>2, <1>3, PTL DEF Spec

=============================================================================
