--------------------------- MODULE RuntimeConfig ---------------------------
(***************************************************************************)
(* The published runtime view (runtime_config.py): load_and_publish_runtime *)
(* reads the file, numbers, builds and publishes a snapshot under the      *)
(* shared configuration lock, and marks the runtime unavailable when it    *)
(* fails.  Every formal egress request loads, so several threads load at   *)
(* once; _RUNTIME_LOCK makes only the single reads and writes of the       *)
(* module's globals atomic.                                                *)
(*                                                                         *)
(* A definition marked "mutant" is not part of the model: it is a wrong    *)
(* version of the definition below it, kept to test the properties.        *)
(***************************************************************************)
EXTENDS ConfigLock

CONSTANTS
    Invalid,       \* versions of the file that do not parse or validate
    MaxGeneration  \* bound on the generation

ASSUME RuntimeConfigAssumption ==
    /\ Invalid \subseteq Version
    /\ MaxGeneration \in Nat

VARIABLES
    published,   \* _PUBLISHED, or NoView while it is unavailable
    generation,  \* _GENERATION
    draft        \* the view each loader has in the making

configVars == <<published, generation, draft>>
vars == <<lockVars, pc, fileVars, configVars>>

View   == [content : Version, identity : Version, generation : Nat]
NoView == [content |-> 0, identity |-> 0, generation |-> 0]
Draft  == [content : Version \cup {0}, identity : Version \cup {0}, generation : Nat]

Init ==
    /\ LockInit
    /\ published = NoView
    /\ generation = 0
    /\ draft = [t \in Loader |-> NoView]

-----------------------------------------------------------------------------
(* load_and_publish_runtime.                                               *)

LoadStarts(t) ==
    /\ generation < MaxGeneration
    /\ StartWaiting(t)
    /\ draft' = [draft EXCEPT ![t] = NoView]
    /\ UNCHANGED <<holding, fileVars, published, generation>>

\* Not a step of Load, which is fair: no load has to be refused.
LoadRefused(t) ==
    /\ LockUnusable(t)
    /\ GoTo(t, "failed")
    /\ UNCHANGED <<lockVars, fileVars, configVars>>

LoadAcquires(t) ==
    /\ Acquire(t, "shared")
    /\ GoTo(t, "read")
    /\ UNCHANGED <<polls, fileVars, configVars>>

LoadPolls(t) ==
    /\ PollAgain(t, "shared")
    /\ UNCHANGED <<holding, pc, fileVars, configVars>>

LoadTimesOut(t) ==
    /\ NotAcquired(t, "shared")
    /\ GoTo(t, "failed")
    /\ UNCHANGED <<lockVars, fileVars, configVars>>

ReadBodyAndRelease(t) ==                              \* mutant
    /\ pc[t] = "read"
    /\ file.version \notin Invalid
    /\ draft' = [draft EXCEPT ![t].content = file.version]
    /\ Release(t)
    /\ GoTo(t, "number")
    /\ UNCHANGED <<polls, fileVars, published, generation>>
ReadBody(t) ==
    /\ pc[t] = "read"
    /\ file.version \notin Invalid
    /\ draft' = [draft EXCEPT ![t].content = file.version]
    /\ GoTo(t, "number")
    /\ UNCHANGED <<lockVars, fileVars, published, generation>>

\* The exception leaves the lock before its handler runs.
ReadRejected(t) ==
    /\ pc[t] = "read"
    /\ file.version \in Invalid
    /\ Release(t)
    /\ GoTo(t, "failed")
    /\ UNCHANGED <<polls, fileVars, configVars>>

\* The next generation is read here and written back by the publication.
NumberView(t) ==
    /\ pc[t] = "number"
    /\ draft' = [draft EXCEPT ![t].generation = generation + 1]
    /\ GoTo(t, "build")
    /\ UNCHANGED <<lockVars, fileVars, published, generation>>

\* _build_view takes the file's identity with an lstat of its own.  (When that fails, the
\* identity is left empty; under the lock only an edit without the lock could make it.)
BuildViewAndRelease(t) ==                             \* mutant
    /\ pc[t] = "build"
    /\ draft' = [draft EXCEPT ![t].identity = file.version]
    /\ Release(t)
    /\ GoTo(t, "publish")
    /\ UNCHANGED <<polls, fileVars, published, generation>>
BuildView(t) ==
    /\ pc[t] = "build"
    /\ draft' = [draft EXCEPT ![t].identity = file.version]
    /\ GoTo(t, "publish")
    /\ UNCHANGED <<lockVars, fileVars, published, generation>>

\* The egress registry does not take one of the credentials.
BuildRejected(t) ==
    /\ pc[t] = "build"
    /\ Release(t)
    /\ GoTo(t, "failed")
    /\ UNCHANGED <<polls, fileVars, configVars>>

Publish(t) ==
    /\ pc[t] = "publish"
    /\ published' = draft[t]
    /\ generation' = draft[t].generation
    /\ GoTo(t, "done")
    /\ UNCHANGED <<lockVars, fileVars, draft>>

LoadReturns(t) ==
    /\ pc[t] = "done"
    /\ Release(t)
    /\ GoTo(t, "idle")
    /\ UNCHANGED <<polls, fileVars, configVars>>

\* mark_runtime_unavailable, whatever has been published meanwhile.
MarkUnavailable(t) ==
    /\ pc[t] = "failed"
    /\ published' = NoView
    /\ GoTo(t, "idle")
    /\ UNCHANGED <<lockVars, fileVars, generation, draft>>

Load(t) ==
    \/ LoadAcquires(t)
    \/ LoadPolls(t)
    \/ LoadTimesOut(t)
    \/ ReadBody(t)
    \/ ReadRejected(t)
    \/ NumberView(t)
    \/ BuildView(t)
    \/ BuildRejected(t)
    \/ Publish(t)
    \/ LoadReturns(t)
    \/ MarkUnavailable(t)

Next ==
    \/ \E t \in Loader : LoadStarts(t) \/ LoadRefused(t)
    \/ \E t \in Loader : Load(t)
    \/ \E w \in Writer : WriterStarts(w) /\ UNCHANGED configVars
    \/ \E w \in Writer : Write(w) /\ UNCHANGED configVars
    \/ \E w \in Writer : WriterStops(w) /\ UNCHANGED configVars

Spec == Init /\ [][Next]_vars

\* A thread that polls or holds the lock runs on: nothing in between blocks.
FairSpec ==
    /\ Spec
    /\ \A t \in Loader : WF_vars(Load(t))
    /\ \A w \in Writer : WF_vars(Write(w) /\ UNCHANGED configVars)

-----------------------------------------------------------------------------
(* Properties.                                                             *)

\* Types of all variables.
TypeOK ==
    /\ holding \in [Thread -> Mode]
    /\ polls \in [Thread -> 0..MaxPolls]
    /\ pc \in [Thread -> {"idle", "wait", "read", "number", "build", "publish", "done",
                          "failed", "write", "replace", "unlock"}]
    /\ file \in [version : Version, content : Part]
    /\ temp \in [Writer -> Part]
    /\ published \in View \cup {NoView}
    /\ generation \in Nat
    /\ draft \in [Loader -> Draft]

\* The body of a published view and its file identity, which are read apart, are
\* of one version, and that version is a valid one: approval and execution
\* compare identities only and trust the body to go with them.
PublishedIsOneVersion ==
    published # NoView =>
        /\ published.content = published.identity
        /\ published.content \notin Invalid

\* A view is published only while its version is the file's: however long the load
\* took and whoever writes, no load publishes what has been replaced.
PublishedWhenCurrent ==
    [][published' # published /\ published' # NoView =>
           published'.content = file.version]_vars

\* The file changes only by the replacement of a writer that holds the lock, and
\* under nobody else who holds it: from the acquisition to the release a loader
\* has one file before it, and a writer replaces the one it found, whoever times
\* out, fails or dies meanwhile.
FileStillForHolders ==
    [][file' # file =>
           \E w \in Writer :
               /\ holding[w] = "exclusive" /\ pc[w] = "replace"
               /\ \A t \in Thread \ {w} : holding[t] = "none"]_vars

\* Nobody waits for the lock for ever, although a writer may never find it free
\* of readers that come and go: the wait has a deadline.
WaitsEnd == \A t \in Thread : pc[t] = "wait" ~> pc[t] # "wait"

\* docs/R1B says that every successful reload increments the generation.  (Two
\* loads at once take the same number, or a later one is followed by an earlier.)
GenerationIncreases ==
    [][published' # published /\ published' # NoView =>
           generation' > generation]_vars

=============================================================================
