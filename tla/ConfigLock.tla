---------------------------- MODULE ConfigLock ----------------------------
(***************************************************************************)
(* The cross-process lock on the configuration (config_lock.py) and the    *)
(* transaction that replaces the configuration file under it.              *)
(*                                                                         *)
(* The lock is a flock of a file beside the configuration, taken with      *)
(* LOCK_NB in a polling loop: nobody queues, a poll either takes the lock  *)
(* or counts towards the deadline.  A thread that holds the lock never     *)
(* asks for it again (CONFIG_LOCK_REENTRANT).  The kernel drops the lock   *)
(* of a process that dies.                                                 *)
(*                                                                         *)
(* A definition marked "mutant" is not part of the model: it is a wrong    *)
(* version of the definition below it, kept to test the properties.        *)
(***************************************************************************)
EXTENDS Integers, FiniteSets

CONSTANTS
    Loader,      \* threads that load the configuration
    Writer,      \* processes that replace the file
    MaxPolls,    \* polls that fit before the deadline
    MaxVersion   \* bound on the versions of the file

Thread  == Loader \cup Writer
Version == 1..MaxVersion

ASSUME ConfigLockAssumption ==
    /\ Loader \cap Writer = {}
    /\ IsFiniteSet(Writer)
    /\ MaxPolls \in Nat
    /\ MaxVersion \in Nat \ {0}

VARIABLES
    holding,  \* how each thread holds the lock
    polls,    \* polls that failed since the thread began to wait
    pc,       \* where each thread stands
    file,     \* version of the configuration file, and whether it is whole
    temp      \* what each writer's temporary file has of the next version

lockVars == <<holding, polls>>
fileVars == <<file, temp>>

Mode  == {"none", "shared", "exclusive"}
Part  == {"none", "part", "whole"}

LockInit ==
    /\ holding = [t \in Thread |-> "none"]
    /\ polls = [t \in Thread |-> 0]
    /\ pc = [t \in Thread |-> "idle"]
    /\ file = [version |-> 1, content |-> "whole"]
    /\ temp = [w \in Writer |-> "none"]

GoTo(t, l) == pc' = [pc EXCEPT ![t] = l]

-----------------------------------------------------------------------------
(* _acquire_flock and _release_fd.                                         *)

Conflict(t, mode) ==
    \E u \in Thread \ {t} :
        \/ holding[u] = "exclusive"
        \/ mode = "exclusive" /\ holding[u] = "shared"

StartWaiting(t) ==
    /\ pc[t] = "idle"
    /\ GoTo(t, "wait")
    /\ polls' = [polls EXCEPT ![t] = 0]

Acquire(t, mode) ==
    /\ pc[t] = "wait"
    /\ ~Conflict(t, mode)
    /\ holding' = [holding EXCEPT ![t] = mode]

PollOnceMore(t, mode) ==                              \* mutant
    /\ pc[t] = "wait"
    /\ Conflict(t, mode)
    /\ polls[t] <= MaxPolls
    /\ polls' = [polls EXCEPT ![t] = @ + 1]
PollUncounted(t, mode) ==                             \* mutant
    /\ pc[t] = "wait"
    /\ Conflict(t, mode)
    /\ UNCHANGED polls
PollAgain(t, mode) ==
    /\ pc[t] = "wait"
    /\ Conflict(t, mode)
    /\ polls[t] < MaxPolls
    /\ polls' = [polls EXCEPT ![t] = @ + 1]

TimesOut(t, mode) ==
    /\ pc[t] = "wait"
    /\ Conflict(t, mode)
    /\ polls[t] = MaxPolls

\* The directory or the lock file is missing, a link, of another user or open to
\* others: found before the first try.
LockUnusable(t) == pc[t] = "wait" /\ polls[t] = 0

\* The flock was taken of a file that is no longer the one under the lock's path,
\* and is let go at once.
LockReplaced(t, mode) == pc[t] = "wait" /\ ~Conflict(t, mode)

NotAcquired(t, mode) == TimesOut(t, mode) \/ LockReplaced(t, mode)

Release(t) == holding' = [holding EXCEPT ![t] = "none"]

-----------------------------------------------------------------------------
(* exclusive_atomic_replace_config.                                        *)

Replacing == {w \in Writer : pc[w] # "idle"}

WriterStarts(w) ==
    /\ file.version + Cardinality(Replacing) < MaxVersion
    /\ StartWaiting(w)
    /\ UNCHANGED <<holding, fileVars>>

WriterAcquires(w) ==
    /\ Acquire(w, "exclusive")
    /\ GoTo(w, "write")
    /\ UNCHANGED <<polls, fileVars>>

WriterPolls(w) ==
    /\ PollAgain(w, "exclusive")
    /\ UNCHANGED <<holding, pc, fileVars>>

WriterTimesOut(w) ==
    /\ NotAcquired(w, "exclusive")
    /\ GoTo(w, "idle")
    /\ UNCHANGED <<lockVars, fileVars>>

\* The temporary file grows write by write and is synced when it is whole.
WriteTempUnsynced(w) ==                               \* mutant
    /\ pc[w] = "write"
    /\ temp' = [temp EXCEPT ![w] = "part"]
    /\ GoTo(w, "replace")
    /\ UNCHANGED <<lockVars, file>>
WriteTempAndRelease(w) ==                             \* mutant
    /\ pc[w] = "write"
    /\ \/ temp[w] = "none" /\ temp' = [temp EXCEPT ![w] = "part"] /\ UNCHANGED <<holding, pc>>
       \/ /\ temp[w] = "part" /\ temp' = [temp EXCEPT ![w] = "whole"]
          /\ Release(w) /\ GoTo(w, "replace")
    /\ UNCHANGED <<polls, file>>
WriteTemp(w) ==
    /\ pc[w] = "write"
    /\ \/ temp[w] = "none" /\ temp' = [temp EXCEPT ![w] = "part"] /\ UNCHANGED pc
       \/ temp[w] = "part" /\ temp' = [temp EXCEPT ![w] = "whole"] /\ GoTo(w, "replace")
    /\ UNCHANGED <<lockVars, file>>

ReplaceFile(w) ==
    /\ pc[w] = "replace"
    /\ file' = [version |-> file.version + 1, content |-> temp[w]]
    /\ temp' = [temp EXCEPT ![w] = "none"]
    /\ GoTo(w, "unlock")
    /\ UNCHANGED lockVars

WriterReleases(w) ==
    /\ pc[w] = "unlock"
    /\ Release(w)
    /\ GoTo(w, "idle")
    /\ UNCHANGED <<polls, fileVars>>

\* The lock is refused, a write fails, or the process dies: its lock is gone and
\* its temporary file is removed or left behind under a name of its own.
WriterStops(w) ==
    /\ pc[w] # "idle"
    /\ Release(w)
    /\ GoTo(w, "idle")
    /\ temp' = [temp EXCEPT ![w] = "none"]
    /\ UNCHANGED <<polls, file>>

Write(w) ==
    \/ WriterAcquires(w)
    \/ WriterPolls(w)
    \/ WriterTimesOut(w)
    \/ WriteTemp(w)
    \/ ReplaceFile(w)
    \/ WriterReleases(w)

-----------------------------------------------------------------------------
(* Properties.                                                             *)

\* An exclusive holder is the only holder: what the kernel sees to.  No property of
\* this code, but what the invariants of the proofs start from.
LockExcludes ==
    \A t, u \in Thread : t # u /\ holding[t] = "exclusive" => holding[u] = "none"

\* Whatever fails or dies, a reader never finds half a file.
FileWhole == file.content = "whole"

=============================================================================
