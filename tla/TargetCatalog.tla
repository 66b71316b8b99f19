--------------------------- MODULE TargetCatalog ---------------------------
(***************************************************************************)
(* The sidecar with the bindings that a model may see (target_catalog.py): *)
(* generated from the configuration under the shared lock, by a command of *)
(* its own or right after a replacement, and read at the registration of   *)
(* the tools, which never opens the configuration itself.                  *)
(*                                                                         *)
(* A shared lock keeps replacements out but neither a second generator nor *)
(* a user who edits the file by hand.  The sidecar and the configuration   *)
(* are two files, committed one after the other; the identity in the       *)
(* sidecar ties them.  A version stands for a file identity: the inode it  *)
(* is in, its size and its time.                                           *)
(*                                                                         *)
(* The configuration is read by its path in several looks, and nothing but *)
(* the looks protects a reader from a user who edits the file.             *)
(*                                                                         *)
(* A definition marked "mutant" is not part of the model: it is a wrong    *)
(* version of the definition below it, kept to test the properties.        *)
(***************************************************************************)
EXTENDS ConfigLock, ConfigDocument

CONSTANT MaxEdits   \* bound on edits by hand

ASSUME TargetCatalogAssumption == MaxEdits \in Nat

VARIABLES
    task,       \* what a thread does: "replace", "generate" or "prepare"
    broken,     \* the versions that do not parse or validate
    disk,       \* the configuration's inode, and whether it is private
    bytes,      \* the version that each inode holds
    edits,      \* edits by hand so far
    catalog,    \* the sidecar: [bindings, identity], or NoCatalog
    draft,      \* what a generator or a registration has read so far
    state,      \* _REGISTRATION_STATE of each loading process
    outcome,    \* what a replacement has told its caller
    committed,  \* history: the version that a writer committed last
    torn        \* history: an edit between a generator's reading and its last lstat

catalogVars == <<task, broken, disk, bytes, edits, catalog, draft, state, outcome, committed, torn>>
vars        == <<lockVars, pc, fileVars, catalogVars, checked>>

NoCatalog == [bindings |-> 0, identity |-> 0]
NoDraft   == [seen |-> 0, fd |-> 0, bindings |-> 0, before |-> 0, identity |-> 0, when |-> 0]
Unprepared      == 0
PreparedInvalid == -1

Doing(t, k, l) == task[t] = k /\ pc[t] = l

diskVars == <<disk, bytes, checked>>

SameCatalog ==
    UNCHANGED <<task, broken, diskVars, edits, catalog, draft, state, outcome, committed, torn>>

\* A new file of this kind is at the path, with the version that comes next.
Put(version, kind) ==
    /\ disk' = [inode |-> version, kind |-> kind]
    /\ bytes' = [bytes EXCEPT ![version] = version]

Set(t, field, v) == draft' = [draft EXCEPT ![t][field] = v]

-----------------------------------------------------------------------------
(* generate_and_write_target_catalog.                                      *)

\* The refresh-targets command.
RefreshStarts(t) ==
    /\ checked = NoDocument
    /\ StartWaiting(t)
    /\ task' = [task EXCEPT ![t] = "generate"]
    /\ draft' = [draft EXCEPT ![t] = NoDraft]
    /\ UNCHANGED <<holding, fileVars, broken, diskVars, edits, catalog, state, outcome, committed, torn>>

ShareLock(t) ==
    /\ task[t] # "replace"
    /\ Acquire(t, "shared")
    /\ GoTo(t, "look")
    /\ UNCHANGED <<polls, fileVars>> /\ SameCatalog

SharePolls(t) ==
    /\ task[t] # "replace"
    /\ PollAgain(t, "shared")
    /\ UNCHANGED <<holding, pc, fileVars>> /\ SameCatalog

\* A generator that fails tells its caller; a writer's has committed.
Fail(t) ==
    /\ GoTo(t, "idle")
    /\ outcome' = IF t \in Writer THEN [outcome EXCEPT ![t] = "partial"] ELSE outcome

ShareTimesOut(t) ==
    /\ task[t] # "replace"
    /\ NotAcquired(t, "shared") \/ LockUnusable(t)
    /\ Fail(t)
    /\ UNCHANGED <<lockVars, fileVars, task, broken, diskVars, edits, catalog, draft, state,
                   committed, torn>>

\* Each look goes on only when the file is private and the one seen before.
LookAt(t, from, to, inode) ==
    /\ Doing(t, "generate", from)
    /\ disk.kind = "private"
    /\ inode = disk.inode
    /\ GoTo(t, to)

\* lstat of the directory and of the file.
LookAtFile(t) ==
    /\ LookAt(t, "look", "open", disk.inode)
    /\ Set(t, "seen", disk.inode)
    /\ UNCHANGED <<lockVars, fileVars, task, broken, diskVars, edits, catalog, state, outcome,
                   committed, torn>>

\* open with O_NOFOLLOW, and fstat of what was opened.
OpenFile(t) ==
    /\ LookAt(t, "open", "again", draft[t].seen)
    /\ Set(t, "fd", disk.inode)
    /\ UNCHANGED <<lockVars, fileVars, task, broken, diskVars, edits, catalog, state, outcome,
                   committed, torn>>

\* The second lstat asks for the inode only: the mode was that of the descriptor.
LookAgain(t) ==
    /\ Doing(t, "generate", "again")
    /\ disk.kind # "link" /\ disk.inode = draft[t].fd
    /\ GoTo(t, "read")
    /\ UNCHANGED <<lockVars, fileVars>> /\ SameCatalog

\* The descriptor is read, whatever its path leads to by now.
ReadFile(t) ==
    /\ Doing(t, "generate", "read")
    /\ Set(t, "bindings", bytes[draft[t].fd])
    /\ GoTo(t, "verify")
    /\ UNCHANGED <<lockVars, fileVars, task, broken, diskVars, edits, catalog, state, outcome,
                   committed, torn>>

\* The third lstat, and the parser.
LoadUnverified(t) ==                                  \* mutant
    /\ Doing(t, "generate", "verify")
    /\ draft[t].bindings \notin broken
    /\ GoTo(t, "lstat")
    /\ UNCHANGED <<lockVars, fileVars>> /\ SameCatalog
LoadConfig(t) ==
    /\ Doing(t, "generate", "verify")
    /\ disk.kind # "link" /\ disk.inode = draft[t].fd
    /\ draft[t].bindings \notin broken
    /\ GoTo(t, "lstat")
    /\ UNCHANGED <<lockVars, fileVars>> /\ SameCatalog

\* _file_identity, and the document.
Identity(t) ==
    /\ Doing(t, "generate", "lstat")
    /\ Set(t, "identity", file.version)
    /\ GoTo(t, "write")
    /\ UNCHANGED <<lockVars, fileVars, task, broken, diskVars, edits, catalog, state, outcome,
                   committed, torn>>

\* atomic_write_catalog: a temporary file replaces the sidecar.
WriteCatalog(t) ==
    /\ Doing(t, "generate", "write")
    /\ catalog' = [bindings |-> draft[t].bindings, identity |-> draft[t].identity]
    /\ GoTo(t, "written")
    /\ UNCHANGED <<lockVars, fileVars, task, broken, diskVars, edits, draft, state, outcome,
                   committed, torn>>

GenerateReturns(t) ==
    /\ Doing(t, "generate", "written")
    /\ Release(t) /\ GoTo(t, "idle")
    /\ outcome' = IF t \in Writer THEN [outcome EXCEPT ![t] = "ok"] ELSE outcome
    /\ UNCHANGED <<polls, fileVars, task, broken, diskVars, edits, catalog, draft, state,
                   committed, torn>>

\* The file does not validate, is gone, is not the one seen before, or the
\* sidecar cannot be written.
Failing == {"look", "open", "again", "read", "verify", "lstat", "write"}
GenerateFailsQuietly(t) ==                            \* mutant
    /\ task[t] = "generate" /\ pc[t] \in Failing
    /\ Release(t) /\ GoTo(t, "idle")
    /\ outcome' = IF t \in Writer THEN [outcome EXCEPT ![t] = "ok"] ELSE outcome
    /\ UNCHANGED <<polls, fileVars, task, broken, diskVars, edits, catalog, draft, state,
                   committed, torn>>
GenerateFails(t) ==
    /\ task[t] = "generate" /\ pc[t] \in Failing
    /\ Release(t) /\ Fail(t)
    /\ UNCHANGED <<polls, fileVars, task, broken, diskVars, edits, catalog, draft, state,
                   committed, torn>>

-----------------------------------------------------------------------------
(* replace_config_and_refresh_targets.                                     *)

ReplaceStarts(w) ==
    /\ checked = NoDocument
    /\ WriterStarts(w)
    /\ task' = [task EXCEPT ![w] = "replace"]
    /\ draft' = [draft EXCEPT ![w] = NoDraft]
    /\ outcome' = [outcome EXCEPT ![w] = "none"]
    /\ UNCHANGED <<broken, diskVars, edits, catalog, state, committed, torn>>

\* Its text was read with json.loads, which lets equal keys pass (unlike _loads_strict),
\* and validated by from_mapping.
Commit(w) ==
    /\ task[w] = "replace" /\ ReplaceFile(w)
    /\ Put(file'.version, "private")
    /\ committed' = [committed EXCEPT ![w] = file'.version]
    /\ UNCHANGED <<task, broken, checked, edits, catalog, draft, state, outcome, torn>>

BeforeCommit(w) ==
    /\ task[w] = "replace"
    /\ WriterAcquires(w) \/ WriterPolls(w) \/ WriterTimesOut(w) \/ WriteTemp(w)
    /\ SameCatalog

\* The exclusive lock is released, and the shared one waited for.
ThenGenerate(w) ==
    /\ Doing(w, "replace", "unlock")
    /\ Release(w)
    /\ task' = [task EXCEPT ![w] = "generate"]
    /\ GoTo(w, "wait") /\ polls' = [polls EXCEPT ![w] = 0]
    /\ UNCHANGED <<fileVars, broken, diskVars, edits, catalog, draft, state, outcome, committed, torn>>

\* The process dies; what it has committed stays.
Dies(w) == WriterStops(w) /\ SameCatalog

-----------------------------------------------------------------------------
(* prepare_registration_catalog, load_safe_bindings_from_sidecar.          *)

\* The state is invalid from here on, until a load succeeds.
PrepareStarts(t) ==
    /\ checked = NoDocument
    /\ StartWaiting(t)
    /\ task' = [task EXCEPT ![t] = "prepare"]
    /\ draft' = [draft EXCEPT ![t] = NoDraft]
    /\ state' = [state EXCEPT ![t] = PreparedInvalid]
    /\ UNCHANGED <<holding, fileVars, broken, diskVars, edits, catalog, outcome, committed, torn>>

LookBefore(t) ==
    /\ Doing(t, "prepare", "look")
    /\ Set(t, "before", file.version)
    /\ GoTo(t, "read")
    /\ UNCHANGED <<lockVars, fileVars, task, broken, diskVars, edits, catalog, state, outcome,
                   committed, torn>>

ReadCatalog(t) ==
    /\ Doing(t, "prepare", "read") /\ catalog # NoCatalog
    /\ draft' = [draft EXCEPT ![t].bindings = catalog.bindings,
                              ![t].identity = catalog.identity,
                              ![t].when = file.version]
    /\ GoTo(t, "after")
    /\ UNCHANGED <<lockVars, fileVars, task, broken, diskVars, edits, catalog, state, outcome,
                   committed, torn>>

\* The sidecar is missing, unsafe or malformed, or a file cannot be looked at.
CatalogRefused(t) ==
    /\ task[t] = "prepare" /\ pc[t] \in {"look", "read", "after"}
    /\ Release(t) /\ GoTo(t, "idle")
    /\ UNCHANGED <<polls, fileVars>> /\ SameCatalog

LookOnce(t) ==                                        \* mutant
    /\ Doing(t, "prepare", "after")
    /\ state' = IF draft[t].identity = draft[t].before
                THEN [state EXCEPT ![t] = draft[t].bindings] ELSE state
    /\ Release(t) /\ GoTo(t, "idle")
    /\ UNCHANGED <<polls, fileVars, task, broken, diskVars, edits, catalog, draft, outcome,
                   committed, torn>>
LookAfter(t) ==
    /\ Doing(t, "prepare", "after")
    /\ state' = IF draft[t].before = file.version /\ draft[t].identity = draft[t].before
                THEN [state EXCEPT ![t] = draft[t].bindings] ELSE state
    /\ Release(t) /\ GoTo(t, "idle")
    /\ UNCHANGED <<polls, fileVars, task, broken, diskVars, edits, catalog, draft, outcome,
                   committed, torn>>

-----------------------------------------------------------------------------

\* A user saves the file in an editor, which takes no lock: in place, as a new
\* file, as a link, or for others to read.
HandEdit ==
    /\ checked = NoDocument
    /\ edits < MaxEdits
    /\ file.version + Cardinality(Replacing) < MaxVersion
    /\ edits' = edits + 1
    /\ file' = [file EXCEPT !.version = @ + 1]
    /\ broken' \in {broken, broken \cup {file'.version}}
    /\ \/ /\ disk.kind # "link"
          /\ disk' = disk
          /\ bytes' = [bytes EXCEPT ![disk.inode] = file'.version]
       \/ \E kind \in {"private", "link", "readable"} : Put(file'.version, kind)
    /\ torn' = \/ torn
               \/ \E t \in Thread : Doing(t, "generate", "lstat")
               \/ disk' = disk /\ \E t \in Thread : Doing(t, "generate", "verify")
    /\ UNCHANGED <<lockVars, pc, temp, task, checked, catalog, draft, state, outcome, committed>>

\* The validate command changes nothing, so that it is enough to let it run
\* first, and alone.
ValidateFile ==
    /\ task = [t \in Thread |-> "prepare"] /\ state = [t \in Loader |-> Unprepared]
    /\ edits = 0
    /\ checked = NoDocument
    /\ Validate
    /\ UNCHANGED <<lockVars, pc, fileVars, catalogVars>>

Init ==
    /\ LockInit
    /\ task = [t \in Thread |-> "prepare"]
    /\ broken = {} /\ edits = 0
    /\ disk = [inode |-> 1, kind |-> "private"]
    /\ bytes = [v \in Version |-> 1]
    /\ checked = NoDocument
    /\ catalog = NoCatalog
    /\ draft = [t \in Thread |-> NoDraft]
    /\ state = [t \in Loader |-> Unprepared]
    /\ outcome = [w \in Writer |-> "none"]
    /\ committed = [w \in Writer |-> 0]
    /\ torn = FALSE

Generate(t) ==
    \/ ShareLock(t) \/ SharePolls(t) \/ ShareTimesOut(t)
    \/ LookAtFile(t) \/ OpenFile(t) \/ LookAgain(t) \/ ReadFile(t) \/ LoadConfig(t)
    \/ Identity(t) \/ WriteCatalog(t) \/ GenerateReturns(t) \/ GenerateFails(t)

Next ==
    \/ \E t \in Loader : RefreshStarts(t) \/ PrepareStarts(t)
    \/ \E t \in Loader : LookBefore(t) \/ ReadCatalog(t) \/ CatalogRefused(t) \/ LookAfter(t)
    \/ \E t \in Thread : Generate(t)
    \/ \E w \in Writer : ReplaceStarts(w) \/ BeforeCommit(w) \/ Commit(w) \/ ThenGenerate(w) \/ Dies(w)
    \/ HandEdit \/ ValidateFile

Spec == Init /\ [][Next]_vars

-----------------------------------------------------------------------------

\* The bindings that a registration shows were those of the configuration file
\* when the sidecar was read, whoever generates, replaces or edits meanwhile,
\* and whatever failed between the two commits.  (One race is not detected, torn:
\* an edit by hand between a generator's reading of the file and its lstat of
\* the identity, in the same inode or after the last look, gives old bindings
\* the new identity.)
ShownIsOfTheFile ==
    [][\A t \in Loader :
          state'[t] # state[t] /\ state'[t] # PreparedInvalid =>
              state'[t] = draft[t].when \/ torn]_vars

\* A replacement that reports success has left a sidecar that is not older than
\* what it committed, and none that is older can come after it.
OkMeansRefreshed ==
    \A w \in Writer : outcome[w] = "ok" => catalog.identity >= committed[w]

\* The identity of a sidecar never goes with bindings of another version.
CatalogTrue == catalog.bindings = catalog.identity \/ torn

=============================================================================
