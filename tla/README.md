# Credential Guard: specifications, checks and proofs

Credential Guard is a plugin of the Hermes agent. A tool call may *name* a
credential instead of carrying it; the plugin analyses the call, has a human
approve exactly that call, and only then reads the secret from its
configuration file and hands it to an adapter (HTTP request or local program).
On the other side it keeps registered secrets out of what goes to model
providers. This directory holds TLA+ modules of the parts with behaviour worth
checking, the TLC instances that check them, and TLAPS proofs.

Paths below are relative to `credential_guard/` in the repository's root.

## Inventory

| Component | State it keeps | Operations | Interacts with | What makes it correct |
|---|---|---|---|---|
| Injection plan store (`injection_plan.py`) | plans and tombstones by (session, tool call), a capacity | create/put, lookup, mark_approval_pending, consume, invalidate, cleanup | called by the three middleware stages from any worker thread | one use per approval; no key reuse while an old call may be under way; bounded; refuses only for cause |
| Invalid markers (`invalid_marker_store.py`) | markers with deadlines, an overflow circuit, an empty-identity circuit | set, get, consume, clear | set by tool_request, read by approval and tool_execution | a refused call stays refused, also when the store is full; no marker outlives its cause |
| Request analysis (`tool_request.py`, `references.py`) | none of its own | on_tool_request | view, markers, plans | every call that names a credential ends with a plan or a marker |
| Approval (`approval.py`) | none of its own | on_pre_tool_call | view, markers, plans, host | the human sees the payload and configuration that will be used |
| Execution (`tool_execution.py`, `reference_tools.py`, `injection.py`) | context of the call, the execution lock | on_tool_execution, finalize_reference_execution, resolve_one_for_execution | both locks, view, plans, adapters | injects once, as approved, from the current file; leaves nothing usable behind |
| Configuration lock (`config_lock.py`) | a flock, a per-thread depth | shared, exclusive, atomic replace | every loader, writer and execution, across processes | exclusion, bounded waiting, a whole file at all times |
| Runtime configuration (`runtime_config.py`, `config.py`, `bindings.py`) | published view, unavailable flag, generation | load and publish, mark unavailable, read | configuration lock, every stage | a view is of one version of the file, and current when published |
| Target catalog (`target_catalog.py`) | sidecar file, registration state | refresh, replace and refresh, prepare, resolve | configuration lock | shows bindings of the file's version only; success means refreshed |
| Configuration documents (`config.py`, `bindings.py`) | none | parse_config_document, build_catalog_document | loaders, catalog, command line | what validates is usable and shows no secret; the fault that is named is the first |
| Process adapter (`adapters/process.py`, `process_identity.py`, `process_tools.py`) | child group, pipes, private copy of the program | execute_process, prepare, cleanup | host operating system | no member of the group keeps the secret; no output is lost; only the approved file runs; every call returns |
| HTTP adapter (`adapters/http.py`) | one request | execute_http | network | one request, one deadline, late bodies refused |
| Egress middleware (`middleware.py`, `hooks.py`, `state.py`) | none across requests | llm request and execution hooks, result transformation | view, registry, redaction | nothing registered leaves; the user's input arrives or the request is blocked; recovery lets mild trouble pass; a second preparation changes nothing |
| Local diagnostics (`middleware.py`, `local_events.py`, `unregistered_warning.py`) | once-ledger, queue, daemon worker | emit, worker loop, the idle wait | every failing path | never blocks a request; bounded; each event once while remembered |
| Registry and redaction (`registry.py`, `redactor.py`, `result_guard.py`, `models.py`) | registered secrets and tokens | register, redact, verify | egress, adapters' output | no registered secret remains |
| Sensitive paths (`sensitive_paths.py`, `store_location.py`) | none; the program checker its bindings | path, search and command predicates, the checker of Python programs | the result hook | what plainly reads a protected file is recognised by any spelling |
| Command line (`cli.py`) | none | validate, refresh-targets | configuration documents, catalog | |
| Release identity, plugin registration, scripts | none | digests, hook registration, build and test | | no behaviour of their own |

What is hard here: worker threads of the host run several calls at once and may
replay a tool call id; other plugins may replace a call's payload, or edit a
prepared request, between any two stages; a human takes minutes to answer; the
execution lock is held for a whole adapter run; writers replace the
configuration in other processes and may die, and a user's editor takes no
lock; a program forks, keeps its pipes and ignores signals; a server answers
slowly; a sink blocks; everything expires.

The host runs the stages in one of two orders, and the model has both: the
agent's own path is `tool_request`, `tool_execution` [ `pre_tool_call`, human,
handler ], the last three inside tool_execution's `next_call`; the backup
dispatcher's is `tool_request`, `pre_tool_call`, human, `tool_execution`
[ handler ]. Locks are taken in the order configuration lock, execution lock,
a store's own lock.

## Modules

| Module | Models | State and actions |
|---|---|---|
| `PlanStore` | `injection_plan.py` | `plans`, `reuse_block_until` are `_plans`, `_reuse_block_until`. One action per method. `create_analyzed_plan` is two (`BuildPlan`, `PutPlan`), since it reads the clock and builds before `put` takes the lock; `drafts` holds what is in between. `cleanup` is not an action but part of `put`, its only caller. |
| `MarkerStore` | `invalid_marker_store.py` | `entries`, `overflow_until`, `empty_until`; `set` is three actions by its branches, every reading method is `Read` (they all clean up). |
| `ReferenceCall` | `tool_request.py`, `approval.py`, `tool_execution.py`, `reference_tools.py`, `injection.py` | Extends `PlanStore`, whose operations are conjuncts of its actions. `pc` is where a worker's call stands; an action is the work between two points where another thread can change what it reads: a store method, a lock, the human's answer. Markers are a set here (`MarkerStore` has their detail); `disk` and `published` are the version of the file and of the view. |
| `CredentialUse` | | The abstract specification of a reference call: grants, uses and the version of the file. `ReferenceCall` is shown to implement it (`ImplementsUse`) with the plan's nonce as the approval's name, the human's answer as the grant and the injection as the use. |
| `ConfigLock` | `config_lock.py` | who holds the flock, polls so far, the file, the writers' temporary files. Used through `RuntimeConfig` and `TargetCatalog`. |
| `RuntimeConfig` | `runtime_config.py` | Extends `ConfigLock` with the loaders: acquire, read, number, build, publish, return, and the failing branches. |
| `ConfigDocument` | `config.py`, `bindings.py` | A pure verdict on a document: every check in the code's order, the entry it reports, the texts a secret may not lie inside, the catalog built from it. |
| `TargetCatalog` | `target_catalog.py`, `config.py`, `cli.py` | Extends `ConfigLock` and `ConfigDocument`. A generator's reading of the file is its five looks (lstat, open, lstat, read, lstat) and the lstat of the identity, `task` and `pc` say where each thread is; a replacement goes on as a generator; `HandEdit` edits in place, replaces, links or opens the file to others without any lock. |
| `SensitivePaths` | `sensitive_paths.py`, `store_location.py` | Operators over a file system with links: the predicates on paths, searches and commands, and the store's directory. |
| `PythonReads` | `sensitive_paths.py` (`_PythonProtectedReadChecker`) | The checker's bindings, readers and ifs beside the executions that the program may have; one action per kind of statement. |
| `ToolGuard` | `hooks.py` (first half of the result hook) | Extends `PythonReads`: which calls' results are withheld. |
| `Egress` | `middleware.py`, `redactor.py`, `registry.py`, `state.py`, `result_guard.py`, `hooks.py` | Extends `ToolGuard`. A request is the sequence of its leaves; `stage` and `phase` follow an entry through snapshot, redaction, private keys, recovery, quarantine and the last check; actions are cut where the registry is read, other middleware edits, or the file is rewritten. |
| `LocalDiagnostics` | the three copies of ledger, queue and worker | `file` says which copy; the lock, the ledger, the queue's length, the worker and the waiting test. |
| `ProcessAdapter` | `adapters/process.py`, `process_tools.py` | the leader and its descendants, pipes, the deadline, the rounds of the cleanup. |
| `HttpAdapter` | `adapters/http.py` | connect, headers, pieces of the body, what the library reads and passes on to nobody, the clock, the verdict. |
| `AdapterCall` | `tool_execution.py` (resolve and execute), `process_identity.py`, `injection.py` | Extends both adapters: program identity, private copy, lease, one adapter, answer. |
| `...Proofs` | | the theorems about the module of that name, and their proofs |
| `MC...` | | model values and symmetry for the runs |

A definition marked "mutant" is a deliberately wrong version of the one below
it. It is no part of any specification; it is what a property is tested with.

### Abstractions

- A credential, target, binding, turn and digest are one value `[args, config]`
  in a plan; `config` stands for the configuration's digest and its file
  identity, which a cooperative writer changes together. Program identity is
  left out of the plan.
- Time is whole seconds; the host's approval timeout is counted in half
  seconds, so that it may be fractional. `window` in a plan is when that
  timeout ends; it is there for one property.
- Nonces are numbers in order of creation: that two 128-bit random values
  differ is assumed.
- The payload that a stage is given is chosen anew at `approval` and `handler`
  (other plugins' middleware). Two assumptions about the host are built in, as
  the R2 document makes them: a call that was blocked or denied does not go on,
  and a call that named no credential when the human would have been asked names
  none in the handler (`HandedOn`). Without the second, `ImplementsUse` fails: a
  pending plan records that the human was asked, not that he has answered, so a
  call that skipped the question could use the plan of another call of its key.
- In `RuntimeConfig` a version is valid or in `Invalid`; which checks make it so
  is `ConfigDocument`'s. There, a check of one field (a host name, a header
  name, an argument vector) is a named fault that an entry has or has not; the
  grammars are left out. The `validate` command changes nothing, so it runs
  first and alone in `TargetCatalog`.
- Writers take the lock. A hand edit does not: it is in `TargetCatalog`, and in
  no other module, so the one thing only such an edit can cause in
  `finalize_reference_execution`, that its second look at the file differs from
  the first, is not reached; nor is the branch of `_build_view` that publishes an
  empty identity because its lstat failed. Reading the opened file is one step.
- `MarkerLapses`, `Reload` and a refusal in `Recheck` may happen at any time:
  the model allows more than the code there. Adapters are one step of
  `ReferenceCall`; `AdapterCall` has what they do.
- A text of a request is the set of what matters about it: a whole secret, one
  half of a secret (two adjoining halves make it), a seam where redaction would
  make a secret out of what is left, a token, private-key material, a boundary
  of it, something no scanner can read. Variants of a secret are a few kinds;
  two secrets' variants that cannot be told apart are a version of the file that
  does not build.
- A path is a value with its lexical parents and its real path; two spellings
  may lead to one file. The checker of programs is given assignments to a name,
  imports, reads and ifs; it does not follow loops, try, functions or other
  targets either, so neither does the model. The scan of the text of a program
  that does not parse is left out. `on_pre_tool_call` asks the same predicates
  before a call runs; the model has only the look at the result, which is the
  one that must suffice by itself.
- In `ProcessAdapter` a process has one name for ever: the reuse of a process
  number during the cleanup is left out. A descendant that leaves the group
  (setsid) keeps what it was given; the code cannot reach it, and
  `CredentialGone` does not speak of it. The work directory that a refused copy
  leaves behind is not kept.
- What a diagnostic says plays no part; a description that is truncated is one
  with fewer lines.

## Runs

| Run | Instance | What it shows |
|---|---|---|
| `plan_store` | 3 keys, capacity 2, 2 creators, 3 plans, 6 s, timeouts absent, half a second and above the ceiling | the store's invariants and what a step may never do, through expiry, tombstones, release of a key and a full store |
| `marker_store` | 3 keys, capacity 2, life 2 s, 6 s | a refused call stays blocked: also with the store full and a second overflow while the circuit is open |
| `reference_call` | 1 key, 2 workers, both host orders, 2 payloads, 2 versions, 2 plans, 3 s; calls in time (`CallsInTime`), two calls at a time on the same path (`OnePath`) | the calls implement `CredentialUse`, also when the key is freed and planned for again; nothing usable is left when a call ends; the locks nest |
| `reference_call_crossed` | agent order, 3 s | violation: a call that outlasts its plan and its tombstone consumes the plan of another |
| `runtime_config` | 2 loaders, 2 writers, 3 versions of which one is invalid, 1 failed poll before the deadline | the file is whole, and stays as it is under whoever holds the lock; views are of one version and current when published; all in every interleaving, crashes included; every wait for the lock ends |
| `runtime_config_generation` | the same | violation: two loads publish under one generation |
| `egress` | 6 messages of 12 leaves, of which two hold anything or three of the history hold trouble; 2 secrets, 5 versions of the file (one gives a secret two names, one does not build), 2 rounds of recovery, 24 paths with links, programs of 5 statements | nothing registered leaves; protected files do not come in; the checker of programs knows its bindings; the current input arrives or the request is blocked; mild trouble does not block; a second preparation is quiet |
| `egress_torn` | one request, whose history holds one secret torn over two pairs of leaves; 4 rounds | violation: neither leaf is isolated, and the request is blocked |
| `local_diagnostics` | 2 threads, 3 reports, a queue of 1, ledgers of 2 | once while remembered; idle means written; callers are never held up; what was accepted is written while the sink returns |
| `adapters` | a leader and a descendant, one stream of 2 pieces through a pipe of 1, a server of 2 addresses, 2 edits of the program | no secret with the group when the call ends; no output lost; the approved file runs; late bodies are refused; every call returns, unless a server feeds the library for ever |
| `http_deadline` | the same | violation: a server that drips holds a request beyond its total timeout, for any time |
| `target_catalog` | 1 loading process, 2 writers, 3 versions, 1 edit by hand, documents of at most 2 credentials and 2 bindings | a sidecar is true to its identity; success means refreshed; a registration shows the file; the verdict on a document is right |

Why the bounds are enough. A plan lives for one second of timeout plus one of
margin and its tombstone for one more, so six seconds let a key be used, freed
and used again; three keys on a store of two is the smallest full store with
someone outside. Two workers and one key suffice for calls that interfere,
since calls of different keys share only the locks and the capacity. In
`reference_call` three seconds let the key's first plan end, its tombstone go and
a second plan be made, approved and used; a store that frees the key a second
early breaks `ImplementsUse` there. Its two constraints prune the run: after a
state in which a call has outlasted its plan's tombstone (`CallsInTime`, the
hypothesis of the theorem `CallsImplementUse`; `reference_call_crossed` is the
run without it), and after one in which two calls under way take different paths
(`OnePath`, which only makes the run shorter: the theorem has the paths mixed).
The deployed values are a life of 360 seconds and a margin of 60, and up to eight
workers whose adapter runs of up to 120 seconds queue on the execution lock. One
failed poll separates "polled and waited" from "timed out". In `egress` two
rounds of recovery and three troubled leaves are the smallest exhausted budget
(the code has more rounds and the same loop), and two halves in two leaves the
smallest secret that only the serialised request has. A queue of one is full at
the second event, a ledger of two forgets at the third. A pipe that holds less
than the program writes is what makes reading while it runs matter; one
descendant is enough for a group that outlives its leader. Two writers and a
loader have all three kinds of task at once. The bounds on clock, plans,
versions, generations, reports and calls stop the systems, so these runs do not
check for deadlock; `marker_store`, whose operations are always possible, does.

Fairness. `RuntimeConfig!FairSpec`: weak fairness of each loading and writing
thread's own next step. Between two steps such a thread only sleeps for a poll
interval or makes a system call that does not block; no fairness is put on
starting, on failing or on obtaining the lock. `LocalDiagnostics!FairSpec`:
strong fairness of a thread's enqueueing and of the worker, since both take a
lock that others release again and again; none for the write to the sink, which
may block for ever (`AcceptedIsWritten` asks for a sink that returns).
`AdapterCall!FairSpec`: weak fairness of the handler, the adapter and the clock;
none for the program, its descendants or the server, so `AdapterReturns` holds
against programs that never end and servers that never answer, close at any point
or drip a body. It does not hold against a server that feeds the library for ever
with what is counted nowhere (`FeedLibrary`: responses 100, header bytes,
trailers), and says so: the library has limits of its own on a header line and on
the number of headers, but none on responses 100 or trailers, and each byte lets
the socket wait anew. There is no bound on `FeedLibrary` in the model; the time
beyond the deadline is one value (`elapsed` stays at `Total + 1`), since nothing
in the code tells later times apart.

## What is proved

For every value of the constants (any number of keys, threads, plans, messages,
paths and versions, any capacity, margin and deadline, subject to the named
assumptions in the modules):

- `PlanStoreProofs`: `TypeOK`; `TombstonesMatchPlans`; `SpentOnce`, through
  `NoncesApart` (plans and drafts have nonces of their own, live ones are
  unspent, pending ones were asked): a plan's use count alone is not inductive,
  since one must know that no second plan carries its nonce; `StoreBounded`,
  which needs the sets of the two maps related by cardinality and put's check
  after its cleanup; `CoversApprovalWindow` with the rounding;
  `KeyHeldForItsWindow`, `NoRevival` and `RefusedForCause` as action properties
  from these invariants.
- `ReferenceCallProofs`: every step of the middleware is a step of the plan
  store or leaves it alone (`CallImplementsStore`), so the store's theorems are
  the calls': `SpentOnce` again under `CallSpec`. `CallInv` ties the point where
  a call stands to the locks it holds and to the plan it carries; it gives
  `CallTypeOK`, `LocksNested` and `ClosedIsDead`. For the last the invariant
  says that a plan that a closed call has carried is terminal, and that the
  plan of a call inside `next_call` is still under its key, or gone for good.
- `MarkerStoreProofs`: `TypeOK`, `NoFailOpen`, `NoStaleMarker` and
  `MarkersBounded`. The invariant behind `NoFailOpen` says which marker or
  circuit covers each refusal, and until when; the bound needs that set() counts
  after its cleanup.
- `RuntimeConfigProofs`: `TypeOK`, `FileWhole`, `FileStillForHolders`,
  `PublishedIsOneVersion` and `PublishedWhenCurrent`. That the flock excludes is
  the kernel's doing and where the proof starts (`LockExcludes`), no result.
  `LockInv` ties the lock to the point a thread stands at; with it, no
  replacement is possible while a loader is between its read and its
  publication, which makes `DraftInv` (what has been read is what the file
  holds) inductive, and both properties of the view follow.
- `TargetCatalogProofs`: `CatalogTrue`, `OkMeansRefreshed` and
  `ShownIsOfTheFile`, for any number of generators, writers, registrations and
  edits. `LockInv` as above; `ReadInv` says what a generator knows after each of
  its looks (the descriptor is that of a version, what it read is what that
  inode holds, and after the last look what the file holds, unless an edit was
  torn), and that the identity of a generator about to write is not below
  anything committed, since no replacement commits while it holds the lock.
- `EgressProofs`, first part (paths): the store's directory is that of the
  profile the package is installed in; what leads into it is protected for a
  reader by whatever spelling, and for a search from above, at or below. From
  the assumptions `FileSystem` (parents form chains, real paths have real
  parents) and `Installed` (where the package lies).
- second part (the checker of programs): while it has found nothing, what it
  knows of each name covers what the name is in each execution
  (`BindingsCover`), so a program that it passes has opened no protected file.
  The invariant adds that the ifs the checker is in are nested as their
  executions are, and that each of their saved bindings covers the executions
  that wait at its else or end.
- third part (requests): `NothingRegisteredLeaves`, through what is clean at
  each phase for the registry in use, and that this registry has everything
  registered since the entry began; `ProtectedFileWithheld`, which rests on the
  two parts above; `BindingsCover` in every behaviour; and the three promises
  about what is not stopped. `CurrentInputKept`: preparing a request keeps its
  skeleton, so the leaves of the current input are known by where they are, and
  no action puts a quarantine marker there or takes a harmless text away.
  `SecondPassQuiet`: while the second preparation runs on what the first passed,
  under the registry that passed it, there is nothing to redact or to isolate,
  so the copy is still equal to what came in. `BlockedForCause`: `MildInv` says
  that the leaves that recovery has isolated so far are troubled leaves, as many
  as rounds were used, and every other leaf is as clean as it was, so the budget
  lasts until no trouble is left. That no secret is torn over two places is
  needed in exactly one step, the one that finds a leaf whose isolation lowers
  the count of variants (`egress_torn` is the counterexample without it).
- `AdapterCallProofs`: `CredentialGone`, `RunsWhatWasApproved`, `NothingLost`
  and `LateIsRefused`, for any number of descendants and streams and any limits.
  The invariant is made of one part for each adapter, kept by its own steps and
  its environment's, and one for the handler. For `CredentialGone` it is that a
  cleanup that has come past its SIGKILL, or found nobody to kill, leaves nobody
  well in the group, and nobody can be born into it; for `NothingLost`, that a
  stream which is no longer read has ended for good, and that the loop is left
  with success only when what the child wrote last has been read.
- `ReferenceCallProofs` has the refinement: `CallsImplementUse`, that the
  reference path implements `CredentialUse` step by step. Its hypothesis
  `CallsInTime` says that a call which has looked a plan up ends before that
  plan's tombstone is due. Nothing in the code sees to it, and it cannot be
  dropped: `reference_call_crossed` is a counterexample, and with the hypothesis
  there is none (`CallsInTimeNotCrossed`). The
  run `reference_call` has the same hypothesis as a constraint, so the theorem
  speaks of what TLC has checked.
- `LocalDiagnosticsProofs`: `OnceWhileRemembered`, from an equation that every
  step keeps: what was handed over of an event is what was forgotten of it, and
  one more while it is in a ledger. It needs that no notice is in the ledger
  twice and no session has two entries, through moves to the end and evictions.
  `IdleMeansWritten`, from the accounts of where each accepted event is (dealt
  with, with the worker, in the queue) and how far each counter is behind; they
  need that the lock has one holder and the worker is started once.
- `TargetCatalogProofs` has `VerdictRight`, too, for documents of any length:
  every check of a credential or binding is passed in its order, so the first
  that fails is of the first entry at fault. `DocumentsAssumption` says what a
  decoded document is (two finite sequences; a fault is a check that the entry
  has; an unknown type is a fault; an http binding shows a text or is at fault).

What is only model-checked: the liveness properties (`WaitsEnd`,
`HotPathReturns`, `AcceptedIsWritten`, `AdapterReturns`), which are outside the
prover. Every safety property that a run checks is a theorem.

## Disagreements with the documents

1. `docs/R2-...-落地方案.md:151` says states change one way only and CONSUMED is
   final; `lookup` and its kin turn an expired CONSUMED plan into INVALIDATED.
   It remains unusable (`NoRevival`), and all that is lost is the record that
   it was used. `ExpireInPlace` models the code; no run is spent on it.
2. The same document, line 243, says that two concurrent calls using each
   other's plan must be blocked. `finalize_reference_execution` checks the plan
   it looked up before it waited and consumes whichever is pending under the
   key. The wait has no bound; when it is longer than expiry plus margin and the
   key is in use again, the plans differ (`reference_call_crossed`).
3. `docs/R1B-...-实测报告.md:131` says a successful reload increments the
   generation; two loads at once read the same number.
4. `docs/R3-通用本地凭证注入-落地方案.md:269` asks for a wall-clock bound of a
   request by `total_timeout_seconds`, and `adapters/http.py:304` says that the
   body is read under a total deadline. Each wait of the socket is bounded, not
   the call that reads: the library goes on until it has the headers or a piece
   of up to 8192 bytes, so a server that sends one byte before each timeout
   holds the request longer. It is refused, but late (`http_deadline`). With responses
   100 before the headers, or trailers after the last chunk, which the library
   passes over without a count, the call need not return at all, and keeps both
   locks (`AdapterReturns` names this as the one exception).
5. `docs/R9-0.4.3-长Session连续性修复方案.md:14` says that what can be isolated in
   the history is isolated and the session goes on. `_try_aggregate_recovery`
   (`middleware.py:1425`) isolates a leaf only if that lowers the number of
   distinct variants in the serialised request. A secret that the history holds
   torn over two pairs of leaves is still there after any one isolation, so none
   is made and the request is blocked (`egress_torn`).

## A race that nothing detects

A user who edits the configuration between a generator's last look at the file
and its lstat of the identity, or in place between its read and that last look,
gets a sidecar that pairs the old bindings with the new identity. `torn` marks
these behaviours, and `CatalogTrue` and `ShownIsOfTheFile` exclude them and
nothing else. No document promises more: the documents speak of writers that
take the lock.

## Not modelled

- Release identity and freeze evidence: digests of files for a release, no
  behaviour at run time. Plugin registration: hooks registered once. The release
  and end-to-end scripts are a build and test harness; they are most of the
  repository's lines that no module covers.
- `ConfigLock` has the checks on the lock file and its directory as refusals
  without their causes. A lock file that is replaced while it is held would
  split the lock in two; the module's document leaves that outside its threat
  model, and the model has one lock.
- The grammar of references, of single fields of a document, and of shell
  commands; the matching of a secret's variants in a text; the environment and
  argument vector of a program; TLS and redirects, which are the library's.
- The loops, try statements and functions of a program for execute_code, as the
  checker does not follow them, and the text scan of what does not parse.
- A failing load marks the runtime unavailable after it has left the lock
  (`runtime_config.py:483`); the model has the step, and no property rules it
  out: it fails closed and the next request loads again.
