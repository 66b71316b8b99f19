-------------------------- MODULE LocalDiagnostics --------------------------
(***************************************************************************)
(* The local messages of the guard: middleware.py (why a configuration was *)
(* refused), unregistered_warning.py (a credential nobody registered) and  *)
(* local_events.py (something failed closed).  Each of the three has its   *)
(* own copy of the same bounded queue with one daemon worker that writes   *)
(* to stderr, and the first two remember what they have shown.  The        *)
(* variable file says which of the three this is.                          *)
(*                                                                         *)
(* What an event says plays no part once a ledger has let it pass, so the  *)
(* queue is its length and a caller has a number of events to enqueue.     *)
(*                                                                         *)
(* The callers are on the way of a request to the provider.  The sink may  *)
(* block for ever: Write has no fairness.                                  *)
(*                                                                         *)
(* A definition marked "mutant" is not part of the model: it is a wrong    *)
(* version of the definition below it, kept to test the properties.        *)
(***************************************************************************)
EXTENDS Naturals, FiniteSets, Sequences, SequencesExt, FiniteSetsExt

CONSTANTS
    Thread,        \* threads that report something
    Notice,        \* events of middleware.py: a code with a location
    Weight,        \* Weight[n], the characters of a notice's key
    Session,       \* named sessions
    NoSession,     \* an empty or oversized session id
    Family,        \* KNOWN_FAMILIES
    Scan,          \* what a request may show: its session, the families found
    Failure,       \* events of local_events.py
    MaxItems,      \* DIAG_LEDGER_MAX_ITEMS
    MaxChars,      \* DIAG_LEDGER_MAX_CHARS
    MaxSessions,   \* _MAX_SESSIONS
    QueueMax,      \* the queue's size
    MaxReports     \* bound: reports in a behaviour

Warning == (Session \cup {NoSession}) \X Family
Event   == Notice \cup Warning \cup Failure

ASSUME DiagnosticsAssumption ==
    /\ NoSession \notin Session
    /\ Weight \in [Notice -> Nat]
    /\ Scan \subseteq (Session \cup {NoSession}) \X ((SUBSET Family) \ {{}})
    /\ Notice \cap Warning = {} /\ Failure \cap (Notice \cup Warning) = {}
    /\ "free" \notin Thread
    /\ {MaxItems, MaxChars, MaxSessions, QueueMax} \subseteq Nat \ {0}

VARIABLES
    file,        \* whose copy this is
    ledger,      \* _EMITTED_NOTICES, oldest first
    chars,       \* _EMITTED_NOTICE_CHARS
    sessions,    \* _SESSION_FAMILIES, oldest first: [of, families]
    processwide, \* _PROCESS_FAMILIES
    started,     \* _WORKER_STARTED
    worker,      \* where the worker is; "none" before its thread runs
    queue,       \* events in the queue
    lock,        \* who holds the idle lock: a thread, or "free"
    submitted, completed, inFlight,   \* the counters under the idle lock
    todo,        \* per thread, how many events it has yet to enqueue
    pc,          \* per thread, where it is with the next of them
    waiter,      \* a test that waits for the worker to be idle
    sample,      \* what the waiter read: submitted = completed and nothing in flight
    reports,     \* reports so far
    log, done,   \* history: events the queue accepted, events dealt with
    offers,      \* history: how often an event was handed over
    forgotten,   \* history: how often a ledger forgot it
    due          \* history: log when the wait began

ledgers  == <<ledger, chars, sessions, processwide>>
counters == <<submitted, completed, inFlight>>
callers  == <<todo, pc, reports, offers>>
waiting  == <<waiter, sample, due>>
vars     == <<file, ledgers, started, worker, queue, lock, counters,
              callers, waiting, log, done, forgotten>>

-----------------------------------------------------------------------------
(* The ledger of notices.                                                  *)

Total(s) == FoldSeq(LAMBDA n, sum : Weight[n] + sum, 0, s)

\* How many of the oldest notices make room for n.
Evicted(s, n) == Min({k \in 0..Len(s) :
    LET rest == SubSeq(s, k + 1, Len(s))
    IN  rest = <<>> \/ (Len(rest) < MaxItems /\ Total(rest) + Weight[n] <= MaxChars)})

MovedToEnd(s, i) == Append(RemoveAt(s, i), s[i])

Forget(E) == forgotten' = [e \in Event |-> forgotten[e] + IF e \in E THEN 1 ELSE 0]

Offer(t, E) ==
    /\ todo' = [todo EXCEPT ![t] = Cardinality(E)]
    /\ offers' = [e \in Event |-> offers[e] + IF e \in E THEN 1 ELSE 0]

Ready(t) == todo[t] = 0 /\ reports < MaxReports

\* _emit_local_once, in the notice lock: a notice seen before is moved to the
\* end; a key longer than the ledger is never shown; the others are remembered,
\* before it is known whether the queue takes them.
Remember(t, n) ==
    LET k == Evicted(ledger, n)
    IN  /\ ledger' = Append(SubSeq(ledger, k + 1, Len(ledger)), n)
        /\ chars' = Total(ledger')
        /\ Forget(ToSet(SubSeq(ledger, 1, k)))
        /\ Offer(t, {n})

EmitUnlocked(t) ==                                    \* mutant
    /\ file = "middleware"
    /\ UNCHANGED <<file, sessions, processwide, started, worker, queue, lock, counters,
                   waiting, log, done>>
    /\ \E n \in Notice :
         \/ /\ Ready(t) /\ pc[t] = "ensure" /\ n \notin ToSet(ledger) /\ Weight[n] <= MaxChars
            /\ pc' = [pc EXCEPT ![t] = n] /\ reports' = reports + 1
            /\ UNCHANGED <<ledger, chars, forgotten, todo, offers>>
         \/ /\ pc[t] = n /\ pc' = [pc EXCEPT ![t] = "ensure"]
            /\ Remember(t, n) /\ UNCHANGED reports
EmitLocalOnce(t) ==
    /\ file = "middleware" /\ Ready(t)
    /\ reports' = reports + 1
    /\ \E n \in Notice :
         \/ /\ n \notin ToSet(ledger) /\ Weight[n] <= MaxChars
            /\ Remember(t, n)
         \/ /\ \E i \in DOMAIN ledger :
                 ledger[i] = n /\ ledger' = MovedToEnd(ledger, i)
            /\ UNCHANGED <<chars, forgotten, todo, offers>>
         \/ /\ n \notin ToSet(ledger) /\ Weight[n] > MaxChars
            /\ UNCHANGED <<ledger, chars, forgotten, todo, offers>>
    /\ UNCHANGED <<file, sessions, processwide, started, worker, queue, lock, counters,
                   pc, waiting, log, done>>

-----------------------------------------------------------------------------
(* The ledger of sessions.                                                 *)

Known(s) == \E i \in DOMAIN sessions : sessions[i].of = s

\* note_families_and_select_emits: all families F that one request of session s
\* shows, in one section.
NoteAnonymous(t, F) ==
    /\ Offer(t, {NoSession} \X (F \ processwide))
    /\ processwide' = processwide \cup F
    /\ UNCHANGED <<sessions, forgotten>>

NoteKnown(t, i, F) ==
    LET s    == sessions[i].of
        seen == sessions[i].families
    IN  /\ Offer(t, {s} \X (F \ seen))
        /\ sessions' = Append(RemoveAt(sessions, i), [of |-> s, families |-> seen \cup F])
        /\ UNCHANGED <<processwide, forgotten>>

NoteNew(t, s, F) ==
    LET full == Len(sessions) >= MaxSessions
        rest == IF full THEN Tail(sessions) ELSE sessions
    IN  /\ Offer(t, {s} \X F)
        /\ sessions' = Append(rest, [of |-> s, families |-> F])
        /\ Forget(IF full THEN {sessions[1].of} \X sessions[1].families ELSE {})
        /\ UNCHANGED processwide

NoteFamilies(t) ==
    /\ file = "unregistered_warning" /\ Ready(t)
    /\ reports' = reports + 1
    /\ \E found \in Scan :
         LET s == found[1]
             F == found[2]
         IN  \/ s = NoSession /\ NoteAnonymous(t, F)
             \/ \E i \in DOMAIN sessions : sessions[i].of = s /\ NoteKnown(t, i, F)
             \/ s # NoSession /\ ~ Known(s) /\ NoteNew(t, s, F)
    /\ UNCHANGED <<file, ledger, chars, started, worker, queue, lock, counters,
                   pc, waiting, log, done>>

\* local_events.py remembers nothing.
SubmitFailClosed(t) ==
    /\ file = "local_events" /\ Ready(t)
    /\ reports' = reports + 1
    /\ \E e \in Failure : Offer(t, {e})
    /\ UNCHANGED <<file, ledgers, started, worker, queue, lock, counters,
                   pc, waiting, log, done, forgotten>>

-----------------------------------------------------------------------------
(* Enqueueing.                                                             *)

NextEvent(t) == todo' = [todo EXCEPT ![t] = @ - 1]
GoTo(t, p)   == pc' = [pc EXCEPT ![t] = p]

\* _ensure_worker: the flag is set in the worker lock, before the thread runs.
EnsureWorker(t) ==
    /\ todo[t] > 0 /\ pc[t] = "ensure"
    /\ GoTo(t, IF started THEN "try" ELSE "starting")
    /\ started' = TRUE
    /\ UNCHANGED <<file, ledgers, worker, queue, lock, counters,
                   todo, reports, offers, waiting, log, done, forgotten>>

StartThread(t) ==
    /\ pc[t] = "starting"
    /\ worker' = "idle"
    /\ GoTo(t, "try")
    /\ UNCHANGED <<file, ledgers, started, queue, lock, counters,
                   todo, reports, offers, waiting, log, done, forgotten>>

\* thread.start raises: the event is dropped, and nobody tries again.
StartFails(t) ==
    /\ pc[t] = "starting"
    /\ NextEvent(t) /\ GoTo(t, "ensure")
    /\ UNCHANGED <<file, ledgers, started, worker, queue, lock, counters,
                   reports, offers, waiting, log, done, forgotten>>

\* put_nowait and the count are one section of the idle lock; the worker takes
\* from the queue without that lock.
PutUnlocked(t) ==                                     \* mutant
    /\ pc[t] = "try" /\ queue < QueueMax
    /\ queue' = queue + 1
    /\ log' = log + 1
    /\ GoTo(t, "put")
    /\ UNCHANGED <<file, ledgers, started, worker, lock, counters,
                   todo, reports, offers, waiting, done, forgotten>>
Put(t) ==
    /\ pc[t] = "try" /\ lock = "free"
    /\ queue < QueueMax
    /\ queue' = queue + 1
    /\ log' = log + 1
    /\ lock' = t
    /\ GoTo(t, "put")
    /\ UNCHANGED <<file, ledgers, started, worker, counters,
                   todo, reports, offers, waiting, done, forgotten>>

Count(t) ==
    /\ pc[t] = "put"
    /\ submitted' = submitted + 1
    /\ lock' = "free"
    /\ NextEvent(t) /\ GoTo(t, "ensure")
    /\ UNCHANGED <<file, ledgers, started, worker, queue, completed, inFlight,
                   reports, offers, waiting, log, done, forgotten>>

\* queue.Full: the event is lost, and a ledger has remembered it all the same.
Drop(t) ==
    /\ pc[t] = "try" /\ lock = "free"
    /\ queue >= QueueMax
    /\ NextEvent(t) /\ GoTo(t, "ensure")
    /\ UNCHANGED <<file, ledgers, started, worker, queue, lock, counters,
                   reports, offers, waiting, log, done, forgotten>>

-----------------------------------------------------------------------------
(* The worker.                                                             *)

Get ==
    /\ worker = "idle" /\ queue > 0
    /\ queue' = queue - 1
    /\ worker' = "took"
    /\ UNCHANGED <<file, ledgers, started, lock, counters, callers, waiting, log, done, forgotten>>

BeginWriteLocked ==                                   \* mutant
    /\ worker = "took" /\ lock = "free"
    /\ inFlight' = inFlight + 1
    /\ worker' = "writing"
    /\ lock' = "worker"
    /\ UNCHANGED <<file, ledgers, started, queue, submitted, completed,
                   callers, waiting, log, done, forgotten>>
BeginWrite ==
    /\ worker = "took" /\ lock = "free"
    /\ inFlight' = inFlight + 1
    /\ worker' = "writing"
    /\ UNCHANGED <<file, ledgers, started, queue, lock, submitted, completed,
                   callers, waiting, log, done, forgotten>>

\* The text is composed, scrubbed, written and flushed, or an exception is
\* swallowed.
Write ==
    /\ worker = "writing"
    /\ done' = done + 1
    /\ worker' = "wrote"
    /\ UNCHANGED <<file, ledgers, started, queue, lock, counters, callers, waiting,
                   log, forgotten>>

EndWriteAbandoned ==                                  \* mutant
    /\ worker = "wrote" /\ lock = "free"
    /\ inFlight' = inFlight - 1
    /\ completed' = completed + 1
    /\ worker' = "ended"
    /\ UNCHANGED <<file, ledgers, started, queue, lock, submitted,
                   callers, waiting, log, done, forgotten>>
EndWrite ==
    /\ worker = "wrote" /\ lock = "free"
    /\ inFlight' = inFlight - 1
    /\ completed' = completed + 1
    /\ worker' = "idle"
    /\ UNCHANGED <<file, ledgers, started, queue, lock, submitted,
                   callers, waiting, log, done, forgotten>>

-----------------------------------------------------------------------------
(* wait_..._idle_for_tests: the counters in the lock, the queue outside it. *)

BeginWait ==
    /\ waiter = "off"
    /\ waiter' = "waiting"
    /\ due' = log
    /\ UNCHANGED <<file, ledgers, started, worker, queue, lock, counters, callers, sample,
                   log, done, forgotten>>

ReadCounters ==
    /\ waiter = "waiting" /\ lock = "free"
    /\ sample' = (submitted = completed /\ inFlight = 0)
    /\ waiter' = "read"
    /\ UNCHANGED <<file, ledgers, started, worker, queue, lock, counters, callers, due,
                   log, done, forgotten>>

\* Idle, or another look after a short sleep.
Decide ==
    /\ waiter = "read"
    /\ waiter' = IF sample /\ queue = 0 THEN "idle" ELSE "waiting"
    /\ UNCHANGED <<file, ledgers, started, worker, queue, lock, counters, callers, sample,
                   due, log, done, forgotten>>

-----------------------------------------------------------------------------

Init ==
    /\ file \in {"middleware", "unregistered_warning", "local_events"}
    /\ ledger = <<>> /\ chars = 0 /\ sessions = <<>> /\ processwide = {}
    /\ started = FALSE /\ worker = "none"
    /\ queue = 0 /\ lock = "free"
    /\ submitted = 0 /\ completed = 0 /\ inFlight = 0
    /\ todo = [t \in Thread |-> 0] /\ pc = [t \in Thread |-> "ensure"]
    /\ waiter = "off" /\ sample = FALSE /\ due = 0
    /\ reports = 0 /\ log = 0 /\ done = 0
    /\ offers = [e \in Event |-> 0] /\ forgotten = [e \in Event |-> 0]

Report(t)  == EmitLocalOnce(t) \/ NoteFamilies(t) \/ SubmitFailClosed(t)
Enqueue(t) == EnsureWorker(t) \/ StartThread(t) \/ StartFails(t) \/ Put(t) \/ Count(t) \/ Drop(t)
Worker     == Get \/ BeginWrite \/ EndWrite
Wait       == BeginWait \/ ReadCounters \/ Decide

Next ==
    \/ \E t \in Thread : Report(t) \/ Enqueue(t)
    \/ Worker \/ Write \/ Wait

Spec == Init /\ [][Next]_vars

\* The threads run on and the worker runs on; the sink may block in Write.
\* The idle lock is held for a moment at a time, over and over: strong fairness
\* says that a thread waiting for it is not passed over for ever.
FairSpec ==
    /\ Spec
    /\ \A t \in Thread : SF_vars(Enqueue(t))
    /\ SF_vars(Worker)

-----------------------------------------------------------------------------

\* However many threads report it at the same time, an event is handed over
\* once for every time that its ledger has forgotten it, plus once; warnings
\* without a session are never forgotten.
OnceWhileRemembered ==
    \A e \in Notice \cup Warning :
        /\ offers[e] <= forgotten[e] + 1
        /\ e \in Warning /\ e[1] = NoSession => forgotten[e] = 0

\* When the wait says that the worker is idle, every event that the queue had
\* accepted before the wait began has been dealt with.
IdleMeansWritten == waiter = "idle" => done >= due

\* A caller on the way to the provider is never held up, not even by a sink
\* that blocks for ever.
HotPathReturns == \A t \in Thread : todo[t] > 0 ~> todo[t] = 0

\* While the sink returns and the worker could be started, every event that
\* the queue accepted is written.
AcceptedIsWritten ==
    []<>(worker # "writing") =>
        \A n \in 1..MaxReports :
            (log >= n /\ worker # "none") ~> (done >= n)

=============================================================================
