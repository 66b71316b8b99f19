--------------------------- MODULE ReferenceCall ---------------------------
(***************************************************************************)
(* A tool call that names a credential, from the host's request to the     *)
(* injection: tool_request.py, approval.py and tool_execution.py over the  *)
(* plan store, the invalid markers, the published configuration, the       *)
(* configuration lock and the execution lock.                              *)
(*                                                                         *)
(* The host runs each call on a worker thread.  The agent's own path is    *)
(*   tool_request, tool_execution [ pre_tool_call, human, handler ]        *)
(* with the last three inside tool_execution's next_call; the backup       *)
(* dispatcher's path is                                                    *)
(*   tool_request, pre_tool_call, human, tool_execution [ handler ].       *)
(* Other plugins' middleware may replace the payload between any two       *)
(* stages, so every stage is given one of its own; but a payload that      *)
(* named no credential in pre_tool_call names none in the handler either.  *)
(* The host is trusted to stop a call that is blocked or that the human    *)
(* denies.                                                                 *)
(*                                                                         *)
(* Each action is the work between two points where another thread can     *)
(* change what it reads: one method of the plan store, the acquisition of  *)
(* a lock, or the answer of the human.  A version of the configuration     *)
(* stands for its digest and its file identity, which change together.     *)
(*                                                                         *)
(* A definition marked "mutant" is not part of the model: it is a wrong    *)
(* version of the definition below it, kept to test the properties.        *)
(***************************************************************************)
EXTENDS PlanStore, Sequences

CONSTANTS
    Args,         \* payloads that name a credential
    Plain,        \* a payload that names none
    Host,         \* the paths in use: a subset of {"agent", "dispatcher"}
    MaxVersion    \* bound on the versions of the configuration file

Worker      == Creator
Payload     == Args \cup {Plain}
Version     == 1..MaxVersion
Unavailable == 0
Nobody      == "nobody"

ASSUME ReferenceCallAssumption ==
    /\ Call = [args : Args, config : Version]
    /\ Plain \notin Args
    /\ Host \subseteq {"agent", "dispatcher"}
    /\ MaxVersion \in Nat \ {0}
    /\ Nobody \notin Worker

VARIABLES
    pc,          \* where each worker's call stands
    call,        \* what the call carries: see CallState
    marked,      \* keys under which an invalid marker is in force
    disk,        \* version of the configuration file
    published,   \* version of the published view, or Unavailable
    readers,     \* workers that hold the configuration lock, shared
    executing,   \* the worker that holds the execution lock, or Nobody
    injections,  \* history: the injections, in order
    closed       \* history: nonces whose execution is over

callVars == <<pc, call, marked, disk, published, readers, executing, injections, closed>>
allVars  == <<vars, callVars>>

\* payload: what the stage was given; plan and view: what it last read of the
\* store and of the published view; inside: the nonce of the plan that let the
\* call into tool_execution's next_call, or 0 outside; approved: the plan and the
\* payload that the human approved in this call.
CallState ==
    [key : Key, host : Host, payload : Payload, plan : Plan \cup {NoPlan},
     view : Version \cup {Unavailable}, inside : Nonce \cup {0},
     approved : [nonce : Nonce \cup {0}, args : Payload, config : Version \cup {0}]]

NotApproved == [nonce |-> 0, args |-> Plain, config |-> 0]

NoCall == [state |-> "ABSENT"]

Received(k, o) ==
    [key |-> k, host |-> o, payload |-> Plain, plan |-> NoPlan,
     view |-> Unavailable, inside |-> 0, approved |-> NotApproved]

CallInit ==
    /\ Init
    /\ pc = [w \in Worker |-> "idle"]
    /\ call = [w \in Worker |-> NoCall]
    /\ marked = {}
    /\ disk = 1
    /\ published = 1
    /\ readers = {}
    /\ executing = Nobody
    /\ injections = <<>>
    /\ closed = {}

-----------------------------------------------------------------------------
(* What the stages have in common.                                         *)

At(w, l)   == pc[w] = l
GoTo(w, l) == pc' = [pc EXCEPT ![w] = l]

\* The call is over; nothing of it is kept.
Return(w) == GoTo(w, "idle") /\ call' = [call EXCEPT ![w] = NoCall]

\* The stage is over without an answer for the host to go on with: next_call
\* returns to tool_execution when the call is inside it.
Stop(w) ==
    IF call[w].inside # 0 THEN GoTo(w, "after") /\ UNCHANGED call ELSE Return(w)

Overdue(k) == plans[k] # NoPlan /\ IsExpired(plans[k])

\* InjectionPlanStore.lookup; its result is plans'[k].
LookedUp(k) ==
    \/ ExpireInPlace(k)
    \/ ~Overdue(k) /\ UNCHANGED <<storeVars, asked, uses>>

\* invalidate, with its error ignored when the plan is absent or terminal.
InvalidateIfLive(k) ==
    /\ \/ plans[k].state \in Live /\ MarkTerminal(k, "INVALIDATED")
       \/ plans[k].state \notin Live /\ UNCHANGED storeVars
    /\ UNCHANGED <<asked, uses>>

\* A lookup, then invalidate unless the plan turned out terminal.
FailClose(k) ==
    IF Overdue(k) THEN ExpireInPlace(k) ELSE InvalidateIfLive(k)

\* Shared configuration lock and execution lock are left together.
ReleaseExecutionOnly(w) ==                            \* mutant
    /\ UNCHANGED readers
    /\ executing' = IF executing = w THEN Nobody ELSE executing
ReleaseLocks(w) ==
    /\ readers' = readers \ {w}
    /\ executing' = IF executing = w THEN Nobody ELSE executing

\* What no stage after tool_request changes.
creatorVars == <<now, drafts, built, disk, published>>
lockVars    == <<readers, executing>>
historyVars == <<injections, closed>>

-----------------------------------------------------------------------------
(* on_tool_request.                                                        *)

FirstStage(o) == IF o = "agent" THEN "execution" ELSE "approval"

Receive(w, k, o, l) ==
    /\ At(w, "idle")
    /\ GoTo(w, l)
    /\ call' = [call EXCEPT ![w] = Received(k, o)]

\* Without a reference the key's marker is cleared, unless no view is published.
RequestPlain(w, k, o) ==
    /\ Receive(w, k, o, FirstStage(o))
    /\ marked' = IF published = Unavailable THEN marked ELSE marked \ {k}
    /\ UNCHANGED <<vars, disk, published, lockVars, historyVars>>

\* The view is unavailable or no longer that of the file, or the payload does not
\* match exactly one binding: the call goes on with a marker and without a plan.
RequestRefused(w, k, o) ==
    /\ Receive(w, k, o, FirstStage(o))
    /\ marked' = marked \cup {k}
    /\ UNCHANGED <<vars, disk, published, lockVars, historyVars>>

RequestAnalyzed(w, k, o, a, h) ==
    /\ published # Unavailable /\ disk = published
    /\ Receive(w, k, o, "put")
    /\ BuildPlan(w, k, [args |-> a, config |-> published], h)
    /\ UNCHANGED <<marked, disk, published, lockVars, historyVars>>

\* put, and then the marker: cleared with a plan, set when put refused it.
RequestPut(w) ==
    LET k == call[w].key IN
    /\ At(w, "put")
    /\ PutPlan(w)
    /\ marked' = IF plans'[k] = drafts[w].plan THEN marked \ {k} ELSE marked \cup {k}
    /\ GoTo(w, FirstStage(call[w].host))
    /\ UNCHANGED <<call, disk, published, lockVars, historyVars>>

-----------------------------------------------------------------------------
(* on_pre_tool_call, and the human.                                        *)

AfterApproval(w) == IF call[w].host = "agent" THEN "handler" ELSE "execution"

\* A payload without a reference needs no approval.
ApprovalNotNeeded(w) ==
    /\ At(w, "approval")
    /\ GoTo(w, AfterApproval(w))
    /\ UNCHANGED <<storeVars, asked, uses, creatorVars, call, marked, lockVars, historyVars>>

\* A marker is in force, or no view is published and every reference is unknown.
ApprovalBlocked(w) ==
    LET k == call[w].key IN
    /\ At(w, "approval")
    /\ k \in marked \/ published = Unavailable
    /\ marked' = marked \ {k}
    /\ Stop(w)
    /\ UNCHANGED <<storeVars, asked, uses, creatorVars, lockVars, historyVars>>

ApprovalLookup(w, x) ==
    LET k == call[w].key IN
    /\ At(w, "approval")
    /\ k \notin marked /\ published # Unavailable
    /\ LookedUp(k)
    /\ \/ /\ plans'[k].state = "ANALYZED"
          /\ call' = [call EXCEPT ![w].payload = x, ![w].plan = plans'[k],
                                  ![w].view = published]
          /\ GoTo(w, "posture")
       \/ plans'[k].state # "ANALYZED" /\ Stop(w)
    /\ UNCHANGED <<creatorVars, marked, lockVars, historyVars>>

\* Approvals are not manual, or are bypassed, or the plan is of another tool or
\* turn, or no file is found: blocked, the plan left as it is.
PostureRefused(w) ==
    /\ At(w, "posture")
    /\ Stop(w)
    /\ UNCHANGED <<storeVars, asked, uses, creatorVars, marked, lockVars, historyVars>>

\* The posture allows: plan, view and file must be of one version.
ApprovalConfig(w) ==
    LET c == call[w] IN
    /\ At(w, "posture")
    /\ \/ /\ disk = c.plan.call.config /\ disk = c.view
          /\ GoTo(w, "pending")
          /\ UNCHANGED <<storeVars, asked, uses, call>>
       \/ /\ ~(disk = c.plan.call.config /\ disk = c.view)
          /\ InvalidateIfLive(c.key)
          /\ Stop(w)
    /\ UNCHANGED <<creatorVars, marked, lockVars, historyVars>>

\* mark_approval_pending, whose result replaces the plan that was looked up.
ApprovalPending(w) ==
    LET k == call[w].key IN
    /\ At(w, "pending")
    /\ \/ /\ MarkPending(k)
          /\ call' = [call EXCEPT ![w].plan = plans'[k]]
          /\ GoTo(w, "asked")
       \/ ExpireInPlace(k) /\ Stop(w)
       \/ /\ plans[k].state # "ANALYZED"
          /\ ~Overdue(k)
          /\ UNCHANGED <<storeVars, asked, uses>>
          /\ Stop(w)
    /\ UNCHANGED <<creatorVars, marked, lockVars, historyVars>>

\* The payload is not the one that was analysed, or its text fails the template.
MessageRefused(w) ==
    /\ At(w, "asked")
    /\ InvalidateIfLive(call[w].key)
    /\ Stop(w)
    /\ UNCHANGED <<creatorVars, marked, lockVars, historyVars>>

\* canonical_args_digest: the payload is the one that was analysed.
SameArgs(payload, plan) == payload = plan.call.args

\* _reference_approval_message
MessageShown(w) == At(w, "asked") /\ SameArgs(call[w].payload, call[w].plan)

HumanApproves(w) ==
    LET c == call[w] IN
    /\ MessageShown(w)
    /\ GoTo(w, AfterApproval(w))
    /\ call' = [call EXCEPT ![w].approved =
                       [nonce |-> c.plan.nonce, args |-> c.payload,
                        config |-> c.plan.call.config]]
    /\ UNCHANGED <<storeVars, asked, uses, creatorVars, marked, lockVars, historyVars>>

\* Or does not answer in time.
HumanDenies(w) ==
    /\ MessageShown(w)
    /\ Stop(w)
    /\ UNCHANGED <<storeVars, asked, uses, creatorVars, marked, lockVars, historyVars>>

-----------------------------------------------------------------------------
(* on_tool_execution, before and after next_call.                          *)

AfterEntry(w) == IF call[w].host = "agent" THEN "approval" ELSE "handler"

\* Neither a reference nor a plan: a plain tool call, passed on untouched.
ExecutionPlain(w) ==
    LET k == call[w].key IN
    /\ At(w, "execution")
    /\ plans[k] = NoPlan
    /\ GoTo(w, AfterEntry(w))
    /\ UNCHANGED <<storeVars, asked, uses, creatorVars, call, marked, lockVars, historyVars>>

ExecutionBlocked(w) ==
    LET k == call[w].key IN
    /\ At(w, "execution")
    /\ k \in marked
    /\ LookedUp(k)
    /\ marked' = marked \ {k}
    /\ Return(w)
    /\ UNCHANGED <<creatorVars, lockVars, historyVars>>

ExecutionEntered(w) ==
    LET k == call[w].key IN
    /\ At(w, "execution")
    /\ k \notin marked
    /\ LookedUp(k)
    /\ \/ /\ plans'[k].state \in Live
          /\ call' = [call EXCEPT ![w].inside = plans'[k].nonce]
          /\ GoTo(w, AfterEntry(w))
       \/ plans'[k].state \notin Live /\ Return(w)
    /\ UNCHANGED <<creatorVars, marked, lockVars, historyVars>>

\* The host names no turn: the plan, if there is one, is made terminal.
ExecutionUnidentified(w) ==
    LET k == call[w].key IN
    /\ At(w, "execution")
    /\ k \notin marked
    /\ FailClose(k)
    /\ Return(w)
    /\ UNCHANGED <<creatorVars, marked, lockVars, historyVars>>

\* next_call is back: a plan that was not consumed is made terminal.
ExecutionLeftOpen(w) ==                               \* mutant
    /\ At(w, "after")
    /\ closed' = closed \cup {call[w].inside}
    /\ Return(w)
    /\ UNCHANGED <<storeVars, asked, uses, creatorVars, marked, lockVars, injections>>
ExecutionLeft(w) ==
    /\ At(w, "after")
    /\ FailClose(call[w].key)
    /\ closed' = closed \cup {call[w].inside}
    /\ Return(w)
    /\ UNCHANGED <<creatorVars, marked, lockVars, injections>>

-----------------------------------------------------------------------------
(* The handler and finalize_reference_execution.                           *)

\* The payload is not a valid reference request, or a marker is in force.
HandlerRefused(w) ==
    /\ At(w, "handler")
    /\ Stop(w)
    /\ UNCHANGED <<storeVars, asked, uses, creatorVars, marked, lockVars, historyVars>>

\* What the host is trusted with: the handler of a call that named no credential when
\* the human would have been asked is handed none.
HandedOn(before, x) == before = Plain => x = Plain

\* validate_http_credential_request_args, validate_credential_process_run_args: a
\* payload without a reference is no request.
ValidRequest(payload) == payload # Plain

HandlerLookup(w, x) ==
    LET k == call[w].key IN
    /\ At(w, "handler")
    /\ HandedOn(call[w].payload, x)
    /\ ValidRequest(x)
    /\ k \notin marked
    /\ \/ /\ plans[k].state = "APPROVAL_PENDING" /\ ~IsExpired(plans[k])
          /\ call' = [call EXCEPT ![w].payload = x, ![w].plan = plans[k]]
          /\ GoTo(w, "lock")
          /\ UNCHANGED <<storeVars, asked, uses>>
       \/ /\ ~(plans[k].state = "APPROVAL_PENDING" /\ ~IsExpired(plans[k]))
          /\ FailClose(k)
          /\ Stop(w)
    /\ UNCHANGED <<creatorVars, marked, lockVars, historyVars>>

TakeConfigLock(w) ==
    /\ At(w, "lock")
    /\ readers' = readers \cup {w}
    /\ GoTo(w, "locked")
    /\ UNCHANGED <<storeVars, asked, uses, creatorVars, call, marked, executing, historyVars>>

\* Not acquired in time, or at all.
ConfigLockFails(w) ==
    /\ At(w, "lock")
    /\ InvalidateIfLive(call[w].key)
    /\ Stop(w)
    /\ UNCHANGED <<creatorVars, marked, lockVars, historyVars>>

\* A wait without a bound.
TakeExecutionLock(w) ==
    /\ At(w, "locked")
    /\ executing = Nobody
    /\ executing' = w
    /\ GoTo(w, "recheck")
    /\ UNCHANGED <<storeVars, asked, uses, creatorVars, call, marked, readers, historyVars>>

\* The plan that was looked up before the locks, the payload, the view and the
\* file must agree; if not, or if the tool or the turn is another (which the model
\* leaves open), whatever plan the key has by now is invalidated.
AgreeWithoutArgs(c) ==                                \* mutant
    /\ published # Unavailable /\ disk = published
    /\ c.plan.call.config = disk
Agree(c) ==
    /\ published # Unavailable /\ disk = published
    /\ SameArgs(c.payload, c.plan) /\ c.plan.call.config = disk

Recheck(w) ==
    LET c == call[w] IN
    /\ At(w, "recheck")
    /\ \/ /\ Agree(c)
          /\ call' = [call EXCEPT ![w].view = published]
          /\ GoTo(w, "consume")
          /\ UNCHANGED <<storeVars, asked, uses, lockVars>>
       \/ /\ InvalidateIfLive(c.key)
          /\ ReleaseLocks(w)
          /\ Stop(w)
    /\ UNCHANGED <<creatorVars, marked, historyVars>>

\* The plan under the key is consumed.  (The file is looked at once more before: a
\* second time under the same lock, so only a writer without the lock, which this
\* module has not, could make that look differ from the first.)
ConsumePlan(w) ==
    LET c == call[w] IN
    /\ At(w, "consume")
    /\ \/ /\ Spend(c.key)
          /\ GoTo(w, "inject")
          /\ UNCHANGED <<call, lockVars>>
       \/ /\ ExpireInPlace(c.key)
          /\ ReleaseLocks(w)
          /\ Stop(w)
       \/ /\ plans[c.key].state # "APPROVAL_PENDING"
          /\ ~Overdue(c.key)
          /\ ReleaseLocks(w)
          /\ Stop(w)
          /\ UNCHANGED <<storeVars, asked, uses>>
    /\ UNCHANGED <<creatorVars, marked, historyVars>>

\* The consumed plan is looked up once more, and its credential resolved from the
\* view and handed to the adapter; either may fail and leave the plan consumed.
InjectionOf(w, plan) ==
    [by |-> w, nonce |-> plan.nonce, checked |-> call[w].plan.nonce,
     payload |-> call[w].payload, view |-> call[w].view]

Inject(w) ==
    LET k == call[w].key IN
    /\ At(w, "inject")
    /\ LookedUp(k)
    /\ \/ /\ plans'[k].state = "CONSUMED"
          /\ injections' = Append(injections, InjectionOf(w, plans'[k]))
       \/ UNCHANGED injections
    /\ GoTo(w, "release")
    /\ UNCHANGED <<creatorVars, call, marked, lockVars, closed>>

\* The adapter has answered.
Finish(w) ==
    /\ At(w, "release")
    /\ ReleaseLocks(w)
    /\ Stop(w)
    /\ UNCHANGED <<storeVars, asked, uses, creatorVars, marked, historyVars>>

-----------------------------------------------------------------------------
(* The configuration, the markers' clock, and time.                        *)

\* A formal writer replaces the file under the exclusive lock.
Rewrite ==
    /\ disk < MaxVersion
    /\ readers = {}
    /\ disk' = disk + 1
    /\ UNCHANGED <<vars, pc, call, marked, published, lockVars, historyVars>>

\* The file is loaded and published again, or could not be loaded.
Reload ==
    /\ published' \in {disk, Unavailable}
    /\ UNCHANGED <<vars, pc, call, marked, disk, lockVars, historyVars>>

MarkerLapses(k) ==
    /\ k \in marked
    /\ marked' = marked \ {k}
    /\ UNCHANGED <<vars, pc, call, disk, published, lockVars, historyVars>>

Clock == Tick /\ UNCHANGED callVars

Step(w) ==
    \/ RequestPut(w)
    \/ ApprovalNotNeeded(w)
    \/ ApprovalBlocked(w)
    \/ \E x \in Args : ApprovalLookup(w, x)
    \/ PostureRefused(w)
    \/ ApprovalConfig(w)
    \/ ApprovalPending(w)
    \/ MessageRefused(w)
    \/ HumanApproves(w)
    \/ HumanDenies(w)
    \/ ExecutionPlain(w)
    \/ ExecutionBlocked(w)
    \/ ExecutionEntered(w)
    \/ ExecutionUnidentified(w)
    \/ ExecutionLeft(w)
    \/ HandlerRefused(w)
    \/ \E x \in Payload : HandlerLookup(w, x)
    \/ TakeConfigLock(w)
    \/ ConfigLockFails(w)
    \/ TakeExecutionLock(w)
    \/ Recheck(w)
    \/ ConsumePlan(w)
    \/ Inject(w)
    \/ Finish(w)

CallNext ==
    \/ \E w \in Worker, k \in Key, o \in Host : RequestPlain(w, k, o)
    \/ \E w \in Worker, k \in Key, o \in Host : RequestRefused(w, k, o)
    \/ \E w \in Worker, k \in Key, o \in Host, a \in Args, h \in Timeout :
           RequestAnalyzed(w, k, o, a, h)
    \/ \E w \in Worker : Step(w)
    \/ Rewrite
    \/ Reload
    \/ \E k \in Key : MarkerLapses(k)
    \/ Clock

CallSpec == CallInit /\ [][CallNext]_allVars

-----------------------------------------------------------------------------
(* Properties.                                                             *)

\* Types of the variables this module adds.
Stages == {"idle", "put", "execution", "approval", "posture", "pending", "asked",
           "handler", "lock", "locked", "recheck", "consume", "inject", "release",
           "after"}

CallTypeOK ==
    /\ pc \in [Worker -> Stages]
    /\ call \in [Worker -> CallState \cup {NoCall}]
    /\ \A w \in Worker : At(w, "idle") <=> call[w] = NoCall
    /\ marked \subseteq Key
    /\ disk \in Version
    /\ published \in Version \cup {Unavailable}
    /\ readers \subseteq Worker
    /\ executing \in Worker \cup {Nobody}
    /\ closed \subseteq Nonce

\* A call implements CredentialUse: the human's approval of a plan is the grant,
\* and an injection a use of it.  So a credential is injected only in the call, for
\* the plan, with the payload and from the configuration that the human approved,
\* once for a plan, and while the file is still of that version, although any stage
\* may be handed another payload and other calls may use the same key.  (Only while
\* the calls are in time, as CallsInTime says: see PlansNotCrossed.)
GrantOf(w) ==
    IF call[w] = NoCall \/ call[w].approved = NotApproved THEN [name |-> 0]
    ELSE LET a == call[w].approved
         IN  [name |-> a.nonce, shown |-> a.args, version |-> a.config]

UseOf(i) == [by |-> i.by, name |-> i.nonce, shown |-> i.payload, version |-> i.view]

Promise == INSTANCE CredentialUse WITH
    Caller <- Worker, Approval <- Nonce, Shown <- Args,
    grant <- [w \in Worker |-> GrantOf(w)],
    used <- [i \in DOMAIN injections |-> UseOf(injections[i])],
    file <- disk

ImplementsUse == Promise!UseSpec

\* A call that has looked a plan up is through with it before the plan's tombstone
\* is due.  Nothing in the code sees to that, since the wait for the execution lock
\* has no bound: it is a hypothesis, of ImplementsUse only.
Over == {"release", "after"}
CallsInTime ==
    \A w \in Worker : call[w] # NoCall /\ call[w].plan # NoPlan /\ pc[w] \notin Over =>
        now < TombstoneDeadline(call[w].plan)

\* When tool_execution has returned from next_call, the plan that let the call in
\* can never be used again, however next_call ended.
ClosedIsDead ==
    \A k \in Key : plans[k] # NoPlan /\ plans[k].nonce \in closed =>
        plans[k].state \in Terminal

\* Whoever has the execution lock has the configuration lock, for every writer
\* to see, and is in the section that the locks are for.
LocksNested ==
    /\ executing # Nobody => executing \in readers
    /\ \A w \in Worker :
           /\ w \in readers <=> pc[w] \in {"locked", "recheck", "consume", "inject", "release"}
           /\ executing = w <=> pc[w] \in {"recheck", "consume", "inject", "release"}

\* docs/R2 says that concurrent calls never use each other's plan: an injection
\* is made from the plan that its own call has checked.  (Not so when the wait for
\* the locks outlasts the plan and its tombstone.)
PlansNotCrossed ==
    \A i \in DOMAIN injections : injections[i].nonce = injections[i].checked

=============================================================================
