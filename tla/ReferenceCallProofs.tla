------------------------- MODULE ReferenceCallProofs -------------------------
(***************************************************************************)
(* Theorems of ReferenceCall, for any number of calls, keys and versions   *)
(* of the configuration: the calls use the plan store only through its     *)
(* methods, so what is proved of the store holds of it here; the two locks *)
(* are nested; a call that is over leaves no plan that can be used; and    *)
(* calls that end before their plan is forgotten implement CredentialUse.  *)
(***************************************************************************)
EXTENDS ReferenceCall, PlanStoreProofs

-----------------------------------------------------------------------------
(* The store's steps.                                                      *)

Busy == Stages \ {"idle"}

\* A call that is under way has a key.
LEMMA BusyCall ==
    ASSUME CallTypeOK, NEW w \in Worker, pc[w] # "idle"
    PROVE  call[w] \in CallState /\ call[w].key \in Key
BY DEF CallTypeOK, At, CallState

LEMMA LookedUpIs ==
    ASSUME NEW k \in Key, LookedUp(k), UNCHANGED <<now, drafts, built>>
    PROVE  [Next]_vars
BY DEF LookedUp, Next, Lookup, vars, storeVars

LEMMA InvalidateIs ==
    ASSUME NEW k \in Key, InvalidateIfLive(k), UNCHANGED <<now, drafts, built>>
    PROVE  [Next]_vars
BY DEF InvalidateIfLive, Next, Invalidate, vars, storeVars

LEMMA FailCloseIs ==
    ASSUME NEW k \in Key, FailClose(k), UNCHANGED <<now, drafts, built>>
    PROVE  [Next]_vars
<1>1. CASE Overdue(k)
    BY <1>1, LookedUpIs DEF FailClose, LookedUp
<1>2. CASE ~ Overdue(k)
    BY <1>2, InvalidateIs DEF FailClose
<1> QED BY <1>1, <1>2

LEMMA ExpireIs ==
    ASSUME NEW k \in Key, ExpireInPlace(k), UNCHANGED <<now, drafts, built>>
    PROVE  [Next]_vars
BY LookedUpIs DEF LookedUp

LEMMA StoreAlone ==
    ASSUME UNCHANGED <<storeVars, asked, uses, now, drafts, built>>
    PROVE  [Next]_vars
BY DEF vars, storeVars

LEMMA WorkerUsesStore ==
    ASSUME CallTypeOK, NEW w \in Worker, Step(w)
    PROVE  [Next]_vars
<1> DEFINE k == call[w].key
<1>0. pc[w] # "idle" => k \in Key
    BY BusyCall
<1> HIDE DEF k
<1>1. CASE RequestPut(w)
    BY <1>1 DEF RequestPut, Next, Worker
<1>2. CASE \/ ApprovalNotNeeded(w) \/ ApprovalBlocked(w) \/ PostureRefused(w) \/ HumanApproves(w)
           \/ HumanDenies(w) \/ ExecutionPlain(w) \/ HandlerRefused(w) \/ TakeConfigLock(w)
           \/ TakeExecutionLock(w) \/ Finish(w)
    BY <1>2, StoreAlone
       DEF ApprovalNotNeeded, ApprovalBlocked, PostureRefused, HumanApproves, HumanDenies,
           ExecutionPlain, HandlerRefused, TakeConfigLock, TakeExecutionLock, Finish, creatorVars
<1>3. ASSUME NEW x \in Payload, ApprovalLookup(w, x) PROVE [Next]_vars
    BY <1>0, <1>3, LookedUpIs DEF ApprovalLookup, At, creatorVars, k
<1>4. CASE ApprovalConfig(w)
    BY <1>0, <1>4, InvalidateIs, StoreAlone DEF ApprovalConfig, At, creatorVars, k
<1>5. CASE ApprovalPending(w)
  <2>1. UNCHANGED <<now, drafts, built>> /\ k \in Key
      BY <1>0, <1>5 DEF ApprovalPending, At, creatorVars
  <2>2. CASE MarkPending(k)
      BY <2>1, <2>2 DEF Next, MarkApprovalPending
  <2>3. CASE ExpireInPlace(k)
      BY <2>1, <2>3, ExpireIs
  <2>4. CASE UNCHANGED <<storeVars, asked, uses>>
      BY <2>1, <2>4, StoreAlone
  <2> QED BY <1>5, <2>2, <2>3, <2>4 DEF ApprovalPending, k
<1>6. CASE MessageRefused(w)
    BY <1>0, <1>6, InvalidateIs DEF MessageRefused, At, creatorVars, k
<1>7. CASE ExecutionBlocked(w) \/ ExecutionEntered(w)
    BY <1>0, <1>7, LookedUpIs DEF ExecutionBlocked, ExecutionEntered, At, creatorVars, k
<1>8. CASE ExecutionUnidentified(w) \/ ExecutionLeft(w)
    BY <1>0, <1>8, FailCloseIs DEF ExecutionUnidentified, ExecutionLeft, At, creatorVars, k
<1>9. ASSUME NEW x \in Payload, HandlerLookup(w, x) PROVE [Next]_vars
    BY <1>0, <1>9, FailCloseIs, StoreAlone DEF HandlerLookup, At, creatorVars, k
<1>10. CASE ConfigLockFails(w)
    BY <1>0, <1>10, InvalidateIs DEF ConfigLockFails, At, creatorVars, k
<1>11. CASE Recheck(w)
    BY <1>0, <1>11, InvalidateIs, StoreAlone DEF Recheck, At, creatorVars, k
<1>12. CASE ConsumePlan(w)
  <2>1. UNCHANGED <<now, drafts, built>> /\ k \in Key
      BY <1>0, <1>12 DEF ConsumePlan, At, creatorVars
  <2>2. CASE Spend(k)
      BY <2>1, <2>2 DEF Next, Consume
  <2>3. CASE ExpireInPlace(k)
      BY <2>1, <2>3, ExpireIs
  <2>4. CASE UNCHANGED <<storeVars, asked, uses>>
      BY <2>1, <2>4, StoreAlone
  <2> QED BY <1>12, <2>2, <2>3, <2>4 DEF ConsumePlan, k
<1>13. CASE Inject(w)
    BY <1>0, <1>13, LookedUpIs DEF Inject, At, creatorVars, k
<1> QED BY <1>1, <1>2, <1>3, <1>4, <1>5, <1>6, <1>7, <1>8, <1>9, <1>10, <1>11, <1>12, <1>13
        DEF Step, Payload

\* Whatever a call does to the store, a method of the store does.
LEMMA CallUsesStore ==
    ASSUME CallTypeOK, [CallNext]_allVars
    PROVE  [Next]_vars
<1>1. ASSUME NEW w \in Worker, NEW k \in Key, NEW o \in Host, NEW a \in Args, NEW h \in Timeout,
             RequestAnalyzed(w, k, o, a, h)
      PROVE  [Next]_vars
  <2>1. [args |-> a, config |-> published] \in Call
      BY <1>1, ReferenceCallAssumption DEF RequestAnalyzed, CallTypeOK, Unavailable
  <2> QED BY <1>1, <2>1 DEF RequestAnalyzed, Next, Worker
<1>2. ASSUME NEW w \in Worker, NEW k \in Key, NEW o \in Host,
             RequestPlain(w, k, o) \/ RequestRefused(w, k, o)
      PROVE  [Next]_vars
    BY <1>2 DEF RequestPlain, RequestRefused
<1>3. CASE Rewrite \/ Reload \/ \E k \in Key : MarkerLapses(k)
    BY <1>3 DEF Rewrite, Reload, MarkerLapses
<1>4. CASE Clock
    BY <1>4 DEF Clock, Next
<1>5. CASE UNCHANGED allVars
    BY <1>5 DEF allVars
<1> QED BY <1>1, <1>2, <1>3, <1>4, <1>5, WorkerUsesStore DEF CallNext

-----------------------------------------------------------------------------
(* Types.                                                                  *)

\* Between these points a call has a plan of its own.
PlanStages == {"posture", "pending", "asked", "lock", "locked", "recheck", "consume", "inject",
               "release"}

CallHasPlan ==
    \A w \in Worker : /\ pc[w] \in PlanStages => call[w].plan \in Plan
                      /\ pc[w] = "after" => call[w].inside # 0

\* What the action of one worker does to its call.
Moved(w) ==
    /\ pc' \in [Worker -> Stages]
    /\ call' \in [Worker -> CallState \cup {NoCall}]
    /\ \A v \in Worker \ {w} : pc'[v] = pc[v] /\ call'[v] = call[v]
    /\ pc'[w] = "idle" <=> call'[w] = NoCall
    /\ pc'[w] \in PlanStages => call'[w].plan \in Plan
    /\ pc'[w] = "after" => call'[w].inside # 0

LEMMA StopMoves ==
    ASSUME CallTypeOK, NEW w \in Worker, pc[w] # "idle", Stop(w)
    PROVE  Moved(w) /\ pc'[w] \in {"after", "idle"}
BY BusyCall DEF Stop, Return, GoTo, Moved, CallTypeOK, Stages, PlanStages, At

LEMMA ReturnMoves ==
    ASSUME CallTypeOK, NEW w \in Worker, Return(w)
    PROVE  Moved(w) /\ pc'[w] = "idle"
BY DEF Return, GoTo, Moved, CallTypeOK, Stages, PlanStages

\* A stage that goes on with the call as it is.
LEMMA GoMoves ==
    ASSUME CallTypeOK, CallHasPlan, NEW w \in Worker, pc[w] # "idle",
           NEW l \in Stages \ {"idle", "after"}, GoTo(w, l), UNCHANGED call,
           l \in PlanStages => pc[w] \in PlanStages
    PROVE  Moved(w) /\ pc'[w] = l
BY BusyCall DEF GoTo, Moved, CallTypeOK, CallHasPlan, At, Stages, PlanStages

\* A stage that goes on with another state of the call.
LEMMA GoWith ==
    ASSUME CallTypeOK, NEW w \in Worker, NEW c \in CallState,
           NEW l \in Stages \ {"idle", "after"}, GoTo(w, l), call' = [call EXCEPT ![w] = c],
           l \in PlanStages => c.plan \in Plan
    PROVE  Moved(w) /\ pc'[w] = l /\ call'[w] = c
<1>1. c # NoCall
    BY DEF CallState, NoCall
<1> QED BY <1>1 DEF GoTo, Moved, CallTypeOK, Stages

LEMMA ReceivedTyped ==
    ASSUME NEW k \in Key, NEW o \in Host
    PROVE  Received(k, o) \in CallState
BY DEF Received, CallState, Payload, Unavailable, NotApproved

LEMMA LookupMoves ==
    ASSUME CallTypeOK, TypeOK', NEW w \in Worker, NEW x \in Payload,
           ApprovalLookup(w, x) \/ HandlerLookup(w, x)
    PROVE  Moved(w)
<1> DEFINE k == call[w].key
<1>1. call[w] \in CallState /\ k \in Key /\ pc[w] # "idle"
    BY BusyCall DEF ApprovalLookup, HandlerLookup, At
<1>2. CASE ApprovalLookup(w, x)
  <2>1. CASE Stop(w)
      BY <1>1, <2>1, StopMoves
  <2>2. CASE /\ plans'[k].state = "ANALYZED"
             /\ call' = [call EXCEPT ![w].payload = x, ![w].plan = plans'[k], ![w].view = published]
             /\ GoTo(w, "posture")
    <3> DEFINE c == [call[w] EXCEPT !.payload = x, !.plan = plans'[k], !.view = published]
    <3>1. plans'[k] \in Plan
        BY <1>1, <2>2 DEF TypeOK, NoPlan
    <3>2. c \in CallState /\ c.plan \in Plan
        BY <1>1, <3>1 DEF CallState, Payload, CallTypeOK
    <3>3. call' = [call EXCEPT ![w] = c]
        BY <2>2
    <3> QED BY <2>2, <3>2, <3>3, GoWith DEF Stages
  <2> QED BY <1>2, <2>1, <2>2 DEF ApprovalLookup
<1>3. CASE HandlerLookup(w, x)
  <2>1. CASE Stop(w)
      BY <1>1, <2>1, StopMoves
  <2>2. CASE /\ plans[k].state = "APPROVAL_PENDING"
             /\ UNCHANGED storeVars
             /\ call' = [call EXCEPT ![w].payload = x, ![w].plan = plans[k]]
             /\ GoTo(w, "lock")
    <3> DEFINE c == [call[w] EXCEPT !.payload = x, !.plan = plans[k]]
    <3>1. plans[k] \in Plan
        BY <1>1, <2>2 DEF TypeOK, NoPlan, storeVars
    <3>2. c \in CallState /\ c.plan \in Plan
        BY <1>1, <3>1 DEF CallState, Payload
    <3>3. call' = [call EXCEPT ![w] = c]
        BY <2>2
    <3> QED BY <2>2, <3>2, <3>3, GoWith DEF Stages
  <2> QED BY <1>3, <2>1, <2>2 DEF HandlerLookup
<1> QED BY <1>2, <1>3

LEMMA StepBusy ==
    ASSUME NEW w \in Worker, Step(w)
    PROVE  pc[w] # "idle"
BY DEF Step, At, RequestPut, ApprovalNotNeeded, ApprovalBlocked, ApprovalLookup, PostureRefused,
       ApprovalConfig, ApprovalPending, MessageRefused, HumanApproves, HumanDenies, MessageShown,
       ExecutionPlain, ExecutionBlocked, ExecutionEntered, ExecutionUnidentified, ExecutionLeft,
       HandlerRefused, HandlerLookup, TakeConfigLock, ConfigLockFails, TakeExecutionLock, Recheck,
       ConsumePlan, Inject, Finish

LEMMA WorkerMoves ==
    ASSUME CallTypeOK, CallHasPlan, TypeOK', NEW w \in Worker, Step(w)
    PROVE  Moved(w)
<1> DEFINE k == call[w].key
<1>0. call[w] \in CallState /\ k \in Key /\ pc[w] # "idle"
    BY BusyCall, StepBusy
<1>1. CASE Stop(w)
    BY <1>0, <1>1, StopMoves
<1>2. CASE Return(w)
    BY <1>2, ReturnMoves
<1>3. CASE RequestPut(w)
    BY <1>0, <1>3, GoMoves DEF RequestPut, FirstStage, Stages, PlanStages
<1>4. CASE ApprovalNotNeeded(w)
    BY <1>0, <1>4, GoMoves DEF ApprovalNotNeeded, AfterApproval, Stages, PlanStages
<1>5. ASSUME NEW x \in Payload, ApprovalLookup(w, x) \/ HandlerLookup(w, x) PROVE Moved(w)
    BY <1>5, LookupMoves
<1>6. CASE ApprovalConfig(w)
  <2>1. CASE GoTo(w, "pending") /\ UNCHANGED call
      BY <1>0, <1>6, <2>1, GoMoves DEF ApprovalConfig, At, Stages, PlanStages
  <2> QED BY <1>1, <1>6, <2>1 DEF ApprovalConfig
<1>7. CASE ApprovalPending(w)
  <2>1. CASE MarkPending(k) /\ call' = [call EXCEPT ![w].plan = plans'[k]] /\ GoTo(w, "asked")
    <3> DEFINE c == [call[w] EXCEPT !.plan = plans'[k]]
    <3>1. plans'[k] \in Plan
      <4>1. plans' = [plans EXCEPT ![k].state = "APPROVAL_PENDING"] /\ plans[k].state = "ANALYZED"
          BY <2>1 DEF MarkPending
      <4>2. plans'[k] # NoPlan
          BY <1>0, <4>1 DEF TypeOK, NoPlan
      <4> QED BY <1>0, <4>2 DEF TypeOK
    <3>2. c \in CallState /\ c.plan \in Plan
        BY <1>0, <3>1 DEF CallState
    <3>3. call' = [call EXCEPT ![w] = c]
        BY <2>1
    <3> QED BY <2>1, <3>2, <3>3, GoWith DEF Stages
  <2> QED BY <1>1, <1>7, <2>1 DEF ApprovalPending
<1>8. CASE HumanApproves(w)
  <2> DEFINE a == [nonce |-> call[w].plan.nonce, args |-> call[w].payload,
                   config |-> call[w].plan.call.config]
             c == [call[w] EXCEPT !.approved = a]
  <2>1. call[w].plan \in Plan
      BY <1>8 DEF HumanApproves, MessageShown, At, CallHasPlan, PlanStages
  <2>2. a \in [nonce : Nonce \cup {0}, args : Payload, config : Version \cup {0}]
      BY <1>0, <2>1, ReferenceCallAssumption DEF CallState, Plan
  <2>3. c \in CallState
      BY <1>0, <2>2 DEF CallState
  <2>4. call' = [call EXCEPT ![w] = c]
      BY <1>8 DEF HumanApproves
  <2> HIDE DEF c
  <2>5. \A l \in {"handler", "execution"} : l \in Stages \ {"idle", "after"} /\ l \notin PlanStages
      BY DEF Stages, PlanStages
  <2>6. \E l \in {"handler", "execution"} : GoTo(w, l)
      BY <1>8 DEF HumanApproves, AfterApproval
  <2> QED BY <2>3, <2>4, <2>5, <2>6, GoWith
<1>9. CASE ExecutionPlain(w)
    BY <1>0, <1>9, GoMoves DEF ExecutionPlain, AfterEntry, Stages, PlanStages
<1>10. CASE ExecutionEntered(w)
  <2>1. CASE /\ plans'[k].state \in Live
             /\ call' = [call EXCEPT ![w].inside = plans'[k].nonce]
             /\ GoTo(w, AfterEntry(w))
    <3> DEFINE c == [call[w] EXCEPT !.inside = plans'[k].nonce]
    <3>1. plans'[k] \in Plan
        BY <1>0, <2>1 DEF TypeOK, NoPlan, Live
    <3>2. c \in CallState
        BY <1>0, <3>1 DEF CallState, Plan
    <3>3. call' = [call EXCEPT ![w] = c]
        BY <2>1
    <3> HIDE DEF c
    <3>4. AfterEntry(w) \in Stages \ {"idle", "after"} /\ AfterEntry(w) \notin PlanStages
        BY DEF AfterEntry, Stages, PlanStages
    <3> QED BY <2>1, <3>2, <3>3, <3>4, GoWith
  <2> QED BY <1>2, <1>10, <2>1 DEF ExecutionEntered
<1>11. CASE TakeConfigLock(w) \/ TakeExecutionLock(w)
    BY <1>0, <1>11, GoMoves DEF TakeConfigLock, TakeExecutionLock, At, Stages, PlanStages
<1>12. CASE Recheck(w)
  <2>1. CASE Agree(call[w]) /\ call' = [call EXCEPT ![w].view = published] /\ GoTo(w, "consume")
    <3> DEFINE c == [call[w] EXCEPT !.view = published]
    <3>1. c \in CallState /\ c.plan \in Plan
        BY <1>0, <1>12 DEF CallState, CallTypeOK, CallHasPlan, Recheck, At, PlanStages
    <3>2. call' = [call EXCEPT ![w] = c]
        BY <2>1
    <3> QED BY <2>1, <3>1, <3>2, GoWith DEF Stages
  <2> QED BY <1>1, <1>12, <2>1 DEF Recheck
<1>13. CASE ConsumePlan(w)
  <2>1. CASE GoTo(w, "inject") /\ UNCHANGED call
      BY <1>0, <1>13, <2>1, GoMoves DEF ConsumePlan, At, Stages, PlanStages
  <2> QED BY <1>1, <1>13, <2>1 DEF ConsumePlan
<1>14. CASE Inject(w)
    BY <1>0, <1>14, GoMoves DEF Inject, At, Stages, PlanStages
<1> QED BY <1>1, <1>2, <1>3, <1>4, <1>5, <1>6, <1>7, <1>8, <1>9, <1>10, <1>11, <1>12, <1>13, <1>14
        DEF Step, ApprovalBlocked, PostureRefused, MessageRefused, HumanDenies, ExecutionBlocked,
            ExecutionUnidentified, ExecutionLeft, HandlerRefused, ConfigLockFails, Finish, Payload

-----------------------------------------------------------------------------
(* The invariant: types, the nesting of the locks, and what a call that is *)
(* inside next_call holds on to.                                           *)

CallSteady == SpendInv /\ CallTypeOK /\ CallHasPlan /\ LocksNested

\* No draft has this nonce, and the plan that has it, if any, has a certain key.
Placed(n, k) ==
    /\ n <= built
    /\ \A v \in Creator : drafts[v] # NoDraft => drafts[v].plan.nonce # n
    /\ \A j \in Key : plans[j] # NoPlan /\ plans[j].nonce = n => j = k

Dead(n) ==
    /\ n <= built
    /\ \A v \in Creator : drafts[v] # NoDraft => drafts[v].plan.nonce # n
    /\ \A j \in Key : plans[j] # NoPlan /\ plans[j].nonce = n => plans[j].state \in Terminal

InsidePlaced ==
    \A w \in Worker : call[w] # NoCall /\ call[w].inside # 0 => Placed(call[w].inside, call[w].key)

ClosedDead == \A n \in closed : Dead(n)

CallInv == CallSteady /\ InsidePlaced /\ ClosedDead

LEMMA CallInvInit == CallInit => CallInv
<1> SUFFICES ASSUME CallInit PROVE CallInv
    OBVIOUS
<1>1. SpendInv
    BY SpendInvInit DEF CallInit
<1>2. CallTypeOK /\ CallHasPlan
    BY ReferenceCallAssumption
       DEF CallInit, CallTypeOK, CallHasPlan, Stages, PlanStages, At, Version, Unavailable
<1>3. LocksNested
    BY ReferenceCallAssumption DEF CallInit, LocksNested
<1>4. InsidePlaced /\ ClosedDead
    BY DEF CallInit, InsidePlaced, ClosedDead
<1> QED BY <1>1, <1>2, <1>3, <1>4 DEF CallInv, CallSteady

\* The other variables of a step of a worker.
LEMMA WorkerTypes ==
    ASSUME CallTypeOK, CallHasPlan, NEW w \in Worker, Step(w)
    PROVE  /\ marked' \subseteq Key /\ disk' = disk /\ published' = published
           /\ readers' \subseteq Worker /\ executing' \in Worker \cup {Nobody}
           /\ closed' \subseteq Nonce
<1>1. pc[w] # "idle" => call[w] \in CallState
    BY BusyCall
<1>2. CASE RequestPut(w) \/ ApprovalBlocked(w) \/ ExecutionBlocked(w)
    BY <1>1, <1>2 DEF RequestPut, ApprovalBlocked, ExecutionBlocked, At, lockVars, historyVars, creatorVars,
                      CallTypeOK, CallState
<1>3. CASE ExecutionLeft(w)
  <2>1. call[w].inside \in Nonce
      BY <1>1, <1>3 DEF ExecutionLeft, At, CallHasPlan, CallState
  <2> QED BY <1>3, <2>1 DEF ExecutionLeft, CallTypeOK, lockVars, creatorVars
<1>4. CASE TakeConfigLock(w) \/ TakeExecutionLock(w)
    BY <1>4 DEF TakeConfigLock, TakeExecutionLock, CallTypeOK, historyVars, creatorVars
<1>5. CASE Recheck(w) \/ ConsumePlan(w) \/ Finish(w)
    BY <1>5 DEF Recheck, ConsumePlan, Finish, ReleaseLocks, CallTypeOK, lockVars, historyVars, creatorVars
<1>6. CASE Inject(w)
    BY <1>6 DEF Inject, CallTypeOK, lockVars, creatorVars
<1>7. CASE UNCHANGED <<creatorVars, marked, lockVars, historyVars>>
    BY <1>7 DEF CallTypeOK, creatorVars, lockVars, historyVars
<1> QED BY <1>2, <1>3, <1>4, <1>5, <1>6, <1>7
        DEF Step, ApprovalNotNeeded, ApprovalLookup, PostureRefused, ApprovalConfig, ApprovalPending,
            MessageRefused, HumanApproves, HumanDenies, ExecutionPlain, ExecutionEntered,
            ExecutionUnidentified, HandlerRefused, HandlerLookup, ConfigLockFails, Payload

LEMMA MovedTypes ==
    ASSUME CallTypeOK, CallHasPlan, NEW w \in Worker, Moved(w),
           marked' \subseteq Key, disk' \in Version, published' \in Version \cup {Unavailable},
           readers' \subseteq Worker, executing' \in Worker \cup {Nobody}, closed' \subseteq Nonce
    PROVE  CallTypeOK' /\ CallHasPlan'
BY DEF CallTypeOK, CallHasPlan, Moved, At

LEMMA RequestMoves ==
    ASSUME CallTypeOK, NEW w \in Worker, NEW k \in Key, NEW o \in Host,
           NEW l \in {"put", "execution", "approval"}, Receive(w, k, o, l)
    PROVE  Moved(w) /\ pc'[w] = l /\ call'[w].inside = 0 /\ pc[w] = "idle"
<1> DEFINE c == Received(k, o)
<1>1. c \in CallState /\ c.inside = 0
    BY ReceivedTyped DEF Received
<1>2. GoTo(w, l) /\ call' = [call EXCEPT ![w] = c] /\ pc[w] = "idle"
    BY DEF Receive, At
<1>3. l \in Stages \ {"idle", "after"} /\ l \notin PlanStages
    BY DEF Stages, PlanStages
<1> HIDE DEF c
<1> QED BY <1>1, <1>2, <1>3, GoWith

LEMMA CallTypesNext ==
    ASSUME CallTypeOK, CallHasPlan, TypeOK', [CallNext]_allVars
    PROVE  CallTypeOK' /\ CallHasPlan'
<1>1. ASSUME NEW w \in Worker, Step(w) PROVE CallTypeOK' /\ CallHasPlan'
    BY <1>1, WorkerMoves, WorkerTypes, MovedTypes DEF CallTypeOK
<1>2. ASSUME NEW w \in Worker, NEW k \in Key, NEW o \in Host,
             RequestPlain(w, k, o) \/ RequestRefused(w, k, o)
      PROVE  CallTypeOK' /\ CallHasPlan'
  <2>1. Moved(w)
      BY <1>2, RequestMoves DEF RequestPlain, RequestRefused, FirstStage
  <2>2. /\ marked' \subseteq Key
        /\ UNCHANGED <<disk, published, readers, executing, closed>>
      BY <1>2 DEF RequestPlain, RequestRefused, lockVars, historyVars, CallTypeOK
  <2> QED BY <2>1, <2>2, MovedTypes DEF CallTypeOK
<1>3. ASSUME NEW w \in Worker, NEW k \in Key, NEW o \in Host, NEW a \in Args, NEW h \in Timeout,
             RequestAnalyzed(w, k, o, a, h)
      PROVE  CallTypeOK' /\ CallHasPlan'
  <2>1. Moved(w)
      BY <1>3, RequestMoves DEF RequestAnalyzed
  <2>2. UNCHANGED <<marked, disk, published, readers, executing, closed>>
      BY <1>3 DEF RequestAnalyzed, lockVars, historyVars
  <2> QED BY <2>1, <2>2, MovedTypes DEF CallTypeOK
<1>4. CASE Rewrite \/ Reload \/ \E k \in Key : MarkerLapses(k)
    BY <1>4, ReferenceCallAssumption
       DEF Rewrite, Reload, MarkerLapses, CallTypeOK, CallHasPlan, lockVars, historyVars, At, Version
<1>5. CASE Clock \/ UNCHANGED allVars
    BY <1>5 DEF Clock, callVars, allVars, CallTypeOK, CallHasPlan, At
<1> QED BY <1>1, <1>2, <1>3, <1>4, <1>5 DEF CallNext

-----------------------------------------------------------------------------
(* The locks.                                                              *)

LockStages == {"locked", "recheck", "consume", "inject", "release"}
ExecutionStages == LockStages \ {"locked"}

\* A step outside the section takes no lock; a step inside keeps both, or leaves both.
LEMMA StepOfLocks ==
    ASSUME CallTypeOK, LocksNested, NEW w \in Worker, pc' \in [Worker -> Stages],
           \A v \in Worker \ {w} : pc'[v] = pc[v],
           \/ /\ UNCHANGED lockVars
              /\ pc[w] \in LockStages <=> pc'[w] \in LockStages
              /\ pc[w] \in ExecutionStages <=> pc'[w] \in ExecutionStages
           \/ ReleaseLocks(w) /\ pc[w] \in ExecutionStages /\ pc'[w] \notin LockStages
    PROVE  LocksNested'
BY ReferenceCallAssumption DEF LocksNested, LockStages, ExecutionStages, ReleaseLocks, lockVars, CallTypeOK

LEMMA LocksNext ==
    ASSUME CallTypeOK, CallHasPlan, LocksNested, TypeOK', [CallNext]_allVars
    PROVE  LocksNested'
<1>1. ASSUME NEW w \in Worker, Step(w) PROVE LocksNested'
  <2>1. Moved(w)
      BY <1>1, WorkerMoves
  <2>2. pc' \in [Worker -> Stages] /\ \A v \in Worker \ {w} : pc'[v] = pc[v]
      BY <2>1 DEF Moved
  <2>3. pc[w] \in Stages /\ (Stop(w) => pc'[w] \in {"after", "idle"}) /\ (Return(w) => pc'[w] = "idle")
      BY DEF CallTypeOK, Stop, Return, GoTo
  <2>4. \A l : GoTo(w, l) => pc'[w] = l
      BY DEF CallTypeOK, GoTo
  <2> USE DEF LockStages, ExecutionStages, At
  <2>5. CASE TakeConfigLock(w)
      BY <1>1, <2>2, <2>4, <2>5, ReferenceCallAssumption DEF TakeConfigLock, LocksNested
  <2>6. CASE TakeExecutionLock(w)
      BY <1>1, <2>2, <2>4, <2>6, ReferenceCallAssumption DEF TakeExecutionLock, LocksNested, CallTypeOK
  <2>7. CASE Recheck(w)
    <3>1. CASE GoTo(w, "consume") /\ UNCHANGED lockVars
        BY <2>2, <2>4, <2>7, <3>1, StepOfLocks DEF Recheck
    <3>2. CASE ReleaseLocks(w) /\ Stop(w)
        BY <2>2, <2>3, <2>7, <3>2, StepOfLocks DEF Recheck
    <3> QED BY <2>7, <3>1, <3>2 DEF Recheck
  <2>8. CASE ConsumePlan(w)
    <3>1. CASE GoTo(w, "inject") /\ UNCHANGED lockVars
        BY <2>2, <2>4, <2>8, <3>1, StepOfLocks DEF ConsumePlan
    <3>2. CASE ReleaseLocks(w) /\ Stop(w)
        BY <2>2, <2>3, <2>8, <3>2, StepOfLocks DEF ConsumePlan
    <3> QED BY <2>8, <3>1, <3>2 DEF ConsumePlan
  <2>9. CASE Inject(w)
      BY <2>2, <2>4, <2>9, StepOfLocks DEF Inject
  <2>10. CASE Finish(w)
      BY <2>2, <2>3, <2>10, StepOfLocks DEF Finish
  <2>11. CASE /\ UNCHANGED lockVars
              /\ pc[w] \notin LockStages /\ pc'[w] \notin LockStages
      BY <2>2, <2>11, StepOfLocks
  <2>12. CASE RequestPut(w) \/ ApprovalNotNeeded(w) \/ ApprovalBlocked(w) \/ PostureRefused(w)
      BY <2>3, <2>4, <2>11, <2>12
         DEF RequestPut, ApprovalNotNeeded, ApprovalBlocked, PostureRefused, FirstStage, AfterApproval
  <2>13. CASE (\E x \in Args : ApprovalLookup(w, x)) \/ ApprovalConfig(w) \/ ApprovalPending(w)
      BY <2>3, <2>4, <2>11, <2>13 DEF ApprovalLookup, ApprovalConfig, ApprovalPending
  <2>14. CASE MessageRefused(w) \/ HumanApproves(w) \/ HumanDenies(w) \/ ExecutionPlain(w)
      BY <2>3, <2>4, <2>11, <2>14
         DEF MessageRefused, HumanApproves, HumanDenies, MessageShown, ExecutionPlain,
             AfterApproval, AfterEntry
  <2>15. CASE ExecutionBlocked(w) \/ ExecutionEntered(w) \/ ExecutionUnidentified(w)
                 \/ ExecutionLeft(w) \/ HandlerRefused(w)
      BY <2>3, <2>4, <2>11, <2>15
         DEF ExecutionBlocked, ExecutionEntered, ExecutionUnidentified, ExecutionLeft, HandlerRefused, AfterEntry
  <2>16. CASE (\E x \in Payload : HandlerLookup(w, x)) \/ ConfigLockFails(w)
      BY <2>3, <2>4, <2>11, <2>16 DEF HandlerLookup, ConfigLockFails
  <2> QED BY <1>1, <2>5, <2>6, <2>7, <2>8, <2>9, <2>10, <2>12, <2>13, <2>14, <2>15, <2>16 DEF Step
<1>2. ASSUME NEW w \in Worker, NEW k \in Key, NEW o \in Host,
             NEW l \in {"put", "execution", "approval"}, Receive(w, k, o, l), UNCHANGED lockVars
      PROVE  LocksNested'
  <2>1. Moved(w) /\ pc'[w] = l /\ pc[w] = "idle"
      BY <1>2, RequestMoves
  <2> QED BY <1>2, <2>1, StepOfLocks DEF Moved, LockStages, ExecutionStages
<1>3. CASE Rewrite \/ Reload \/ (\E k \in Key : MarkerLapses(k)) \/ Clock \/ UNCHANGED allVars
    BY <1>3 DEF Rewrite, Reload, MarkerLapses, Clock, callVars, allVars, lockVars, LocksNested
<1> QED BY <1>1, <1>2, <1>3 DEF CallNext, RequestPlain, RequestRefused, RequestAnalyzed, FirstStage

-----------------------------------------------------------------------------
(* What a call holds on to.                                                *)

\* A nonce that a plan has had stays where it is: no step of the store gives it to
\* another key, nor to a draft, nor brings a dead plan back.
LEMMA NonceStays ==
    ASSUME SpendInv, [Next]_vars, NEW n \in Nonce, n <= built,
           \A v \in Creator : drafts[v] # NoDraft => drafts[v].plan.nonce # n
    PROVE  /\ n <= built'
           /\ \A v \in Creator : drafts'[v] # NoDraft => drafts'[v].plan.nonce # n
           /\ \A j \in Key : plans'[j] # NoPlan /\ plans'[j].nonce = n =>
                /\ plans[j] # NoPlan /\ plans[j].nonce = n
                /\ plans[j].state \in Terminal => plans'[j].state \in Terminal
<1>1. TypeOK /\ TombstonesMatchPlans
    BY DEF SpendInv, StoreInv
<1>2. built \in Nat /\ n \in Nat
    BY <1>1 DEF TypeOK, Nonce
<1>3. ASSUME NEW w \in Creator, NEW k \in Key, NEW c \in Call, NEW h \in Timeout, BuildPlan(w, k, c, h)
      PROVE  n <= built' /\ \A v \in Creator : drafts'[v] # NoDraft => drafts'[v].plan.nonce # n
    BY <1>1, <1>2, <1>3 DEF BuildPlan, TypeOK
<1>4. ASSUME NEW w \in Creator, PutPlan(w)
      PROVE  n <= built' /\ \A v \in Creator : drafts'[v] # NoDraft => drafts'[v].plan.nonce # n
    BY <1>1, <1>4 DEF PutPlan, TypeOK
<1>5. n <= built' /\ \A v \in Creator : drafts'[v] # NoDraft => drafts'[v].plan.nonce # n
  <2>1. CASE UNCHANGED <<drafts, built>>
      BY <2>1
  <2> QED BY <1>3, <1>4, <2>1 DEF Next, Lookup, MarkApprovalPending, Consume, Invalidate, Tick, vars
<1>6. ASSUME NEW j \in Key, plans'[j] # NoPlan, plans'[j].nonce = n
      PROVE  /\ plans[j] # NoPlan /\ plans[j].nonce = n
             /\ plans[j].state \in Terminal => plans'[j].state \in Terminal
  <2>1. CASE ~ \E w \in Creator : PutPlan(w)
      BY <1>1, <1>6, <2>1, StepOfTheRest
  <2>2. ASSUME NEW w \in Creator, PutPlan(w)
        PROVE  plans[j] # NoPlan /\ plans'[j].nonce = plans[j].nonce
               /\ (plans[j].state \in Terminal => plans'[j].state \in Terminal)
    <3>1. plans'[j] # drafts[w].plan
        BY <1>6, <2>2 DEF PutPlan
    <3>2. plans'[j] = CleanPlans[j]
        BY <1>1, <2>2, <3>1, CleanTypes DEF PutPlan, PutAccepted, PutRefused
    <3> QED BY <1>1, <1>6, <3>2, CleanNonces
  <2> QED BY <1>6, <2>1, <2>2
<1> QED BY <1>5, <1>6

LEMMA PlacedStays ==
    ASSUME SpendInv, [Next]_vars, NEW n \in Nonce, NEW k \in Key, Placed(n, k)
    PROVE  Placed(n, k)'
BY NonceStays DEF Placed

LEMMA DeadStays ==
    ASSUME SpendInv, [Next]_vars, NEW n \in Nonce, Dead(n)
    PROVE  Dead(n)'
BY NonceStays DEF Dead

\* What a step does to what a call holds on to: nothing, except that a call comes
\* into next_call.
Holding(w) ==
    call'[w] # NoCall /\ call'[w].inside # 0 =>
        \/ /\ call[w] # NoCall
           /\ call'[w].inside = call[w].inside /\ call'[w].key = call[w].key
        \/ /\ call'[w].key \in Key /\ plans'[call'[w].key] # NoPlan
           /\ call'[w].inside = plans'[call'[w].key].nonce

LEMMA WorkerHolds ==
    ASSUME CallTypeOK, NEW w \in Worker, Step(w)
    PROVE  Holding(w)
<1>1. pc[w] # "idle" => call[w] \in CallState /\ call[w] # NoCall /\ call[w].key \in Key
    BY BusyCall DEF CallTypeOK, At
<1>2. Stop(w) => Holding(w)
    BY <1>1 DEF Stop, Return, Holding, CallTypeOK, At
<1>3. Return(w) => Holding(w)
    BY DEF Return, Holding, CallTypeOK
<1>4. CASE UNCHANGED call
    BY <1>4 DEF Holding
<1>5. ASSUME NEW x \in Payload, ApprovalLookup(w, x) PROVE Holding(w)
    BY <1>1, <1>2, <1>5 DEF ApprovalLookup, At, Holding, CallTypeOK, CallState
<1>6. ASSUME NEW x \in Payload, HandlerLookup(w, x) PROVE Holding(w)
    BY <1>1, <1>2, <1>6 DEF HandlerLookup, At, Holding, CallTypeOK, CallState
<1>7. CASE ApprovalPending(w)
    BY <1>1, <1>2, <1>7 DEF ApprovalPending, At, Holding, CallTypeOK, CallState
<1>8. CASE HumanApproves(w)
    BY <1>1, <1>8 DEF HumanApproves, MessageShown, At, Holding, CallTypeOK, CallState
<1>9. CASE Recheck(w)
    BY <1>1, <1>2, <1>9 DEF Recheck, At, Holding, CallTypeOK, CallState
<1>10. CASE ExecutionEntered(w)
  <2>1. CASE /\ plans'[call[w].key].state \in Live
             /\ call' = [call EXCEPT ![w].inside = plans'[call[w].key].nonce]
    <3>1. call'[w].key = call[w].key /\ call'[w].inside = plans'[call[w].key].nonce
        BY <1>1, <1>10, <2>1 DEF ExecutionEntered, At, CallTypeOK, CallState
    <3> QED BY <1>1, <1>10, <2>1, <3>1 DEF ExecutionEntered, At, Holding, Live, NoPlan
  <2> QED BY <1>3, <1>10, <2>1 DEF ExecutionEntered
<1>11. CASE ApprovalConfig(w) \/ ConsumePlan(w)
    BY <1>2, <1>4, <1>11 DEF ApprovalConfig, ConsumePlan
<1> QED BY <1>2, <1>3, <1>4, <1>5, <1>6, <1>7, <1>8, <1>9, <1>10, <1>11
        DEF Step, RequestPut, ApprovalNotNeeded, ApprovalBlocked, PostureRefused, MessageRefused,
            HumanDenies, ExecutionPlain, ExecutionBlocked, ExecutionUnidentified, ExecutionLeft,
            HandlerRefused, TakeConfigLock, ConfigLockFails, TakeExecutionLock, Inject, Finish,
            Payload

\* Leaving next_call kills the plan that the call came in with, wherever it is.
LEMMA LeavingKills ==
    ASSUME CallTypeOK, SpendInv, InsidePlaced, NEW w \in Worker, ExecutionLeft(w), [Next]_vars,
           NEW n \in Nonce, n = call[w].inside
    PROVE  Dead(n)'
<1>1. PICK k \in Key : k = call[w].key
    BY BusyCall DEF ExecutionLeft, At
<1>2. Placed(n, k)
  <2>1. call[w] # NoCall /\ n # 0
      BY DEF ExecutionLeft, At, CallTypeOK, Nonce
  <2> QED BY <1>1, <2>1 DEF InsidePlaced
<1>3. Placed(n, k)'
    BY <1>2, PlacedStays
<1>4. TypeOK
    BY DEF SpendInv, StoreInv
<1>5. ASSUME plans'[k] # NoPlan PROVE plans'[k].state \in Terminal
  <2>1. CASE Overdue(k) /\ MarkTerminal(k, "INVALIDATED")
    <3>1. plans' = [plans EXCEPT ![k].state = "INVALIDATED"] /\ plans[k] \in Plan
        BY <1>4, <2>1 DEF MarkTerminal, TypeOK, Overdue
    <3> QED BY <1>4, <3>1 DEF TypeOK, Plan, Terminal
  <2>2. CASE plans[k].state \in Live /\ MarkTerminal(k, "INVALIDATED")
    <3>1. plans' = [plans EXCEPT ![k].state = "INVALIDATED"] /\ plans[k] \in Plan
        BY <1>4, <2>2 DEF MarkTerminal, TypeOK, NoPlan, Live
    <3> QED BY <1>4, <3>1 DEF TypeOK, Plan, Terminal
  <2>3. CASE plans[k].state \notin Live /\ UNCHANGED storeVars
    <3>1. plans'[k] = plans[k]
        BY <2>3 DEF storeVars
    <3> QED BY <1>4, <1>5, <2>3, <3>1 DEF TypeOK, Plan
  <2> QED BY <1>1, <2>1, <2>2, <2>3 DEF ExecutionLeft, FailClose, ExpireInPlace, InvalidateIfLive
<1> QED BY <1>3, <1>5 DEF Placed, Dead

LEMMA HoldingNext ==
    ASSUME CallInv, SpendInv', CallTypeOK', [Next]_vars,
           \A w \in Worker : Holding(w), closed' = closed
    PROVE  InsidePlaced' /\ ClosedDead'
<1>1. ASSUME NEW w \in Worker, call'[w] # NoCall, call'[w].inside # 0
      PROVE  Placed(call[w].inside, call[w].key)'
  <2>1. call'[w].inside \in Nonce /\ call'[w].key \in Key
      BY <1>1 DEF CallTypeOK, CallState
  <2>2. PICK n \in Nonce, k \in Key : n = call'[w].inside /\ k = call'[w].key
      BY <2>1
  <2>3. CASE call[w] # NoCall /\ n = call[w].inside /\ k = call[w].key
    <3>1. Placed(n, k)
        BY <1>1, <2>2, <2>3 DEF CallInv, InsidePlaced
    <3>2. Placed(n, k)'
        BY <3>1, PlacedStays DEF CallInv, CallSteady
    <3> QED BY <2>2, <3>2 DEF Placed
  <2>4. CASE plans'[k] # NoPlan /\ n = plans'[k].nonce
    <3>1. Placed(n, k)'
        BY <2>4 DEF SpendInv, NoncesApart, NoncesBuilt, DraftNoncesDistinct, PlanNoncesDistinct, Placed
    <3> QED BY <2>2, <3>1 DEF Placed
  <2> QED BY <1>1, <2>2, <2>3, <2>4 DEF Holding
<1>2. ASSUME NEW n \in closed PROVE Dead(n)'
    BY <1>2, DeadStays DEF CallInv, CallSteady, CallTypeOK, ClosedDead
<1> QED BY <1>1, <1>2 DEF InsidePlaced, ClosedDead

LEMMA CallInvNext == CallInv /\ [CallNext]_allVars => CallInv'
<1> SUFFICES ASSUME CallInv, [CallNext]_allVars PROVE CallInv'
    OBVIOUS
<1>1. CallTypeOK /\ CallHasPlan /\ LocksNested /\ SpendInv /\ InsidePlaced /\ ClosedDead
    BY DEF CallInv, CallSteady
<1>2. [Next]_vars
    BY <1>1, CallUsesStore
<1>3. SpendInv' /\ TypeOK'
  <2>1. SpendInv'
      BY <1>1, <1>2, SpendInvNext
  <2> QED BY <2>1 DEF SpendInv, StoreInv
<1>4. CallTypeOK' /\ CallHasPlan' /\ LocksNested'
    BY <1>1, <1>3, CallTypesNext, LocksNext
<1>5. CASE closed' = closed /\ \A w \in Worker : Holding(w)
    BY <1>1, <1>2, <1>3, <1>4, <1>5, HoldingNext DEF CallInv, CallSteady
<1>6. ASSUME NEW w \in Worker, Step(w) PROVE CallInv'
  <2>1. \A v \in Worker : Holding(v)
    <3>1. Moved(w) /\ Holding(w)
        BY <1>1, <1>3, <1>6, WorkerMoves, WorkerHolds
    <3> QED BY <3>1 DEF Moved, Holding
  <2>2. CASE closed' = closed
      BY <1>5, <2>1, <2>2
  <2>3. CASE ExecutionLeft(w)
    <3>1. PICK n \in Nonce : n = call[w].inside
        BY <1>1, <2>3, BusyCall DEF ExecutionLeft, At, CallHasPlan, CallState
    <3>2. Dead(n)'
        BY <1>1, <1>2, <2>3, <3>1, LeavingKills
    <3>3. ASSUME NEW m \in closed PROVE Dead(m)'
        BY <1>1, <1>2, <3>3, DeadStays DEF CallTypeOK, ClosedDead
    <3>4. ClosedDead'
        BY <2>3, <3>1, <3>2, <3>3 DEF ExecutionLeft, ClosedDead
    <3>5. InsidePlaced'
      <4>1. ASSUME NEW v \in Worker, call'[v] # NoCall, call'[v].inside # 0
            PROVE  Placed(call[v].inside, call[v].key)'
        <5>1. call'[v] = call[v]
            BY <1>1, <2>3, <4>1 DEF ExecutionLeft, Return, CallTypeOK
        <5>2. PICK m \in Nonce, k \in Key : m = call'[v].inside /\ k = call'[v].key
            BY <1>4, <4>1 DEF CallTypeOK, CallState
        <5>3. Placed(m, k)
            BY <1>1, <4>1, <5>1, <5>2 DEF InsidePlaced
        <5>4. Placed(m, k)'
            BY <1>1, <1>2, <5>3, PlacedStays
        <5> QED BY <5>2, <5>4 DEF Placed
      <4> QED BY <4>1 DEF InsidePlaced
    <3> QED BY <1>3, <1>4, <3>4, <3>5 DEF CallInv, CallSteady
  <2>4. ExecutionLeft(w) \/ closed' = closed
      BY <1>6 DEF Step, RequestPut, ApprovalNotNeeded, ApprovalBlocked, ApprovalLookup, PostureRefused,
                  ApprovalConfig, ApprovalPending, MessageRefused, HumanApproves, HumanDenies,
                  ExecutionPlain, ExecutionBlocked, ExecutionEntered, ExecutionUnidentified,
                  HandlerRefused, HandlerLookup, TakeConfigLock, ConfigLockFails, TakeExecutionLock, Recheck, ConsumePlan, Inject,
                  Finish, historyVars
  <2> QED BY <2>2, <2>3, <2>4
<1>7. ASSUME NEW w \in Worker, NEW k \in Key, NEW o \in Host,
             NEW l \in {"put", "execution", "approval"}, Receive(w, k, o, l), UNCHANGED closed
      PROVE  CallInv'
  <2>1. Moved(w) /\ call'[w].inside = 0
      BY <1>1, <1>7, RequestMoves
  <2>2. \A v \in Worker : Holding(v)
      BY <2>1 DEF Moved, Holding
  <2> QED BY <1>5, <1>7, <2>2
<1>8. CASE UNCHANGED <<call, closed>>
    BY <1>5, <1>8 DEF Holding
<1> QED BY <1>6, <1>7, <1>8
        DEF CallNext, RequestPlain, RequestRefused, RequestAnalyzed, FirstStage, Rewrite, Reload,
            MarkerLapses, Clock, callVars, allVars, historyVars

-----------------------------------------------------------------------------
(* What a call in time promises.                                           *)

\* While calls are in time (CallsInTime), what a call has looked up is still under
\* its key, whatever its state.
PlanHeld(w) ==
    LET c == call[w] IN
    c # NoCall /\ c.plan # NoPlan /\ pc[w] \notin Over =>
        /\ plans[c.key] # NoPlan /\ plans[c.key].nonce = c.plan.nonce
        /\ plans[c.key].expires = c.plan.expires /\ plans[c.key].call = c.plan.call

IsApproved(w) == call[w] # NoCall /\ call[w].approved # NotApproved

ApprovalOf(p) == [nonce |-> p.nonce, args |-> p.call.args, config |-> p.call.config]

Beginning(w) ==
    pc[w] \in {"put", "approval"} \/ (pc[w] = "execution" /\ call[w].host = "agent")
Asking == {"posture", "pending", "asked"}
Using  == {"lock", "locked", "recheck", "consume", "inject"}

\* A call that has come past the human without an approval has a plain payload, and
\* one that has an approval has it for the plan it looked up.
ApprovalFits(w) ==
    LET c == call[w] IN
    /\ Beginning(w) => c.payload = Plain /\ c.plan = NoPlan
    /\ Beginning(w) \/ pc[w] \in Asking => c.approved = NotApproved
    /\ pc[w] \in Asking => c.payload # Plain
    /\ ~ Beginning(w) /\ pc[w] \in {"execution", "handler"} /\ c.payload # Plain => IsApproved(w)
    /\ pc[w] \in Using => IsApproved(w)
    /\ IsApproved(w) => c.plan # NoPlan /\ c.approved = ApprovalOf(c.plan)

\* What is shown to the human is of a version that the file has had, and what is
\* injected of the version that it has.
VersionFits(w) ==
    LET c == call[w] IN
    /\ pc[w] \in {"pending", "asked"} => c.plan.call.config <= disk
    /\ pc[w] \in {"consume", "inject"} =>
           SameArgs(c.payload, c.plan) /\ c.plan.call.config = disk /\ c.view = disk

\* The plan that a call shows to the human, or has the approval of.
Owns(w, n) == \/ IsApproved(w) /\ call[w].approved.nonce = n
              \/ pc[w] = "asked" /\ call[w].plan.nonce = n

Injected(n) == \E i \in DOMAIN injections : injections[i].nonce = n

OwnersApart   == \A n \in Nonce, v, w \in Worker : Owns(v, n) /\ Owns(w, n) => v = w
OwnedAsked    == \A n \in Nonce, w \in Worker : Owns(w, n) => n \in asked
OwnedUnused   == \A n \in Nonce, w \in Worker : Owns(w, n) /\ pc[w] \notin Over => ~ Injected(n)
InjectedAsked == \A n \in Nonce : Injected(n) => n \in asked

\* A plan that is analysed, or not even stored, has not been shown to the human.
Unasked ==
    /\ \A k \in Key : plans[k].state = "ANALYZED" => plans[k].nonce \notin asked
    /\ \A w \in Creator : drafts[w] # NoDraft => drafts[w].plan.nonce \notin asked
    /\ \A n \in asked : n <= built

InjectionRecord == [by : Worker, nonce : Nonce, checked : Nonce, payload : Payload,
              view : Version \cup {Unavailable}]

OwnInv == OwnersApart /\ OwnedAsked /\ OwnedUnused /\ InjectedAsked /\ Unasked

UseInv ==
    /\ CallInv
    /\ \A w \in Worker : PlanHeld(w) /\ ApprovalFits(w) /\ VersionFits(w)
    /\ OwnInv
    /\ injections \in Seq(InjectionRecord)
    /\ PlansNotCrossed

LEMMA UnaskedNext ==
    ASSUME SpendInv, Unasked, [Next]_vars
    PROVE  Unasked' /\ asked \subseteq asked'
<1>1. TypeOK /\ TombstonesMatchPlans /\ NoncesApart
    BY DEF SpendInv, StoreInv
<1>2. ASSUME NEW w \in Creator, NEW k \in Key, NEW c \in Call, NEW h \in Timeout, BuildPlan(w, k, c, h)
      PROVE  Unasked' /\ asked \subseteq asked'
  <2>1. built + 1 \notin asked /\ \A n \in asked : n <= built'
      BY <1>1, <1>2 DEF Unasked, BuildPlan, TypeOK, Nonce
  <2>2. \A v \in Creator : drafts'[v] = drafts[v] \/ drafts'[v].plan.nonce = built + 1
      BY <1>1, <1>2 DEF BuildPlan, TypeOK
  <2> QED BY <1>2, <2>1, <2>2 DEF Unasked, BuildPlan
<1>3. ASSUME NEW w \in Creator, PutPlan(w)
      PROVE  Unasked' /\ asked \subseteq asked'
  <2>1. \A v \in Creator : drafts'[v] # NoDraft => drafts'[v] = drafts[v]
      BY <1>1, <1>3 DEF PutPlan, TypeOK
  <2>2. ASSUME NEW j \in Key, plans'[j].state = "ANALYZED"
        PROVE  plans'[j].nonce \notin asked
    <3>1. CASE plans'[j] = drafts[w].plan
        BY <1>3, <3>1 DEF PutPlan, Unasked
    <3>2. CASE plans'[j] = CleanPlans[j]
      <4>1. CleanPlans[j] # NoPlan /\ CleanPlans[j].state \in Live
          BY <2>2, <3>2 DEF NoPlan, Live
      <4> QED BY <1>1, <2>2, <3>2, <4>1, CleanNonces DEF Unasked
    <3> QED BY <1>1, <1>3, <3>1, <3>2, CleanTypes DEF PutPlan, PutAccepted, PutRefused
  <2> QED BY <1>3, <2>1, <2>2 DEF PutPlan, Unasked
<1>4. ASSUME ~ \E w \in Creator : PutPlan(w), NEW j \in Key, plans'[j].state = "ANALYZED"
      PROVE  plans[j].state = "ANALYZED" /\ plans'[j].nonce = plans[j].nonce
    BY <1>1, <1>4, StepOfTheRest DEF NoPlan
<1>5. ASSUME ~ \E w \in Creator : PutPlan(w), UNCHANGED <<drafts, built, asked>>
      PROVE  Unasked' /\ asked \subseteq asked'
    BY <1>4, <1>5 DEF Unasked
<1>6. ASSUME NEW k \in Key, MarkPending(k), UNCHANGED <<drafts, built>>,
             ~ \E w \in Creator : PutPlan(w)
      PROVE  Unasked' /\ asked \subseteq asked'
  <2>1. plans[k] # NoPlan /\ asked' = asked \cup {plans[k].nonce} /\ plans'[k].state # "ANALYZED"
      BY <1>1, <1>6 DEF MarkPending, NoPlan, TypeOK
  <2>2. /\ plans[k].nonce <= built
        /\ \A v \in Creator : drafts[v] # NoDraft => drafts[v].plan.nonce # plans[k].nonce
      BY <1>1, <2>1 DEF NoncesApart, NoncesBuilt, DraftNoncesDistinct
  <2>3. ASSUME NEW j \in Key, plans'[j].state = "ANALYZED"
        PROVE  plans'[j].nonce \notin asked'
    <3>1. j # k /\ plans[j].state = "ANALYZED" /\ plans'[j].nonce = plans[j].nonce /\ plans[j] # NoPlan
        BY <1>4, <1>6, <2>1, <2>3 DEF NoPlan
    <3> QED BY <1>1, <2>1, <3>1 DEF Unasked, NoncesApart, PlanNoncesDistinct
  <2> QED BY <1>6, <2>1, <2>2, <2>3 DEF Unasked
<1>7. CASE ~ \E w \in Creator : PutPlan(w)
  <2>1. CASE UNCHANGED <<drafts, built, asked>>
      BY <1>5, <1>7, <2>1
  <2>2. CASE \E k \in Key : MarkPending(k) /\ UNCHANGED <<drafts, built>>
      BY <1>6, <1>7, <2>2
  <2> QED BY <1>2, <1>7, <2>1, <2>2
          DEF Next, Lookup, MarkApprovalPending, Consume, Invalidate, Tick, ExpireInPlace, Spend, vars
<1> QED BY <1>3, <1>7

\* What a step of a call leaves of it, if anything: its key, its host and, unless
\* the human answers, its approval.  A plan that is looked up is the one of its key.
Kept(w) ==
    /\ call'[w] # NoCall
    /\ call'[w].key = call[w].key /\ call'[w].host = call[w].host
    /\ pc[w] \in Over => pc'[w] \in Over
    /\ \/ call'[w].plan = call[w].plan
       \/ call'[w].plan = plans'[call[w].key] /\ call'[w].plan \in Plan

Gone(w) == call'[w] = NoCall /\ pc'[w] = "idle"

LEMMA StopKeeps ==
    ASSUME CallTypeOK, NEW w \in Worker, pc[w] # "idle", Stop(w)
    PROVE  Gone(w) \/ (Kept(w) /\ UNCHANGED call /\ pc'[w] = "after")
BY BusyCall DEF Stop, Return, GoTo, Gone, Kept, CallTypeOK, At, Over

\* A stage that goes on with the call as it is.
LEMMA GoKeeps ==
    ASSUME CallTypeOK, NEW w \in Worker, pc[w] # "idle", NEW l \in Stages, GoTo(w, l),
           UNCHANGED call, pc[w] \in Over => l \in Over
    PROVE  Kept(w) /\ pc'[w] = l
BY DEF GoTo, Kept, CallTypeOK, At

LEMMA LookupKeeps ==
    ASSUME CallTypeOK, TypeOK', NEW w \in Worker, NEW x \in Payload,
           ApprovalLookup(w, x) \/ HandlerLookup(w, x)
    PROVE  \/ Gone(w)
           \/ Kept(w) /\ UNCHANGED call /\ pc'[w] = "after"
           \/ /\ Kept(w) /\ call'[w].payload = x /\ call'[w].plan = plans'[call[w].key]
              /\ call'[w].approved = call[w].approved /\ call'[w].plan \in Plan
              /\ \/ ApprovalLookup(w, x) /\ pc'[w] = "posture"
                 \/ HandlerLookup(w, x) /\ pc'[w] = "lock"
<1> DEFINE k == call[w].key
<1>1. call[w] \in CallState /\ k \in Key /\ pc[w] # "idle"
    BY BusyCall DEF ApprovalLookup, HandlerLookup, At
<1>2. CASE Stop(w)
    BY <1>1, <1>2, StopKeeps
<1>3. CASE /\ ApprovalLookup(w, x) /\ plans'[k].state = "ANALYZED"
           /\ call' = [call EXCEPT ![w].payload = x, ![w].plan = plans'[k], ![w].view = published]
           /\ GoTo(w, "posture")
  <2>1. plans'[k] \in Plan
      BY <1>1, <1>3 DEF TypeOK, NoPlan
  <2>2. call'[w] = [call[w] EXCEPT !.payload = x, !.plan = plans'[k], !.view = published]
      BY <1>3 DEF CallTypeOK
  <2>3. /\ call'[w].payload = x /\ call'[w].plan = plans'[k] /\ call'[w].key = k
        /\ call'[w].host = call[w].host /\ call'[w].approved = call[w].approved
        /\ call'[w] # NoCall
      BY <1>1, <2>2 DEF CallState, NoCall
  <2> QED BY <1>3, <2>1, <2>3 DEF ApprovalLookup, At, GoTo, CallTypeOK, Kept, Over
<1>4. CASE /\ HandlerLookup(w, x) /\ plans[k].state = "APPROVAL_PENDING" /\ UNCHANGED storeVars
           /\ call' = [call EXCEPT ![w].payload = x, ![w].plan = plans[k]]
           /\ GoTo(w, "lock")
  <2>1. plans'[k] \in Plan /\ plans'[k] = plans[k]
      BY <1>1, <1>4 DEF TypeOK, NoPlan, storeVars
  <2>2. call'[w] = [call[w] EXCEPT !.payload = x, !.plan = plans[k]]
      BY <1>4 DEF CallTypeOK
  <2>3. /\ call'[w].payload = x /\ call'[w].plan = plans'[k] /\ call'[w].key = k
        /\ call'[w].host = call[w].host /\ call'[w].approved = call[w].approved
        /\ call'[w] # NoCall
      BY <1>1, <2>1, <2>2 DEF CallState, NoCall
  <2> QED BY <1>4, <2>1, <2>3 DEF HandlerLookup, At, GoTo, CallTypeOK, Kept, Over
<1> QED BY <1>2, <1>3, <1>4 DEF ApprovalLookup, HandlerLookup

LEMMA PendingKeeps ==
    ASSUME CallTypeOK, TypeOK, TypeOK', NEW w \in Worker, ApprovalPending(w)
    PROVE  \/ Gone(w)
           \/ Kept(w) /\ UNCHANGED call /\ pc'[w] = "after"
           \/ /\ Kept(w) /\ call'[w].plan = plans'[call[w].key] /\ call'[w].plan \in Plan
              /\ call'[w].payload = call[w].payload /\ call'[w].approved = call[w].approved
              /\ MarkPending(call[w].key) /\ call'[w].plan.nonce = plans[call[w].key].nonce
              /\ pc'[w] = "asked"
<1> DEFINE k == call[w].key
<1>1. call[w] \in CallState /\ k \in Key /\ pc[w] # "idle"
    BY BusyCall DEF ApprovalPending, At
<1>2. CASE Stop(w)
    BY <1>1, <1>2, StopKeeps
<1>3. CASE MarkPending(k) /\ call' = [call EXCEPT ![w].plan = plans'[k]] /\ GoTo(w, "asked")
  <2>1. plans[k] \in Plan /\ plans'[k] = [plans[k] EXCEPT !.state = "APPROVAL_PENDING"]
      BY <1>1, <1>3 DEF TypeOK, NoPlan, MarkPending
  <2>2. plans'[k] \in Plan /\ plans'[k].nonce = plans[k].nonce
      BY <2>1 DEF Plan, Live
  <2>3. call'[w] = [call[w] EXCEPT !.plan = plans'[k]]
      BY <1>3 DEF CallTypeOK
  <2>4. /\ call'[w].payload = call[w].payload /\ call'[w].plan = plans'[k] /\ call'[w].key = k
        /\ call'[w].host = call[w].host /\ call'[w].approved = call[w].approved
        /\ call'[w] # NoCall
      BY <1>1, <2>3 DEF CallState, NoCall
  <2> QED BY <1>3, <2>2, <2>4 DEF ApprovalPending, At, GoTo, CallTypeOK, Kept, Over
<1> QED BY <1>2, <1>3 DEF ApprovalPending

LEMMA ApprovesKeeps ==
    ASSUME CallTypeOK, NEW w \in Worker, HumanApproves(w)
    PROVE  /\ Kept(w) /\ call'[w].plan = call[w].plan /\ call'[w].payload = call[w].payload
           /\ call'[w].approved = [nonce |-> call[w].plan.nonce, args |-> call[w].payload,
                                   config |-> call[w].plan.call.config]
           /\ pc'[w] = AfterApproval(w)
<1>1. call[w] \in CallState
    BY BusyCall DEF HumanApproves, MessageShown, At
<1>2. call'[w] = [call[w] EXCEPT !.approved = [nonce |-> call[w].plan.nonce, args |-> call[w].payload,
                                               config |-> call[w].plan.call.config]]
    BY DEF HumanApproves, CallTypeOK
<1>3. /\ call'[w].payload = call[w].payload /\ call'[w].plan = call[w].plan
      /\ call'[w].key = call[w].key /\ call'[w].host = call[w].host /\ call'[w] # NoCall
      /\ call'[w].approved = [nonce |-> call[w].plan.nonce, args |-> call[w].payload,
                              config |-> call[w].plan.call.config]
    BY <1>1, <1>2 DEF CallState, NoCall
<1> QED BY <1>3 DEF HumanApproves, MessageShown, At, GoTo, CallTypeOK, Kept, Over

LEMMA EnteredKeeps ==
    ASSUME CallTypeOK, NEW w \in Worker, ExecutionEntered(w)
    PROVE  \/ Gone(w)
           \/ /\ Kept(w) /\ call'[w].plan = call[w].plan /\ call'[w].payload = call[w].payload
              /\ call'[w].approved = call[w].approved
              /\ pc'[w] = AfterEntry(w)
<1>1. call[w] \in CallState
    BY BusyCall DEF ExecutionEntered, At
<1>2. CASE Return(w)
    BY <1>2 DEF Return, GoTo, Gone, CallTypeOK
<1>3. CASE call' = [call EXCEPT ![w].inside = plans'[call[w].key].nonce] /\ GoTo(w, AfterEntry(w))
  <2>1. call'[w] = [call[w] EXCEPT !.inside = plans'[call[w].key].nonce]
      BY <1>3 DEF CallTypeOK
  <2>2. /\ call'[w].payload = call[w].payload /\ call'[w].plan = call[w].plan
        /\ call'[w].key = call[w].key /\ call'[w].host = call[w].host /\ call'[w] # NoCall
        /\ call'[w].approved = call[w].approved
      BY <1>1, <2>1 DEF CallState, NoCall
  <2> QED BY <1>3, <2>2 DEF ExecutionEntered, At, GoTo, CallTypeOK, Kept, Over
<1> QED BY <1>2, <1>3 DEF ExecutionEntered

LEMMA RecheckKeeps ==
    ASSUME CallTypeOK, NEW w \in Worker, Recheck(w)
    PROVE  \/ Gone(w)
           \/ Kept(w) /\ UNCHANGED call /\ pc'[w] = "after"
           \/ /\ Kept(w) /\ call'[w].plan = call[w].plan /\ call'[w].payload = call[w].payload
              /\ call'[w].approved = call[w].approved /\ call'[w].view = published
              /\ Agree(call[w]) /\ pc'[w] = "consume"
<1>1. call[w] \in CallState /\ pc[w] # "idle"
    BY BusyCall DEF Recheck, At
<1>2. CASE Stop(w)
    BY <1>1, <1>2, StopKeeps
<1>3. CASE Agree(call[w]) /\ call' = [call EXCEPT ![w].view = published] /\ GoTo(w, "consume")
  <2>1. call'[w] = [call[w] EXCEPT !.view = published]
      BY <1>3 DEF CallTypeOK
  <2>2. /\ call'[w].payload = call[w].payload /\ call'[w].plan = call[w].plan
        /\ call'[w].key = call[w].key /\ call'[w].host = call[w].host /\ call'[w] # NoCall
        /\ call'[w].approved = call[w].approved /\ call'[w].view = published
      BY <1>1, <2>1 DEF CallState, NoCall
  <2> QED BY <1>3, <2>2 DEF Recheck, At, GoTo, CallTypeOK, Kept, Over
<1> QED BY <1>2, <1>3 DEF Recheck

\* The stages that go on with the call as it is.
Onward(w) ==
    \/ pc[w] = "put" /\ pc'[w] = FirstStage(call[w].host)
    \/ pc[w] = "approval" /\ pc'[w] = AfterApproval(w)
    \/ pc[w] = "posture" /\ pc'[w] = "pending" /\ disk = call[w].plan.call.config
    \/ pc[w] = "execution" /\ pc'[w] = AfterEntry(w)
    \/ <<pc[w], pc'[w]>> \in {<<"lock", "locked">>, <<"locked", "recheck">>, <<"consume", "inject">>,
                              <<"inject", "release">>}

LEMMA PlainKeeps ==
    ASSUME CallTypeOK, NEW w \in Worker, Step(w), ~ HumanApproves(w), ~ ApprovalPending(w),
           ~ ExecutionEntered(w), ~ Recheck(w),
           ~ \E x \in Args : ApprovalLookup(w, x), ~ \E x \in Payload : HandlerLookup(w, x)
    PROVE  \/ Gone(w)
           \/ Kept(w) /\ UNCHANGED call /\ (pc'[w] = "after" \/ Onward(w))
<1> USE DEF At
<1>1. pc[w] # "idle" /\ Stop(w) => Gone(w) \/ (Kept(w) /\ UNCHANGED call /\ pc'[w] = "after")
    BY StopKeeps
<1>2. Return(w) => Gone(w)
    BY DEF Return, GoTo, Gone, CallTypeOK
<1>3. ASSUME UNCHANGED call, pc[w] # "idle", pc[w] \notin Over, NEW l \in Stages, GoTo(w, l)
      PROVE  Kept(w) /\ pc'[w] = l
    BY <1>3, GoKeeps
<1>4. CASE RequestPut(w) \/ ApprovalNotNeeded(w) \/ ExecutionPlain(w)
  <2>1. /\ FirstStage(call[w].host) \in Stages /\ AfterApproval(w) \in Stages
        /\ AfterEntry(w) \in Stages
      BY DEF FirstStage, AfterApproval, AfterEntry, Stages
  <2> QED BY <1>3, <1>4, <2>1 DEF RequestPut, ApprovalNotNeeded, ExecutionPlain, Onward, Over
<1>5. CASE ApprovalConfig(w)
    BY <1>1, <1>3, <1>5 DEF ApprovalConfig, Onward, Over, Stages
<1>6. CASE TakeConfigLock(w) \/ TakeExecutionLock(w) \/ Inject(w)
    BY <1>3, <1>6 DEF TakeConfigLock, TakeExecutionLock, Inject, Onward, Over, Stages
<1>7. CASE ConsumePlan(w)
    BY <1>1, <1>3, <1>7 DEF ConsumePlan, Onward, Over, Stages
<1>8. CASE \/ ApprovalBlocked(w) \/ PostureRefused(w) \/ MessageRefused(w) \/ HumanDenies(w)
           \/ HandlerRefused(w) \/ ConfigLockFails(w) \/ Finish(w)
    BY <1>1, <1>8 DEF ApprovalBlocked, PostureRefused, MessageRefused, HumanDenies, MessageShown,
                      HandlerRefused, ConfigLockFails, Finish
<1>9. CASE ExecutionBlocked(w) \/ ExecutionUnidentified(w) \/ ExecutionLeft(w)
    BY <1>2, <1>9 DEF ExecutionBlocked, ExecutionUnidentified, ExecutionLeft
<1> QED BY <1>4, <1>5, <1>6, <1>7, <1>8, <1>9 DEF Step

\* Every step of a call but the human's approval leaves its approval alone.
LEMMA WorkerKeeps ==
    ASSUME CallTypeOK, TypeOK, TypeOK', NEW w \in Worker, Step(w)
    PROVE  /\ call[w] # NoCall /\ (Gone(w) \/ Kept(w))
           /\ Gone(w) \/ HumanApproves(w) \/ call'[w].approved = call[w].approved
<1>1. ASSUME NEW x \in Payload, ApprovalLookup(w, x) \/ HandlerLookup(w, x)
      PROVE  Gone(w) \/ (Kept(w) /\ call'[w].approved = call[w].approved)
    BY <1>1, LookupKeeps
<1>2. call[w] # NoCall
    BY StepBusy DEF CallTypeOK, At
<1> QED BY <1>1, <1>2, PendingKeeps, ApprovesKeeps, EnteredKeeps, RecheckKeeps, PlainKeeps
        DEF Payload

LEMMA PlanHeldNext ==
    ASSUME UseInv, CallsInTime, CallInv', [Next]_vars, NEW w \in Worker,
           \/ Gone(w)
           \/ Kept(w) /\ call[w] # NoCall
           \/ call'[w] = call[w] /\ pc'[w] = pc[w]
           \/ call'[w].plan = NoPlan
    PROVE  PlanHeld(w)'
<1>1. /\ TypeOK /\ TombstonesMatchPlans /\ CallTypeOK /\ PlanHeld(w) /\ CallTypeOK' /\ TypeOK'
    BY DEF UseInv, CallInv, CallSteady, SpendInv, StoreInv
<1> SUFFICES ASSUME call'[w] # NoCall, call'[w].plan # NoPlan, pc'[w] \notin Over
             PROVE  /\ plans'[call'[w].key] # NoPlan /\ plans'[call'[w].key].nonce = call'[w].plan.nonce
                    /\ plans'[call'[w].key].expires = call'[w].plan.expires
                    /\ plans'[call'[w].key].call = call'[w].plan.call
    BY DEF PlanHeld
<1>2. CASE call'[w].plan = plans'[call'[w].key]
    BY <1>2
<1>3. CASE call'[w].plan = call[w].plan /\ call'[w].key = call[w].key /\ pc[w] \notin Over
           /\ call[w] # NoCall
  <2>1. call[w].key \in Key
      BY <1>1, <1>3 DEF CallTypeOK, CallState
  <2>2. /\ plans[call[w].key] # NoPlan /\ plans[call[w].key].nonce = call[w].plan.nonce
        /\ plans[call[w].key].expires = call[w].plan.expires
        /\ plans[call[w].key].call = call[w].plan.call
        /\ now < TombstoneDeadline(call[w].plan)
      BY <1>1, <1>3 DEF PlanHeld, CallsInTime
  <2>3. now < TombstoneDeadline(plans[call[w].key])
      BY <2>2 DEF TombstoneDeadline
  <2> QED BY <1>1, <1>3, <2>1, <2>2, <2>3, PlanStays
<1>4. CASE call'[w] = call[w] /\ pc'[w] = pc[w]
    BY <1>3, <1>4
<1>5. CASE Kept(w) /\ call[w] # NoCall
    BY <1>2, <1>3, <1>5 DEF Kept
<1> QED BY <1>4, <1>5 DEF Gone

LEMMA ApprovalFitsNext ==
    ASSUME UseInv, CallInv', NEW w \in Worker, Step(w)
    PROVE  ApprovalFits(w)'
<1> DEFINE c == call[w]
           k == call[w].key
<1>1. /\ TypeOK /\ CallTypeOK /\ CallHasPlan /\ CallTypeOK' /\ CallHasPlan' /\ TypeOK'
      /\ PlanHeld(w) /\ ApprovalFits(w)
    BY DEF UseInv, CallInv, CallSteady, SpendInv, StoreInv
<1>2. c \in CallState /\ c # NoCall /\ c.host \in {"agent", "dispatcher"} /\ Plain \notin Args
    BY <1>1, BusyCall, StepBusy, ReferenceCallAssumption DEF CallTypeOK, CallState, At
<1> USE DEF Beginning, Asking, Using, Over, IsApproved
<1>3. CASE Gone(w)
    BY <1>1, <1>3 DEF Gone, ApprovalFits
<1>4. CASE UNCHANGED call /\ Kept(w) /\ pc'[w] = "after"
    BY <1>1, <1>4 DEF Kept, ApprovalFits
<1>5. CASE UNCHANGED call /\ Kept(w) /\ Onward(w)
    BY <1>1, <1>2, <1>5 DEF Kept, Onward, ApprovalFits, FirstStage, AfterApproval, AfterEntry
<1>6. ASSUME NEW x \in Args, ApprovalLookup(w, x), Kept(w), call'[w].payload = x,
             call'[w].approved = c.approved, pc'[w] = "posture"
      PROVE  ApprovalFits(w)'
  <2>1. Beginning(w)
      BY <1>6 DEF ApprovalLookup, At
  <2> QED BY <1>1, <1>2, <1>6, <2>1 DEF ApprovalFits
<1>7. ASSUME NEW x \in Payload, HandlerLookup(w, x), Kept(w), call'[w].payload = x,
             call'[w].approved = c.approved, pc'[w] = "lock", call'[w].plan = plans'[k],
             call'[w].plan \in Plan
      PROVE  ApprovalFits(w)'
  <2>1. pc[w] = "handler" /\ c.payload # Plain
      BY <1>7 DEF HandlerLookup, At, HandedOn, ValidRequest
  <2>2. IsApproved(w) /\ c.plan # NoPlan /\ c.approved = ApprovalOf(c.plan)
      BY <1>1, <2>1 DEF ApprovalFits
  <2>3. call'[w].plan = plans[k]
    <3>1. CASE Stop(w)
        BY <1>1, <1>7, <3>1, <2>1, StopMoves
    <3> QED BY <1>7, <3>1 DEF HandlerLookup, storeVars
  <2>4. call'[w].plan.nonce = c.plan.nonce /\ call'[w].plan.call = c.plan.call
      BY <1>1, <1>2, <2>1, <2>2, <2>3 DEF PlanHeld
  <2>5. call'[w].plan # NoPlan
      BY <1>7 DEF Plan, NoPlan, Live, Terminal
  <2>6. call'[w].approved = ApprovalOf(call'[w].plan)
      BY <1>7, <2>2, <2>4 DEF ApprovalOf
  <2> QED BY <1>1, <1>2, <1>7, <2>2, <2>5, <2>6 DEF ApprovalFits, Kept, ApprovalOf
<1>8. CASE /\ ApprovalPending(w) /\ Kept(w) /\ pc'[w] = "asked"
           /\ call'[w].payload = c.payload /\ call'[w].approved = c.approved
    BY <1>1, <1>2, <1>8 DEF ApprovalFits, ApprovalPending, At
<1>9. CASE HumanApproves(w)
  <2>1. /\ Kept(w) /\ call'[w].plan = c.plan /\ call'[w].payload = c.payload
        /\ call'[w].approved = [nonce |-> c.plan.nonce, args |-> c.payload, config |-> c.plan.call.config]
        /\ pc'[w] = AfterApproval(w)
      BY <1>1, <1>9, ApprovesKeeps
  <2>2. c.payload = c.plan.call.args /\ c.plan \in Plan /\ c.payload # Plain
      BY <1>1, <1>9 DEF HumanApproves, MessageShown, SameArgs, CallHasPlan, PlanStages, At, ApprovalFits
  <2>3. call'[w].approved = ApprovalOf(call'[w].plan) /\ call'[w].plan # NoPlan
      BY <2>1, <2>2 DEF ApprovalOf, Plan, NoPlan, Live, Terminal
  <2>4. call'[w].approved # NotApproved
      BY <2>1, <2>2 DEF NotApproved
  <2> QED BY <1>1, <1>2, <1>9, <2>1, <2>3, <2>4 DEF ApprovalFits, AfterApproval, Kept
<1>10. CASE /\ ExecutionEntered(w) /\ Kept(w) /\ call'[w].plan = c.plan /\ call'[w].payload = c.payload
            /\ call'[w].approved = c.approved /\ pc'[w] = AfterEntry(w)
    BY <1>1, <1>2, <1>10 DEF ApprovalFits, ExecutionEntered, At, AfterEntry, Kept
<1>11. CASE /\ Recheck(w) /\ Kept(w) /\ call'[w].plan = c.plan /\ call'[w].payload = c.payload
            /\ call'[w].approved = c.approved /\ pc'[w] = "consume"
    BY <1>1, <1>2, <1>11 DEF ApprovalFits, Recheck, At, Kept
<1>12. ASSUME NEW x \in Args, ApprovalLookup(w, x) PROVE ApprovalFits(w)'
    BY <1>1, <1>3, <1>4, <1>6, <1>12, LookupKeeps DEF Payload, ApprovalLookup, HandlerLookup, At
<1>13. ASSUME NEW x \in Payload, HandlerLookup(w, x) PROVE ApprovalFits(w)'
    BY <1>1, <1>3, <1>4, <1>7, <1>13, LookupKeeps DEF ApprovalLookup, HandlerLookup, At
<1> QED BY <1>1, <1>3, <1>4, <1>5, <1>8, <1>9, <1>10, <1>11, <1>12, <1>13, PlainKeeps, PendingKeeps, EnteredKeeps,
           RecheckKeeps

LEMMA VersionFitsNext ==
    ASSUME UseInv, CallInv', NEW w \in Worker, Step(w)
    PROVE  VersionFits(w)'
<1> DEFINE c == call[w]
           k == call[w].key
<1>1. /\ TypeOK /\ CallTypeOK /\ CallHasPlan /\ CallTypeOK' /\ TypeOK' /\ VersionFits(w) /\ PlanHeld(w)
      /\ ApprovalFits(w)
    BY DEF UseInv, CallInv, CallSteady, SpendInv, StoreInv
<1>2. disk' = disk /\ disk \in Nat /\ disk <= disk
    BY <1>1, WorkerTypes DEF CallTypeOK, Version
<1>3. c \in CallState /\ c # NoCall
    BY <1>1, BusyCall, StepBusy DEF CallTypeOK, At
<1> USE DEF Over
<1>4. CASE pc'[w] \notin {"pending", "asked", "consume", "inject"}
    BY <1>4 DEF VersionFits
<1>5. CASE UNCHANGED call /\ Kept(w) /\ Onward(w)
    BY <1>1, <1>2, <1>5 DEF Onward, VersionFits, FirstStage, AfterApproval, AfterEntry
<1>6. CASE /\ ApprovalPending(w) /\ Kept(w) /\ pc'[w] = "asked" /\ call'[w].plan = plans'[k]
           /\ MarkPending(k)
  <2>1. pc[w] = "pending" /\ c.plan \in Plan
      BY <1>1, <1>6 DEF ApprovalPending, At, CallHasPlan, PlanStages
  <2>2. c.plan # NoPlan
      BY <2>1 DEF Plan, NoPlan, Live, Terminal
  <2>3. plans[k].call = c.plan.call /\ plans[k] # NoPlan /\ k \in Key
      BY <1>1, <1>3, <2>1, <2>2 DEF PlanHeld, CallState
  <2>4. plans'[k] = [plans[k] EXCEPT !.state = "APPROVAL_PENDING"] /\ plans[k] \in Plan
      BY <1>1, <1>6, <2>3 DEF MarkPending, TypeOK
  <2>5. plans'[k].call = c.plan.call
      BY <2>3, <2>4 DEF Plan
  <2> QED BY <1>1, <1>2, <1>6, <2>1, <2>5 DEF VersionFits
<1>7. CASE /\ Recheck(w) /\ Kept(w) /\ call'[w].plan = c.plan /\ call'[w].payload = c.payload
           /\ call'[w].view = published /\ Agree(c) /\ pc'[w] = "consume"
    BY <1>1, <1>2, <1>7 DEF VersionFits, Agree, SameArgs
<1>8. CASE HumanApproves(w)
    BY <1>1, <1>4, <1>8, ApprovesKeeps DEF AfterApproval
<1>9. CASE ExecutionEntered(w)
    BY <1>1, <1>4, <1>9, EnteredKeeps DEF AfterEntry, Gone
<1>10. ASSUME NEW x \in Payload, ApprovalLookup(w, x) \/ HandlerLookup(w, x) PROVE VersionFits(w)'
    BY <1>1, <1>4, <1>10, LookupKeeps DEF Gone
<1> QED BY <1>1, <1>4, <1>5, <1>6, <1>7, <1>8, <1>9, <1>10, PlainKeeps, PendingKeeps, RecheckKeeps
        DEF Gone, Payload

\* A call comes to own only a plan that no one has been asked about.
Claims(w) ==
    \A n \in Nonce : Owns(w, n)' =>
        \/ Owns(w, n) /\ (pc'[w] \notin Over => pc[w] \notin Over)
        \/ n \notin asked /\ n \in asked'

LEMMA WorkerClaims ==
    ASSUME UseInv, CallInv', NEW w \in Worker, Step(w)
    PROVE  Claims(w)
<1>1. /\ TypeOK /\ TypeOK' /\ CallTypeOK /\ CallTypeOK' /\ Unasked
    BY DEF UseInv, OwnInv, CallInv, CallSteady, SpendInv, StoreInv
<1>2. /\ call[w] # NoCall /\ (Gone(w) \/ Kept(w))
      /\ Gone(w) \/ HumanApproves(w) \/ call'[w].approved = call[w].approved
    BY <1>1, WorkerKeeps
<1>3. CASE Gone(w)
    BY <1>3 DEF Gone, Claims, Owns, IsApproved
<1>4. CASE pc'[w] # "asked" /\ Kept(w) /\ call'[w].approved = call[w].approved
    BY <1>2, <1>4 DEF Claims, Owns, IsApproved, Kept
<1>5. CASE HumanApproves(w)
  <2>1. pc[w] = "asked"
      BY <1>5 DEF HumanApproves, MessageShown, At
  <2>2. /\ call'[w].approved = [nonce |-> call[w].plan.nonce, args |-> call[w].payload,
                                config |-> call[w].plan.call.config]
        /\ pc'[w] = AfterApproval(w)
      BY <1>1, <1>5, ApprovesKeeps
  <2>3. call'[w].approved.nonce = call[w].plan.nonce
      BY <2>2
  <2>4. pc'[w] # "asked"
      BY <2>2 DEF AfterApproval
  <2> QED BY <2>1, <2>3, <2>4 DEF Claims, Owns, IsApproved, Over
<1>6. CASE pc'[w] = "asked" /\ Kept(w) /\ ~ HumanApproves(w)
  <2>1. CASE ApprovalPending(w)
    <3>1. /\ MarkPending(call[w].key) /\ call'[w].plan.nonce = plans[call[w].key].nonce
          /\ call'[w].approved = call[w].approved
        BY <1>1, <1>6, <2>1, PendingKeeps DEF Gone
    <3>2. call[w].key \in Key
        BY <1>1, <1>2 DEF CallTypeOK, CallState
    <3>3. plans[call[w].key].nonce \notin asked /\ plans[call[w].key].nonce \in asked'
        BY <1>1, <3>1, <3>2 DEF MarkPending, Unasked
    <3> QED BY <1>2, <1>6, <3>1, <3>3 DEF Claims, Owns, IsApproved, Kept
  <2>2. CASE ~ ApprovalPending(w)
    <3>1. ASSUME NEW x \in Payload, ApprovalLookup(w, x) \/ HandlerLookup(w, x) PROVE pc'[w] # "asked"
        BY <1>1, <3>1, LookupKeeps DEF Gone
    <3>2. ~ Onward(w)
        BY <1>6 DEF Onward, FirstStage, AfterApproval, AfterEntry
    <3>3. ExecutionEntered(w) => pc'[w] # "asked"
        BY <1>1, EnteredKeeps DEF AfterEntry, Gone
    <3> QED BY <1>1, <1>6, <2>2, <3>1, <3>2, <3>3, PlainKeeps, RecheckKeeps DEF Gone, Payload
  <2> QED BY <2>1, <2>2
<1> QED BY <1>2, <1>3, <1>4, <1>5, <1>6

\* So the plans that two calls own are never the same.
LEMMA OwnersNext ==
    ASSUME UseInv, [Next]_vars, \A w \in Worker : Claims(w),
           NEW v \in Worker, \A w \in Worker \ {v} : pc'[w] = pc[w] /\ call'[w] = call[w]
    PROVE  OwnersApart' /\ OwnedAsked' /\ Unasked'
<1>1. OwnersApart /\ OwnedAsked /\ asked \subseteq asked' /\ Unasked'
    BY UnaskedNext DEF UseInv, OwnInv, CallInv, CallSteady
<1>2. \A n \in Nonce, w \in Worker : w # v /\ Owns(w, n)' => Owns(w, n)
    BY DEF Owns, IsApproved
<1>3. OwnedAsked'
    BY <1>1 DEF OwnedAsked, Claims
<1>4. ASSUME NEW n \in Nonce, NEW w \in Worker, w # v, Owns(v, n)', Owns(w, n)'
      PROVE  FALSE
  <2>1. Owns(w, n) /\ n \in asked
      BY <1>1, <1>2, <1>4 DEF OwnedAsked
  <2>2. Owns(v, n)
      BY <1>4, <2>1 DEF Claims
  <2> QED BY <1>1, <1>4, <2>1, <2>2 DEF OwnersApart
<1>5. \A n \in Nonce, u, w \in Worker : Owns(u, n)' /\ Owns(w, n)' => u = w
    BY <1>1, <1>2, <1>4 DEF OwnersApart
<1> QED BY <1>1, <1>3, <1>5 DEF OwnersApart

\* What is injected is what was approved in the call that injects it.
LEMMA InjectUses ==
    ASSUME UseInv, NEW w \in Worker, Inject(w), injections' # injections
    PROVE  LET a == call[w].approved
               i == [by |-> w, nonce |-> a.nonce, checked |-> a.nonce, payload |-> a.args,
                     view |-> disk]
           IN  /\ IsApproved(w) /\ Owns(w, a.nonce) /\ ~ Injected(a.nonce)
               /\ i \in InjectionRecord /\ injections' = Append(injections, i)
               /\ a.config = disk /\ pc'[w] = "release"
<1> DEFINE c == call[w]
           k == call[w].key
<1>1. /\ TypeOK /\ CallTypeOK /\ CallHasPlan /\ PlanHeld(w) /\ ApprovalFits(w) /\ VersionFits(w)
      /\ OwnedUnused
    BY DEF UseInv, OwnInv, CallInv, CallSteady, SpendInv, StoreInv
<1>2. pc[w] = "inject" /\ c \in CallState /\ c # NoCall /\ k \in Key /\ c.plan \in Plan
    BY <1>1, BusyCall DEF Inject, At, CallTypeOK, CallHasPlan, PlanStages
<1>3. IsApproved(w) /\ c.approved = ApprovalOf(c.plan)
    BY <1>1, <1>2 DEF ApprovalFits, Using
<1>4. SameArgs(c.payload, c.plan) /\ c.plan.call.config = disk /\ c.view = disk
    BY <1>1, <1>2 DEF VersionFits
<1>5. plans[k] # NoPlan /\ plans[k].nonce = c.plan.nonce
    BY <1>1, <1>2 DEF PlanHeld, Over, Plan, NoPlan, Live, Terminal
<1>6. plans'[k].nonce = c.plan.nonce
  <2>1. CASE UNCHANGED storeVars
      BY <1>5, <2>1 DEF storeVars
  <2>2. CASE ExpireInPlace(k)
    <3>1. plans[k] \in Plan /\ plans'[k] = [plans[k] EXCEPT !.state = "INVALIDATED"]
        BY <1>1, <1>2, <1>5, <2>2 DEF ExpireInPlace, MarkTerminal, TypeOK
    <3> QED BY <1>5, <3>1 DEF Plan
  <2> QED BY <2>1, <2>2 DEF Inject, LookedUp
<1>7. injections' = Append(injections, InjectionOf(w, plans'[k]))
    BY DEF Inject
<1>8. Owns(w, c.approved.nonce) /\ c.approved.nonce \in Nonce
    BY <1>2, <1>3 DEF Owns, ApprovalOf, Plan
<1>9. ~ Injected(c.approved.nonce)
    BY <1>1, <1>2, <1>8 DEF OwnedUnused, Over
<1>10. InjectionOf(w, plans'[k]) =
          [by |-> w, nonce |-> c.approved.nonce, checked |-> c.approved.nonce,
           payload |-> c.approved.args, view |-> disk]
    BY <1>3, <1>4, <1>6 DEF InjectionOf, ApprovalOf, SameArgs
<1>11. c.payload \in Payload /\ c.payload = c.approved.args /\ disk \in Version
    BY <1>1, <1>2, <1>3, <1>4 DEF CallState, SameArgs, ApprovalOf, CallTypeOK
<1>12. [by |-> w, nonce |-> c.approved.nonce, checked |-> c.approved.nonce,
        payload |-> c.approved.args, view |-> disk] \in InjectionRecord
    BY <1>8, <1>11 DEF InjectionRecord
<1>13. pc'[w] = "release" /\ c.approved.config = disk
    BY <1>1, <1>3, <1>4 DEF Inject, GoTo, CallTypeOK, ApprovalOf
<1> QED BY <1>3, <1>7, <1>8, <1>9, <1>10, <1>12, <1>13

\* Only Inject adds to the injections.
LEMMA OnlyInjectUses ==
    ASSUME NEW w \in Worker, Step(w), ~ Inject(w)
    PROVE  injections' = injections
BY DEF Step, RequestPut, ApprovalNotNeeded, ApprovalBlocked, ApprovalLookup, PostureRefused,
       ApprovalConfig, ApprovalPending, MessageRefused, HumanApproves, HumanDenies, ExecutionPlain,
       ExecutionBlocked, ExecutionEntered, ExecutionUnidentified, ExecutionLeft, HandlerRefused,
       HandlerLookup, TakeConfigLock, ConfigLockFails, TakeExecutionLock, Recheck, ConsumePlan,
       Finish, historyVars

LEMMA InjectedNext ==
    ASSUME injections \in Seq(InjectionRecord), PlansNotCrossed, NEW i \in InjectionRecord,
           injections' = Append(injections, i), i.nonce = i.checked
    PROVE  /\ injections' \in Seq(InjectionRecord) /\ PlansNotCrossed'
           /\ \A n \in Nonce : Injected(n)' <=> Injected(n) \/ n = i.nonce
BY DEF PlansNotCrossed, Injected

LEMMA UseInvInit == CallInit => UseInv
<1> SUFFICES ASSUME CallInit PROVE UseInv
    OBVIOUS
<1>1. CallInv
    BY CallInvInit
<1>2. \A w \in Worker : PlanHeld(w) /\ ApprovalFits(w) /\ VersionFits(w)
    BY DEF CallInit, PlanHeld, ApprovalFits, VersionFits, Beginning, Asking, Using, IsApproved
<1>3. injections = << >> /\ asked = {} /\ \A w \in Worker : \A n : ~ Owns(w, n)
    BY DEF CallInit, Init, Owns, IsApproved
<1>4. injections \in Seq(InjectionRecord) /\ PlansNotCrossed /\ \A n : ~ Injected(n)
    BY <1>3 DEF PlansNotCrossed, Injected
<1>5. OwnInv
    BY <1>3, <1>4 DEF OwnInv, OwnersApart, OwnedAsked, OwnedUnused, InjectedAsked, Unasked
<1> QED BY <1>1, <1>2, <1>4, <1>5 DEF UseInv

\* A call that does not move keeps what is known of it.
LEMMA StandsStill ==
    ASSUME NEW w \in Worker, ApprovalFits(w), pc'[w] = pc[w], call'[w] = call[w]
    PROVE  ApprovalFits(w)' /\ (VersionFits(w) /\ disk' = disk => VersionFits(w)')
BY DEF ApprovalFits, VersionFits, Beginning, Asking, Using, IsApproved

\* When nothing is injected.
LEMMA QuietUses ==
    ASSUME UseInv, [Next]_vars, UNCHANGED injections, \A w \in Worker : Claims(w),
           OwnersApart' /\ OwnedAsked' /\ Unasked'
    PROVE  OwnInv' /\ injections' \in Seq(InjectionRecord) /\ PlansNotCrossed'
<1>1. OwnedUnused /\ InjectedAsked /\ asked \subseteq asked' /\ \A n : Injected(n)' <=> Injected(n)
    BY UnaskedNext DEF UseInv, OwnInv, CallInv, CallSteady, Injected
<1>2. OwnedUnused' /\ InjectedAsked'
    BY <1>1 DEF OwnedUnused, InjectedAsked, Claims
<1> QED BY <1>2 DEF OwnInv, UseInv, PlansNotCrossed

LEMMA UseInvNext == UseInv /\ CallsInTime /\ [CallNext]_allVars => UseInv'
<1> SUFFICES ASSUME UseInv, CallsInTime, [CallNext]_allVars PROVE UseInv'
    OBVIOUS
<1>1. CallInv /\ CallInv' /\ [Next]_vars /\ CallTypeOK /\ CallHasPlan /\ TypeOK /\ TypeOK' /\ LocksNested
  <2>1. CallInv /\ CallInv' /\ CallTypeOK
      BY CallInvNext DEF UseInv, CallInv, CallSteady
  <2> QED BY <2>1, CallUsesStore DEF CallInv, CallSteady, SpendInv, StoreInv
<1>2. \A w \in Worker : PlanHeld(w) /\ ApprovalFits(w) /\ VersionFits(w)
    BY DEF UseInv
<1>3. ASSUME NEW w \in Worker, \A v \in Worker \ {w} : pc'[v] = pc[v] /\ call'[v] = call[v], disk' = disk,
             Claims(w), PlanHeld(w)', ApprovalFits(w)', VersionFits(w)'
      PROVE  /\ \A v \in Worker : PlanHeld(v)' /\ ApprovalFits(v)' /\ VersionFits(v)'
             /\ \A v \in Worker : Claims(v)
             /\ OwnersApart' /\ OwnedAsked' /\ Unasked'
  <2>1. ASSUME NEW v \in Worker, v # w
        PROVE  PlanHeld(v)' /\ ApprovalFits(v)' /\ VersionFits(v)' /\ Claims(v)
    <3>1. pc'[v] = pc[v] /\ call'[v] = call[v]
        BY <1>3, <2>1
    <3> QED BY <1>1, <1>2, <1>3, <3>1, PlanHeldNext, StandsStill DEF Claims, Owns, IsApproved
  <2>2. \A v \in Worker : Claims(v)
      BY <1>3, <2>1
  <2> QED BY <1>1, <1>3, <2>1, <2>2, OwnersNext
<1>4. ASSUME NEW w \in Worker, Step(w) PROVE UseInv'
  <2>1. \A v \in Worker \ {w} : pc'[v] = pc[v] /\ call'[v] = call[v]
      BY <1>1, <1>4, WorkerMoves DEF Moved
  <2>2. disk' = disk
      BY <1>1, <1>4, WorkerTypes
  <2>3. PlanHeld(w)'
      BY <1>1, <1>4, WorkerKeeps, PlanHeldNext
  <2>4. ApprovalFits(w)' /\ VersionFits(w)' /\ Claims(w)
      BY <1>1, <1>4, ApprovalFitsNext, VersionFitsNext, WorkerClaims
  <2>5. /\ \A v \in Worker : PlanHeld(v)' /\ ApprovalFits(v)' /\ VersionFits(v)'
        /\ \A v \in Worker : Claims(v)
        /\ OwnersApart' /\ OwnedAsked' /\ Unasked'
      BY <1>3, <2>1, <2>2, <2>3, <2>4
  <2>6. CASE injections' = injections
      BY <1>1, <2>5, <2>6, QuietUses DEF UseInv
  <2>7. CASE Inject(w) /\ injections' # injections
    <3>1. PICK i \in InjectionRecord : /\ injections' = Append(injections, i) /\ i.nonce = i.checked
                                 /\ Owns(w, i.nonce) /\ pc'[w] = "release"
        BY <2>7, InjectUses
    <3>2. /\ injections' \in Seq(InjectionRecord) /\ PlansNotCrossed'
          /\ \A n \in Nonce : Injected(n)' <=> Injected(n) \/ n = i.nonce
        BY <3>1, InjectedNext DEF UseInv
    <3>3. i.nonce \in Nonce /\ i.nonce \in asked /\ asked \subseteq asked'
        BY <1>1, <3>1, UnaskedNext DEF InjectionRecord, UseInv, OwnInv, OwnedAsked, CallInv, CallSteady
    <3>4. InjectedAsked'
        BY <3>2, <3>3 DEF InjectedAsked, UseInv, OwnInv
    <3>5. ASSUME NEW n \in Nonce, NEW v \in Worker, Owns(v, n)', pc'[v] \notin Over, Injected(n)'
          PROVE  FALSE
      <4>1. v # w
          BY <3>1, <3>5 DEF Over
      <4>2. Owns(v, n) /\ pc[v] \notin Over
          BY <2>1, <3>5, <4>1 DEF Owns, IsApproved
      <4>3. n # i.nonce
          BY <3>1, <3>3, <4>1, <4>2 DEF UseInv, OwnInv, OwnersApart
      <4> QED BY <3>2, <3>5, <4>2, <4>3 DEF UseInv, OwnInv, OwnedUnused
    <3>6. OwnedUnused'
        BY <3>5 DEF OwnedUnused
    <3> QED BY <1>1, <2>5, <3>2, <3>4, <3>6 DEF UseInv, OwnInv
  <2> QED BY <1>4, <2>6, <2>7, OnlyInjectUses
<1>5. ASSUME NEW w \in Worker, NEW k \in Key, NEW o \in Host, NEW l \in {"put", FirstStage(o)},
             Receive(w, k, o, l), UNCHANGED <<disk, injections>>
      PROVE  UseInv'
  <2>1. Moved(w) /\ pc'[w] = l /\ call'[w] = Received(k, o)
    <3>1. l \in {"put", "execution", "approval"}
        BY DEF FirstStage
    <3> QED BY <1>1, <1>5, <3>1, RequestMoves DEF Receive, CallTypeOK
  <2>2. \A v \in Worker \ {w} : pc'[v] = pc[v] /\ call'[v] = call[v]
      BY <2>1 DEF Moved
  <2>3. /\ call'[w].plan = NoPlan /\ call'[w].approved = NotApproved /\ call'[w].payload = Plain
        /\ call'[w].host = o
      BY <2>1 DEF Received
  <2>4. PlanHeld(w)'
      BY <1>1, <2>3, PlanHeldNext
  <2>5. ApprovalFits(w)' /\ VersionFits(w)' /\ Claims(w)
      BY <2>1, <2>3, ReferenceCallAssumption
         DEF ApprovalFits, VersionFits, Claims, Owns, IsApproved, Beginning, Asking, Using, FirstStage
  <2>6. /\ \A v \in Worker : PlanHeld(v)' /\ ApprovalFits(v)' /\ VersionFits(v)'
        /\ \A v \in Worker : Claims(v)
        /\ OwnersApart' /\ OwnedAsked' /\ Unasked'
      BY <1>3, <1>5, <2>2, <2>4, <2>5
  <2> QED BY <1>1, <1>5, <2>6, QuietUses DEF UseInv
<1>6. ASSUME UNCHANGED <<pc, call, injections>>,
             \/ disk' = disk
             \/ \A w \in Worker : pc[w] \notin {"consume", "inject"} /\ disk' = disk + 1
      PROVE  UseInv'
  <2>1. ASSUME NEW v \in Worker PROVE PlanHeld(v)' /\ ApprovalFits(v)' /\ VersionFits(v)' /\ Claims(v)
    <3>1. pc'[v] = pc[v] /\ call'[v] = call[v]
        BY <1>6
    <3>2. PlanHeld(v)' /\ ApprovalFits(v)' /\ Claims(v)
        BY <1>1, <1>2, <3>1, PlanHeldNext, StandsStill DEF Claims, Owns, IsApproved
    <3>3. CASE disk' = disk
        BY <1>2, <3>1, <3>2, <3>3, StandsStill
    <3>4. CASE pc[v] \notin {"consume", "inject"} /\ disk' = disk + 1
      <4>1. pc[v] \in {"pending", "asked"} => call[v].plan.call.config \in Version
          BY <1>1, ReferenceCallAssumption DEF CallHasPlan, PlanStages, Plan
      <4>2. disk \in Version
          BY <1>1 DEF CallTypeOK
      <4> QED BY <1>2, <3>1, <3>2, <3>4, <4>1, <4>2 DEF VersionFits, Version
    <3> QED BY <1>6, <3>2, <3>3, <3>4
  <2>2. OwnersApart' /\ OwnedAsked' /\ Unasked'
    <3>1. CASE Worker = {}
        BY <1>1, <3>1, UnaskedNext DEF UseInv, OwnInv, CallInv, CallSteady, OwnersApart, OwnedAsked
    <3>2. ASSUME NEW v \in Worker PROVE OwnersApart' /\ OwnedAsked' /\ Unasked'
        BY <1>1, <1>6, <2>1, OwnersNext
    <3> QED BY <3>1, <3>2
  <2> QED BY <1>1, <1>6, <2>1, <2>2, QuietUses DEF UseInv
<1>7. CASE Rewrite
    BY <1>1, <1>6, <1>7 DEF Rewrite, historyVars, LocksNested
<1>8. CASE Reload \/ (\E k \in Key : MarkerLapses(k)) \/ Clock \/ UNCHANGED allVars
    BY <1>6, <1>8 DEF Reload, MarkerLapses, Clock, callVars, allVars, historyVars
<1> QED BY <1>4, <1>5, <1>7, <1>8 DEF CallNext, RequestPlain, RequestRefused, RequestAnalyzed, historyVars

-----------------------------------------------------------------------------
(* The refinement of CredentialUse.                                        *)

LEMMA PromiseInit == CallInit => Promise!UseInit
<1> SUFFICES ASSUME CallInit PROVE Promise!UseInit
    OBVIOUS
<1>1. [w \in Worker |-> GrantOf(w)] = [w \in Worker |-> [name |-> 0]]
    BY DEF CallInit, GrantOf
<1>2. [i \in DOMAIN injections |-> UseOf(injections[i])] = << >>
    BY DEF CallInit
<1> QED BY <1>1, <1>2 DEF CallInit, Promise!UseInit, Promise!Nothing

\* A step that leaves every approval, the injections and the file alone.
LEMMA PromiseStutters ==
    ASSUME \A w \in Worker : GrantOf(w)' = GrantOf(w), UNCHANGED <<injections, disk>>
    PROVE  UNCHANGED Promise!useVars
BY DEF Promise!useVars

LEMMA PromiseWithdraws ==
    ASSUME NEW w \in Worker, IsApproved(w), GrantOf(w)' = [name |-> 0], UNCHANGED <<injections, disk>>,
           \A v \in Worker \ {w} : GrantOf(v)' = GrantOf(v), call[w].approved.nonce \in Nonce
    PROVE  Promise!Withdraw(w)
<1>1. GrantOf(w) # [name |-> 0]
  <2>1. GrantOf(w).name # 0
      BY DEF GrantOf, IsApproved, Nonce
  <2> QED BY <2>1
<1>2. [v \in Worker |-> GrantOf(v)]' = [[v \in Worker |-> GrantOf(v)] EXCEPT ![w] = [name |-> 0]]
    OBVIOUS
<1> QED BY <1>1, <1>2 DEF Promise!Withdraw, Promise!Nothing

LEMMA PromiseUsedNever ==
    ASSUME UseInv, NEW n \in Nonce, ~ Injected(n)
    PROVE  Promise!NeverUsed(n)
BY DEF Promise!NeverUsed, Injected, UseOf

LEMMA PromiseApproves ==
    ASSUME UseInv, UseInv', NEW w \in Worker, HumanApproves(w)
    PROVE  Promise!Approve(w)
<1> DEFINE c == call[w]
           g == [name |-> c.plan.nonce, shown |-> c.payload, version |-> c.plan.call.config]
           G == [v \in Worker |-> GrantOf(v)]
<1>1. /\ CallTypeOK /\ CallHasPlan /\ ApprovalFits(w) /\ VersionFits(w) /\ OwnersApart /\ OwnedUnused
    BY DEF UseInv, OwnInv, CallInv, CallSteady
<1>2. pc[w] = "asked" /\ c \in CallState /\ c # NoCall /\ c.plan \in Plan
    BY <1>1, BusyCall DEF HumanApproves, MessageShown, At, CallHasPlan, PlanStages, CallTypeOK
<1>3. /\ call'[w] # NoCall
      /\ call'[w].approved = [nonce |-> c.plan.nonce, args |-> c.payload, config |-> c.plan.call.config]
    BY <1>1, ApprovesKeeps DEF Kept
<1>4. c.plan.nonce \in Nonce /\ c.plan.nonce # 0 /\ c.payload \in Args
    BY <1>1, <1>2 DEF Plan, Nonce, CallState, Payload, ApprovalFits, Asking
<1>5. c.plan.call.config \in 1..disk
  <2>1. c.plan.call.config \in Version
      BY <1>2, ReferenceCallAssumption DEF Plan
  <2>2. c.plan.call.config <= disk /\ disk \in Version
      BY <1>1, <1>2 DEF VersionFits, CallTypeOK
  <2> QED BY <2>1, <2>2 DEF Version
<1>6. GrantOf(w)' = g
  <2>1. call'[w].approved.nonce = c.plan.nonce /\ call'[w].approved.args = c.payload
        /\ call'[w].approved.config = c.plan.call.config
      BY <1>3
  <2>2. call'[w].approved # NotApproved
      BY <1>4, <2>1 DEF NotApproved
  <2> QED BY <1>3, <2>1, <2>2 DEF GrantOf
<1>7. \A v \in Worker \ {w} : GrantOf(v)' = GrantOf(v)
    BY <1>1 DEF HumanApproves, GrantOf, CallTypeOK
<1>8. GrantOf(w) = [name |-> 0]
    BY <1>1, <1>2 DEF GrantOf, ApprovalFits, Asking
<1>9. G' = [G EXCEPT ![w] = g]
    BY <1>6, <1>7
<1>10. G'[w] = g
    BY <1>9
<1>11. G[w] = [name |-> 0]
    BY <1>8
<1>12. g \in [name : Nonce, shown : Args, version : 1..disk]
    BY <1>4, <1>5
<1>13. Owns(w, c.plan.nonce)
    BY <1>2 DEF Owns
<1>14. Promise!NeverUsed(c.plan.nonce)
    BY <1>1, <1>2, <1>4, <1>13, PromiseUsedNever DEF OwnedUnused, Over
<1>15. ASSUME NEW v \in Worker, G[v].name = c.plan.nonce
       PROVE  FALSE
  <2>1. IsApproved(v) /\ call[v].approved.nonce = c.plan.nonce
      BY <1>4, <1>15 DEF GrantOf, IsApproved
  <2>2. Owns(v, c.plan.nonce)
      BY <2>1 DEF Owns
  <2>3. v = w
      BY <1>1, <1>4, <1>13, <2>2 DEF OwnersApart
  <2> QED BY <1>1, <1>2, <2>1, <2>3 DEF ApprovalFits, Asking, IsApproved
<1>16. Promise!FreeName(g.name)
    BY <1>14, <1>15 DEF Promise!FreeName
<1>17. UNCHANGED <<injections, disk>>
    BY DEF HumanApproves, historyVars, creatorVars
<1> QED BY <1>9, <1>10, <1>11, <1>12, <1>16, <1>17 DEF Promise!Approve, Promise!Nothing

LEMMA PromiseUses ==
    ASSUME UseInv, NEW w \in Worker, Inject(w), injections' # injections
    PROVE  Promise!Use(w)
<1> DEFINE a == call[w].approved
           i == [by |-> w, nonce |-> a.nonce, checked |-> a.nonce, payload |-> a.args, view |-> disk]
           G == [v \in Worker |-> GrantOf(v)]
           U == [j \in DOMAIN injections |-> UseOf(injections[j])]
<1>1. /\ IsApproved(w) /\ ~ Injected(a.nonce) /\ i \in InjectionRecord
      /\ injections' = Append(injections, i) /\ a.config = disk
    BY InjectUses
<1>2. a.nonce \in Nonce /\ injections \in Seq(InjectionRecord)
    BY <1>1 DEF InjectionRecord, UseInv
<1>3. UNCHANGED <<call, disk>>
    BY DEF Inject, creatorVars
<1>4. G' = G
    BY <1>3 DEF GrantOf
<1>5. G[w] = [name |-> a.nonce, shown |-> a.args, version |-> a.config]
    BY <1>1 DEF GrantOf, IsApproved
<1>6. G[w] # [name |-> 0]
  <2>1. G[w].name # 0
      BY <1>2, <1>5 DEF Nonce
  <2> QED BY <2>1
<1>7. UseOf(i) = [by |-> w, name |-> G[w].name, shown |-> G[w].shown, version |-> disk]
    BY <1>5 DEF UseOf
<1>8. U' = Append(U, UseOf(i))
    BY <1>1, <1>2
<1>9. Promise!NeverUsed(G[w].name)
    BY <1>1, <1>2, <1>5, PromiseUsedNever
<1>10. G[w].version = disk
    BY <1>1, <1>5
<1> QED BY <1>3, <1>4, <1>6, <1>7, <1>8, <1>9, <1>10 DEF Promise!Use, Promise!Nothing

LEMMA PromiseNext ==
    UseInv /\ CallsInTime /\ [CallNext]_allVars => [Promise!UseNext]_(Promise!useVars)
<1> SUFFICES ASSUME UseInv, CallsInTime, [CallNext]_allVars
             PROVE  [Promise!UseNext]_(Promise!useVars)
    OBVIOUS
<1>1. UseInv' /\ CallTypeOK /\ CallHasPlan /\ TypeOK /\ TypeOK'
  <2>1. UseInv' /\ CallInv /\ CallInv'
      BY UseInvNext DEF UseInv
  <2> QED BY <2>1 DEF CallInv, CallSteady, SpendInv, StoreInv
<1>2. ASSUME NEW w \in Worker, Step(w) PROVE [Promise!UseNext]_(Promise!useVars)
  <2>1. \A v \in Worker \ {w} : GrantOf(v)' = GrantOf(v)
      BY <1>1, <1>2, WorkerMoves DEF Moved, GrantOf
  <2>2. disk' = disk
      BY <1>1, <1>2, WorkerTypes
  <2>3. CASE HumanApproves(w)
      BY <1>1, <2>3, PromiseApproves DEF Promise!UseNext
  <2>4. CASE Inject(w) /\ injections' # injections
      BY <2>4, PromiseUses DEF Promise!UseNext
  <2>5. CASE ~ HumanApproves(w) /\ injections' = injections
    <3>1. /\ call[w] # NoCall /\ (Gone(w) \/ Kept(w))
          /\ Gone(w) \/ call'[w].approved = call[w].approved
        BY <1>1, <1>2, <2>5, WorkerKeeps
    <3>2. CASE call'[w] # NoCall
      <4>1. GrantOf(w)' = GrantOf(w)
          BY <3>1, <3>2 DEF GrantOf, Gone
      <4> QED BY <2>1, <2>2, <2>5, <4>1, PromiseStutters
    <3>3. CASE call'[w] = NoCall /\ ~ IsApproved(w)
      <4>1. GrantOf(w)' = GrantOf(w)
          BY <3>3 DEF GrantOf, IsApproved
      <4> QED BY <2>1, <2>2, <2>5, <4>1, PromiseStutters
    <3>4. CASE call'[w] = NoCall /\ IsApproved(w)
      <4>1. GrantOf(w)' = [name |-> 0]
          BY <3>4 DEF GrantOf
      <4>2. call[w].approved.nonce \in Nonce
        <5>1. call[w].plan \in Plan \cup {NoPlan} /\ call[w].plan # NoPlan
              /\ call[w].approved = ApprovalOf(call[w].plan)
            BY <1>1, <3>1, <3>4 DEF UseInv, ApprovalFits, CallTypeOK, CallState
        <5> QED BY <5>1 DEF ApprovalOf, Plan
      <4> QED BY <2>1, <2>2, <2>5, <3>4, <4>1, <4>2, PromiseWithdraws DEF Promise!UseNext
    <3> QED BY <3>2, <3>3, <3>4
  <2> QED BY <1>2, <2>3, <2>4, <2>5, OnlyInjectUses
<1>3. ASSUME NEW w \in Worker, NEW k \in Key, NEW o \in Host,
             NEW l \in {"put", FirstStage(o)}, Receive(w, k, o, l), UNCHANGED <<disk, injections>>
      PROVE  [Promise!UseNext]_(Promise!useVars)
  <2>1. call[w] = NoCall /\ call' = [call EXCEPT ![w] = Received(k, o)]
      BY <1>1, <1>3 DEF Receive, At, CallTypeOK
  <2>2. Received(k, o).approved = NotApproved
      BY DEF Received
  <2>3. \A v \in Worker : GrantOf(v)' = GrantOf(v)
      BY <1>1, <2>1, <2>2 DEF GrantOf, CallTypeOK
  <2> QED BY <1>3, <2>3, PromiseStutters
<1>4. CASE Rewrite
  <2>1. [v \in Worker |-> GrantOf(v)]' = [v \in Worker |-> GrantOf(v)]
        /\ UNCHANGED injections /\ disk' = disk + 1
      BY <1>4 DEF Rewrite, GrantOf, historyVars
  <2> QED BY <2>1 DEF Promise!UseNext, Promise!Edit
<1>5. CASE Reload \/ (\E k \in Key : MarkerLapses(k)) \/ Clock \/ UNCHANGED allVars
  <2>1. UNCHANGED <<call, injections, disk>>
      BY <1>5 DEF Reload, MarkerLapses, Clock, callVars, allVars, historyVars
  <2> QED BY <2>1, PromiseStutters DEF GrantOf
<1> QED BY <1>2, <1>3, <1>4, <1>5 DEF CallNext, RequestPlain, RequestRefused, RequestAnalyzed, historyVars

-----------------------------------------------------------------------------
(* The results.                                                            *)

LEMMA CallInvAlways == CallSpec => []CallInv
BY CallInvInit, CallInvNext, PTL DEF CallSpec

\* Whatever the stages, the host and the configuration do, the plan store sees only
\* its own methods: every theorem about the store is one about the calls.
THEOREM CallImplementsStore == CallSpec => Spec
<1>1. CallInit => Init
    BY DEF CallInit
<1>2. CallInv /\ [CallNext]_allVars => [Next]_vars
    BY CallUsesStore DEF CallInv, CallSteady
<1> QED BY <1>1, <1>2, CallInvAlways, PTL DEF CallSpec, Spec

\* The variables of the calls keep their types.
THEOREM CallTyped == CallSpec => []CallTypeOK
<1>1. CallInv => CallTypeOK
    BY DEF CallInv, CallSteady
<1> QED BY <1>1, CallInvAlways, PTL

\* An approval is good for one execution, whatever calls share its key.
THEOREM CallsSpendOnce == CallSpec => []SpentOnce
BY CallImplementsStore, SpentAtMostOnce, PTL

\* The execution lock is held only inside the configuration lock, by the call that is
\* in the section both are for (finalize_reference_execution).
THEOREM LocksAreNested == CallSpec => []LocksNested
<1>1. CallInv => LocksNested
    BY DEF CallInv, CallSteady
<1> QED BY <1>1, CallInvAlways, PTL

\* A plan that let a call into next_call can never be used again once the call has
\* come out (the finally of on_tool_execution), however the store has moved on.
THEOREM ClosedStaysDead == CallSpec => []ClosedIsDead
<1>1. CallInv => ClosedIsDead
    BY DEF CallInv, ClosedDead, Dead, ClosedIsDead
<1> QED BY <1>1, CallInvAlways, PTL

\* Calls in time keep the promise of CredentialUse: whatever payloads the stages are
\* handed and whatever other calls do, an injection is made in the call, for the plan,
\* with the payload and from the version of the file that the human approved, once.
THEOREM CallsImplementUse == CallSpec /\ []CallsInTime => ImplementsUse
<1>1. UseInv /\ CallsInTime /\ [CallNext]_allVars => UseInv'
    BY UseInvNext
<1>2. UseInv /\ CallsInTime /\ [CallNext]_allVars => [Promise!UseNext]_(Promise!useVars)
    BY PromiseNext
<1> QED BY <1>1, <1>2, UseInvInit, PromiseInit, PTL DEF CallSpec, ImplementsUse, Promise!UseSpec

\* And none of them injects another call's plan: what docs/R2 says of concurrent calls
\* is right of the calls that end before their plan is forgotten, and of those only.
THEOREM CallsInTimeNotCrossed == CallSpec /\ []CallsInTime => []PlansNotCrossed
<1>1. UseInv /\ CallsInTime /\ [CallNext]_allVars => UseInv'
    BY UseInvNext
<1>2. UseInv => PlansNotCrossed
    BY DEF UseInv
<1> QED BY <1>1, <1>2, UseInvInit, PTL DEF CallSpec

=============================================================================
