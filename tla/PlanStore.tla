----------------------------- MODULE PlanStore -----------------------------
(***************************************************************************)
(* The bounded in-process store of injection plans (injection_plan.py).    *)
(*                                                                         *)
(* A plan is made when a tool call that names a credential is analysed,    *)
(* moves to APPROVAL_PENDING when the human is asked, and is CONSUMED by   *)
(* the one execution that injects the credential.  A plan that failed any  *)
(* check, or that ran out of time, is INVALIDATED.  Every method of        *)
(* InjectionPlanStore holds the store's lock for its whole body and reads  *)
(* the clock once, so each is one step, except create_analyzed_plan: it    *)
(* reads the clock and builds the plan before put() takes the lock, and    *)
(* other callers run in between (BuildPlan and PutPlan).                   *)
(*                                                                         *)
(* Time is whole seconds of the monotonic clock.  A store key is the pair  *)
(* (session_id, tool_call_id); what else a plan records of the call, its   *)
(* turn, arguments and configuration, is one opaque value of Call.         *)
(*                                                                         *)
(* A definition marked "mutant" is not part of the model: it is a wrong    *)
(* version of the definition below it, kept to test the properties.        *)
(***************************************************************************)
EXTENDS Integers, FiniteSets

CONSTANTS
    Key,         \* store keys that may be used
    Call,        \* what a plan records of the analysed call
    Creator,     \* threads that may be inside create_analyzed_plan
    Timeout,     \* host approval timeouts, in half seconds (may be fractional)
    Capacity,    \* PLAN_STORE_CAPACITY
    Margin,      \* EXECUTION_REVIEW_MARGIN_SECONDS
    MaxTimeout,  \* MAX_APPROVAL_TIMEOUT_SECONDS
    MaxTime,     \* bound on the clock
    MaxPlans     \* bound on the number of plans built

ASSUME PlanStoreAssumption ==
    /\ Timeout \subseteq Int
    /\ Capacity \in Nat
    /\ Margin \in Nat \ {0}
    /\ MaxTimeout \in Nat
    /\ MaxTime \in Nat
    /\ MaxPlans \in Nat

VARIABLES
    plans,              \* _plans: the plan under each key, or NoPlan
    reuse_block_until,  \* _reuse_block_until: deadline of each tombstone, or 0
    now,                \* the monotonic clock
    drafts,             \* plan each creator has built and not yet put
    built,              \* number of plans built; a plan's nonce is its number
    asked,              \* history: nonces that became APPROVAL_PENDING
    uses                \* history: how often each nonce was consumed

storeVars == <<plans, reuse_block_until>>
vars == <<plans, reuse_block_until, now, drafts, built, asked, uses>>

-----------------------------------------------------------------------------

Live     == {"ANALYZED", "APPROVAL_PENDING"}
Terminal == {"CONSUMED", "INVALIDATED"}
Nonce    == 1..MaxPlans

\* InjectionPlan.  window is the host's approval window as counted from the
\* plan's creation: the half second in which it closes.
Plan == [state : Live \cup Terminal, nonce : Nonce, expires : Nat, window : Nat,
         call : Call]

FreshPlan == {p \in Plan : p.state = "ANALYZED"}

NoPlan  == [state |-> "ABSENT"]
NoDraft == [state |-> "ABSENT"]

Init ==
    /\ plans = [k \in Key |-> NoPlan]
    /\ reuse_block_until = [k \in Key |-> 0]
    /\ now = 0
    /\ drafts = [w \in Creator |-> NoDraft]
    /\ built = 0
    /\ asked = {}
    /\ uses = [n \in Nonce |-> 0]

-----------------------------------------------------------------------------
(* Helpers of the store.                                                   *)

\* resolve_plan_ttl_seconds: the timeout rounded up, plus the review margin;
\* a timeout that is not positive or is above the ceiling has no TTL.
TTLAvailable(h) == h > 0 /\ h <= 2 * MaxTimeout
ResolveTTLTruncated(h) == h \div 2 + Margin           \* mutant
ResolveTTL(h)   == (h + 1) \div 2 + Margin

TombstoneAsDuration(plan) == plan.expires - now       \* mutant
TombstoneDeadline(plan) == plan.expires + Margin

IsExpired(plan) == now >= plan.expires

Occupied(p, r) == {k \in Key : p[k] # NoPlan \/ r[k] # 0}

\* _mark_terminal: replace the plan and write its tombstone.
MarkTerminal(k, s) ==
    /\ plans' = [plans EXCEPT ![k].state = s]
    /\ reuse_block_until' =
           [reuse_block_until EXCEPT ![k] = TombstoneDeadline(plans[k])]

\* cleanup, first loop: a live plan that has expired becomes INVALIDATED, and
\* every terminal plan has a tombstone.
Lapsed(k) ==
    /\ reuse_block_until[k] = 0
    /\ plans[k].state \in Live
    /\ IsExpired(plans[k])
SweptPlans == [k \in Key |->
    IF Lapsed(k) THEN [plans[k] EXCEPT !.state = "INVALIDATED"] ELSE plans[k]]
SweptTombs == [k \in Key |->
    IF reuse_block_until[k] = 0 /\ SweptPlans[k].state \in Terminal
    THEN TombstoneDeadline(plans[k])
    ELSE reuse_block_until[k]]

\* cleanup, second loop: a key whose tombstone is due is forgotten.
ReleasedAtExpiry == {k \in Key : SweptTombs[k] # 0 /\ now >= SweptTombs[k] - Margin}  \* mutant
Released   == {k \in Key : SweptTombs[k] # 0 /\ now >= SweptTombs[k]}
CleanPlans == [k \in Key |-> IF k \in Released THEN NoPlan ELSE SweptPlans[k]]
CleanTombs == [k \in Key |-> IF k \in Released THEN 0 ELSE SweptTombs[k]]

-----------------------------------------------------------------------------
(* create_analyzed_plan.                                                   *)

\* The clock is read and the plan built before the lock is taken.
BuildPlan(w, k, c, h) ==
    /\ drafts[w] = NoDraft
    /\ built < MaxPlans
    /\ TTLAvailable(h)
    /\ built' = built + 1
    /\ drafts' = [drafts EXCEPT ![w] =
           [state |-> "ANALYZED", key |-> k,
            plan |-> [state |-> "ANALYZED", nonce |-> built + 1,
                      expires |-> now + ResolveTTL(h),
                      window |-> 2 * now + h, call |-> c]]]
    /\ UNCHANGED <<plans, reuse_block_until, now, asked, uses>>

\* put: clean up, then refuse a key in use (PLAN_KEY_REUSED) or a full store
\* (STORE_FULL), otherwise insert.
KeyReused(k) == CleanPlans[k] # NoPlan \/ CleanTombs[k] # 0
StoreFullOfLivePlans == Cardinality({k \in Key : CleanPlans[k].state \in Live}) >= Capacity  \* mutant
StoreFullCountsTwice ==                                                             \* mutant
    Cardinality({k \in Key : CleanPlans[k] # NoPlan})
        + Cardinality({k \in Key : CleanTombs[k] # 0}) >= Capacity
StoreFull    == Cardinality(Occupied(CleanPlans, CleanTombs)) >= Capacity

PutAccepted(w) ==
    LET k == drafts[w].key IN
    /\ ~KeyReused(k) /\ ~StoreFull
    /\ plans' = [CleanPlans EXCEPT ![k] = drafts[w].plan]
    /\ reuse_block_until' = CleanTombs

PutRefused(w) ==
    /\ KeyReused(drafts[w].key) \/ StoreFull
    /\ plans' = CleanPlans
    /\ reuse_block_until' = CleanTombs

PutPlan(w) ==
    /\ drafts[w] # NoDraft
    /\ PutAccepted(w) \/ PutRefused(w)
    /\ drafts' = [drafts EXCEPT ![w] = NoDraft]
    /\ UNCHANGED <<now, built, asked, uses>>

-----------------------------------------------------------------------------
(* lookup, mark_approval_pending, consume, invalidate.  A call that raises  *)
(* or answers without a change of state is not a step.                      *)

\* Every one of the first three finds out that a plan has expired and makes it
\* INVALIDATED on the spot, whatever state it was in.
ExpireInPlace(k) ==
    /\ plans[k] # NoPlan
    /\ IsExpired(plans[k])
    /\ MarkTerminal(k, "INVALIDATED")
    /\ UNCHANGED <<asked, uses>>

Lookup(k) ==
    /\ ExpireInPlace(k)
    /\ UNCHANGED <<now, drafts, built>>

MarkPendingAnyState(k) ==                                                       \* mutant
    /\ plans[k] # NoPlan
    /\ ~IsExpired(plans[k])
    /\ plans' = [plans EXCEPT ![k].state = "APPROVAL_PENDING"]
    /\ asked' = asked \cup {plans[k].nonce}
    /\ UNCHANGED <<reuse_block_until, uses>>
MarkPending(k) ==
    /\ plans[k].state = "ANALYZED"
    /\ ~IsExpired(plans[k])
    /\ plans' = [plans EXCEPT ![k].state = "APPROVAL_PENDING"]
    /\ asked' = asked \cup {plans[k].nonce}
    /\ UNCHANGED <<reuse_block_until, uses>>

MarkApprovalPending(k) ==
    /\ MarkPending(k) \/ ExpireInPlace(k)
    /\ UNCHANGED <<now, drafts, built>>

SpendStaysPending(k) ==                                                         \* mutant
    /\ plans[k].state = "APPROVAL_PENDING"
    /\ ~IsExpired(plans[k])
    /\ uses' = [uses EXCEPT ![plans[k].nonce] = @ + 1]
    /\ UNCHANGED <<storeVars, asked>>
Spend(k) ==
    /\ plans[k].state = "APPROVAL_PENDING"
    /\ ~IsExpired(plans[k])
    /\ MarkTerminal(k, "CONSUMED")
    /\ uses' = [uses EXCEPT ![plans[k].nonce] = @ + 1]
    /\ UNCHANGED asked

Consume(k) ==
    /\ Spend(k) \/ ExpireInPlace(k)
    /\ UNCHANGED <<now, drafts, built>>

InvalidateBare(k) ==                                                            \* mutant
    /\ plans[k].state \in Live
    /\ plans' = [plans EXCEPT ![k].state = "INVALIDATED"]
    /\ UNCHANGED <<reuse_block_until, now, drafts, built, asked, uses>>
Invalidate(k) ==
    /\ plans[k].state \in Live
    /\ MarkTerminal(k, "INVALIDATED")
    /\ UNCHANGED <<now, drafts, built, asked, uses>>

Tick ==
    /\ now < MaxTime
    /\ now' = now + 1
    /\ UNCHANGED <<plans, reuse_block_until, drafts, built, asked, uses>>

Next ==
    \/ \E w \in Creator, k \in Key, c \in Call, h \in Timeout : BuildPlan(w, k, c, h)
    \/ \E w \in Creator : PutPlan(w)
    \/ \E k \in Key : Lookup(k)
    \/ \E k \in Key : MarkApprovalPending(k)
    \/ \E k \in Key : Consume(k)
    \/ \E k \in Key : Invalidate(k)
    \/ Tick

Spec == Init /\ [][Next]_vars

-----------------------------------------------------------------------------
(* Properties.                                                             *)

\* Types of all variables.
TypeOK ==
    /\ plans \in [Key -> Plan \cup {NoPlan}]
    /\ reuse_block_until \in [Key -> Nat]
    /\ now \in Nat
    /\ drafts \in [Creator ->
           [state : {"ANALYZED"}, key : Key, plan : FreshPlan] \cup {NoDraft}]
    /\ built \in 0..MaxPlans
    /\ asked \subseteq Nonce
    /\ uses \in [Nonce -> Nat]

\* The store never holds more keys than its capacity, a key that has both a
\* plan and a tombstone counting once.  put() checks the bound after a cleanup
\* that other threads' inserts have overtaken or not; no order may exceed it.
StoreBounded ==
    Cardinality(Occupied(plans, reuse_block_until)) <= Capacity

\* A key is tombstoned exactly while its plan is terminal, and its deadline is
\* the plan's expiry plus the margin: four different methods write tombstones
\* and one removes them together with the plan.
TombstonesMatchPlans ==
    \A k \in Key :
        /\ reuse_block_until[k] # 0 <=> plans[k].state \in Terminal
        /\ reuse_block_until[k] # 0 =>
               reuse_block_until[k] = TombstoneDeadline(plans[k])

\* An approval is good for one execution: whatever the callers do, a plan is
\* consumed at most once over its whole life, and only after the human was
\* asked about that very plan.
SpentOnce ==
    \A n \in Nonce : uses[n] <= 1 /\ (uses[n] = 1 => n \in asked)

\* No two plans, stored or about to be put, share a nonce; a plan that is live or
\* not yet stored has not been consumed, and one that awaits the human is known
\* to have been shown.  With TypeOK and TombstonesMatchPlans this is inductive,
\* and SpentOnce and NoRevival follow from it.
PlanNoncesDistinct ==
    \A k, j \in Key : plans[k] # NoPlan /\ plans[j] # NoPlan /\ k # j =>
        plans[k].nonce # plans[j].nonce
DraftNoncesDistinct ==
    \A w \in Creator : drafts[w] # NoDraft =>
        /\ \A v \in Creator : drafts[v] # NoDraft /\ w # v =>
               drafts[w].plan.nonce # drafts[v].plan.nonce
        /\ \A k \in Key : plans[k] # NoPlan =>
               drafts[w].plan.nonce # plans[k].nonce
NoncesBuilt ==
    /\ \A k \in Key : plans[k] # NoPlan => plans[k].nonce <= built
    /\ \A w \in Creator : drafts[w] # NoDraft => drafts[w].plan.nonce <= built
    /\ \A n \in Nonce : n > built => uses[n] = 0
UnspentUntilConsumed ==
    /\ \A k \in Key : plans[k].state \in Live => uses[plans[k].nonce] = 0
    /\ \A w \in Creator : drafts[w] # NoDraft => uses[drafts[w].plan.nonce] = 0
PendingWasAsked ==
    \A k \in Key : plans[k].state = "APPROVAL_PENDING" => plans[k].nonce \in asked

NoncesApart ==
    /\ PlanNoncesDistinct
    /\ DraftNoncesDistinct
    /\ NoncesBuilt
    /\ UnspentUntilConsumed
    /\ PendingWasAsked

\* A plan outlives the host's approval window, counted from its creation, by
\* the whole review margin, also when the host's timeout is fractional: a human
\* who answers at the last half second leaves a plan that can still be executed.
CoversApprovalWindow ==
    \A k \in Key : plans[k] # NoPlan =>
        plans[k].window + 2 * Margin <= 2 * plans[k].expires

\* A key is never given to another plan, nor forgotten, before its plan's
\* expiry plus the margin: no replay of a tool_call_id reaches a fresh plan
\* while a call about the old one can still be on its way.
KeyHeldForItsWindow ==
    [][\A k \in Key : plans[k] # NoPlan =>
           \/ plans'[k] # NoPlan /\ plans'[k].nonce = plans[k].nonce
           \/ now >= TombstoneDeadline(plans[k])]_vars

\* A terminal plan never comes back to life, under its own key or another.
NoRevival ==
    [][\A k, j \in Key :
           /\ plans[k].state \in Terminal
           /\ plans'[j] # NoPlan
           /\ plans'[j].nonce = plans[k].nonce
           => plans'[j].state \in Terminal]_vars

\* put() refuses a plan only for cause: the window of its key is still open, or
\* as many keys as the store holds have open windows.  Nothing that is over,
\* whether it was consumed, invalidated or abandoned, can make it refuse.
WindowOpen(k) == plans[k] # NoPlan /\ now < TombstoneDeadline(plans[k])
RefusedForCause ==
    [][\A w \in Creator :
           LET k == drafts[w].key IN
           /\ drafts[w] # NoDraft /\ drafts'[w] = NoDraft
           /\ plans'[k] # drafts[w].plan
           => \/ WindowOpen(k)
              \/ Cardinality({j \in Key : WindowOpen(j)}) >= Capacity]_vars

=============================================================================
