-------------------------- MODULE PlanStoreProofs --------------------------
(***************************************************************************)
(* Theorems of PlanStore, for every capacity, margin, set of keys, set of  *)
(* creators and set of timeouts.                                           *)
(***************************************************************************)
EXTENDS PlanStore, FiniteSetTheorems, TLAPS

\* cleanup leaves a key's plan and tombstone alone, invalidates a lapsed plan,
\* or forgets a key whose window is over; it never touches a key otherwise.
LEMMA CleanupEffect ==
    ASSUME TypeOK, TombstonesMatchPlans, NEW k \in Key
    PROVE  \/ /\ CleanPlans[k] = plans[k]
              /\ CleanTombs[k] = reuse_block_until[k]
              /\ plans[k] # NoPlan => now < TombstoneDeadline(plans[k])
           \/ /\ plans[k].state \in Live
              /\ CleanPlans[k] = [plans[k] EXCEPT !.state = "INVALIDATED"]
              /\ CleanTombs[k] = TombstoneDeadline(plans[k])
              /\ now < TombstoneDeadline(plans[k])
           \/ /\ plans[k] # NoPlan
              /\ CleanPlans[k] = NoPlan
              /\ CleanTombs[k] = 0
              /\ now >= TombstoneDeadline(plans[k])
<1> USE PlanStoreAssumption
<1>1. /\ SweptPlans[k] = IF Lapsed(k) THEN [plans[k] EXCEPT !.state = "INVALIDATED"] ELSE plans[k]
      /\ SweptTombs[k] = IF reuse_block_until[k] = 0 /\ SweptPlans[k].state \in Terminal
                         THEN TombstoneDeadline(plans[k]) ELSE reuse_block_until[k]
  BY DEF SweptPlans, SweptTombs
<1>2. LET due == SweptTombs[k] # 0 /\ now >= SweptTombs[k] IN
      /\ CleanPlans[k] = IF due THEN NoPlan ELSE SweptPlans[k]
      /\ CleanTombs[k] = IF due THEN 0 ELSE SweptTombs[k]
  BY DEF CleanPlans, CleanTombs, Released
<1>3. /\ plans[k] \in Plan \cup {NoPlan} /\ reuse_block_until[k] \in Nat /\ now \in Nat
      /\ reuse_block_until[k] # 0 <=> plans[k].state \in Terminal
      /\ reuse_block_until[k] # 0 => reuse_block_until[k] = TombstoneDeadline(plans[k])
  BY DEF TypeOK, TombstonesMatchPlans
<1>4. CASE plans[k] = NoPlan
  <2>1. plans[k].state \notin Live \cup Terminal
      BY <1>4 DEF NoPlan, Live, Terminal
  <2>2. SweptPlans[k] = plans[k] /\ SweptTombs[k] = 0
      BY <1>1, <1>3, <2>1 DEF Lapsed
  <2> QED BY <1>2, <1>3, <1>4, <2>1, <2>2
<1>5. ASSUME plans[k] \in Plan
      PROVE  /\ plans[k] # NoPlan
             /\ plans[k].expires \in Nat
             /\ TombstoneDeadline(plans[k]) \in Nat
             /\ TombstoneDeadline(plans[k]) > plans[k].expires
             /\ plans[k].state \in Live <=> plans[k].state \notin Terminal
  <2>1. plans[k].state \in Live \cup Terminal /\ plans[k].expires \in Nat
      BY <1>5 DEF Plan
  <2>2. plans[k] # NoPlan
      BY <2>1 DEF NoPlan, Live, Terminal
  <2> QED BY <2>1, <2>2 DEF TombstoneDeadline, Live, Terminal
<1>6. CASE plans[k] \in Plan /\ plans[k].state \in Live
  <2>1. reuse_block_until[k] = 0 /\ plans[k].state \notin Terminal
      BY <1>3, <1>5, <1>6
  <2>2. CASE now < plans[k].expires
    <3>1. SweptPlans[k] = plans[k] /\ SweptTombs[k] = 0
        BY <1>1, <1>3, <1>5, <1>6, <2>1, <2>2 DEF Lapsed, IsExpired
    <3> QED BY <1>2, <1>3, <1>5, <1>6, <2>1, <2>2, <3>1
  <2>3. CASE now >= plans[k].expires
    <3>1. SweptPlans[k] = [plans[k] EXCEPT !.state = "INVALIDATED"]
        BY <1>1, <1>6, <2>1, <2>3 DEF Lapsed, IsExpired
    <3>2. SweptPlans[k].state \in Terminal
        BY <1>6, <3>1 DEF Plan, Terminal
    <3>3. SweptTombs[k] = TombstoneDeadline(plans[k]) /\ SweptTombs[k] # 0
        BY <1>1, <1>5, <1>6, <2>1, <3>2
    <3> QED BY <1>2, <1>3, <1>5, <1>6, <3>1, <3>3
  <2> QED BY <1>3, <1>5, <1>6, <2>2, <2>3
<1>7. CASE plans[k] \in Plan /\ plans[k].state \in Terminal
  <2>1. /\ reuse_block_until[k] # 0
        /\ reuse_block_until[k] = TombstoneDeadline(plans[k])
      BY <1>3, <1>7
  <2>2. SweptPlans[k] = plans[k] /\ SweptTombs[k] = reuse_block_until[k]
      BY <1>1, <2>1 DEF Lapsed
  <2> QED BY <1>2, <1>3, <1>5, <1>7, <2>1, <2>2
<1> QED
  BY <1>3, <1>4, <1>5, <1>6, <1>7

-----------------------------------------------------------------------------
(* Types and tombstones.                                                   *)

StoreInv == TypeOK /\ TombstonesMatchPlans

\* What put() may leave under a key: what cleanup left, or its own plan.
LEMMA CleanTypes ==
    ASSUME TypeOK, TombstonesMatchPlans
    PROVE  /\ CleanPlans \in [Key -> Plan \cup {NoPlan}]
           /\ CleanTombs \in [Key -> Nat]
           /\ \A k \in Key :
                  /\ CleanTombs[k] # 0 <=> CleanPlans[k].state \in Terminal
                  /\ CleanTombs[k] # 0 =>
                         CleanTombs[k] = TombstoneDeadline(CleanPlans[k])
<1> USE PlanStoreAssumption
<1>1. ASSUME NEW k \in Key
      PROVE  /\ CleanPlans[k] \in Plan \cup {NoPlan}
             /\ CleanTombs[k] \in Nat
             /\ CleanTombs[k] # 0 <=> CleanPlans[k].state \in Terminal
             /\ CleanTombs[k] # 0 =>
                    CleanTombs[k] = TombstoneDeadline(CleanPlans[k])
  <2>1. CASE /\ CleanPlans[k] = plans[k]
             /\ CleanTombs[k] = reuse_block_until[k]
    BY <2>1 DEF TypeOK, TombstonesMatchPlans
  <2>2. CASE /\ plans[k].state \in Live
             /\ CleanPlans[k] = [plans[k] EXCEPT !.state = "INVALIDATED"]
             /\ CleanTombs[k] = TombstoneDeadline(plans[k])
    BY <2>2 DEF TypeOK, Plan, NoPlan, Live, Terminal, TombstoneDeadline
  <2>3. CASE CleanPlans[k] = NoPlan /\ CleanTombs[k] = 0
    BY <2>3 DEF NoPlan, Terminal
  <2> QED
    BY <2>1, <2>2, <2>3, CleanupEffect
<1>2. CleanPlans = [k \in Key |-> CleanPlans[k]] /\ CleanTombs = [k \in Key |-> CleanTombs[k]]
  BY DEF CleanPlans, CleanTombs
<1> QED
  BY <1>1, <1>2

\* _mark_terminal keeps types, and gives the plan its tombstone.
LEMMA MarkTerminalKeeps ==
    ASSUME TypeOK, TombstonesMatchPlans, NEW k \in Key, plans[k] # NoPlan,
           NEW s \in Terminal, MarkTerminal(k, s)
    PROVE  /\ plans' \in [Key -> Plan \cup {NoPlan}]
           /\ reuse_block_until' \in [Key -> Nat]
           /\ TombstonesMatchPlans'
BY PlanStoreAssumption DEF TypeOK, TombstonesMatchPlans, MarkTerminal, Plan,
   NoPlan, Live, Terminal, TombstoneDeadline

LEMMA StoreInvInit == Init => StoreInv
BY PlanStoreAssumption DEF Init, StoreInv, TypeOK, TombstonesMatchPlans, NoPlan,
   Terminal, Nonce

LEMMA StoreInvNext == StoreInv /\ [Next]_vars => StoreInv'
<1> SUFFICES ASSUME TypeOK, TombstonesMatchPlans, [Next]_vars
             PROVE  TypeOK' /\ TombstonesMatchPlans'
  BY DEF StoreInv
<1> USE PlanStoreAssumption
<1>1. ASSUME NEW w \in Creator, NEW k \in Key, NEW c \in Call, NEW h \in Timeout,
             BuildPlan(w, k, c, h)
      PROVE  TypeOK' /\ TombstonesMatchPlans'
  <2>1. TombstonesMatchPlans'
    BY <1>1 DEF BuildPlan, TombstonesMatchPlans, TombstoneDeadline
  <2>2. built + 1 \in Nonce /\ built' \in 0..MaxPlans
    BY <1>1 DEF BuildPlan, TypeOK, Nonce
  <2>3. ResolveTTL(h) \in Nat /\ 2 * now + h \in Nat
    BY <1>1 DEF BuildPlan, TTLAvailable, ResolveTTL, TypeOK
  <2>4. [state |-> "ANALYZED", nonce |-> built + 1,
         expires |-> now + ResolveTTL(h), window |-> 2 * now + h, call |-> c] \in FreshPlan
    BY <2>2, <2>3 DEF FreshPlan, Plan, Live, TypeOK
  <2> QED
    BY <1>1, <2>1, <2>2, <2>4 DEF BuildPlan, TypeOK
<1>2. ASSUME NEW w \in Creator, PutPlan(w)
      PROVE  TypeOK' /\ TombstonesMatchPlans'
  <2>1. CASE PutAccepted(w)
    <3> DEFINE key == drafts[w].key
               p == drafts[w].plan
    <3>1. key \in Key /\ p \in Plan /\ p.state \notin Terminal /\ CleanTombs[key] = 0
      BY <1>2, <2>1 DEF PutPlan, TypeOK, FreshPlan, Terminal, PutAccepted, KeyReused
    <3>2. plans' = [CleanPlans EXCEPT ![key] = p] /\ reuse_block_until' = CleanTombs
      BY <2>1 DEF PutAccepted
    <3> QED
      BY <1>2, <3>1, <3>2, CleanTypes
         DEF PutPlan, TypeOK, TombstonesMatchPlans, TombstoneDeadline
  <2>2. CASE PutRefused(w)
    BY <1>2, <2>2, CleanTypes
       DEF PutPlan, PutRefused, TypeOK, TombstonesMatchPlans, TombstoneDeadline
  <2> QED
    BY <1>2, <2>1, <2>2 DEF PutPlan
<1>3. ASSUME NEW k \in Key, ExpireInPlace(k), UNCHANGED <<now, drafts, built>>
      PROVE  TypeOK' /\ TombstonesMatchPlans'
  BY <1>3, MarkTerminalKeeps DEF ExpireInPlace, TypeOK, Terminal
<1>4. ASSUME NEW k \in Key, MarkPending(k), UNCHANGED <<now, drafts, built>>
      PROVE  TypeOK' /\ TombstonesMatchPlans'
  BY <1>4 DEF MarkPending, TypeOK, TombstonesMatchPlans, TombstoneDeadline, Plan,
     NoPlan, Live, Terminal
<1>5. ASSUME NEW k \in Key, Spend(k), UNCHANGED <<now, drafts, built>>
      PROVE  TypeOK' /\ TombstonesMatchPlans'
  <2>1. plans[k] \in Plan
    BY <1>5 DEF Spend, TypeOK, NoPlan
  <2>2. uses' \in [Nonce -> Nat]
    BY <1>5, <2>1 DEF Spend, TypeOK, Plan
  <2> QED
    BY <1>5, <2>1, <2>2, MarkTerminalKeeps DEF Spend, TypeOK, Terminal, NoPlan, Plan
<1>6. ASSUME NEW k \in Key, Invalidate(k)
      PROVE  TypeOK' /\ TombstonesMatchPlans'
  BY <1>6, MarkTerminalKeeps DEF Invalidate, TypeOK, Terminal, Live, NoPlan
<1>7. CASE Tick
  BY <1>7 DEF Tick, TypeOK, TombstonesMatchPlans, TombstoneDeadline
<1>8. CASE UNCHANGED vars
  BY <1>8 DEF vars, TypeOK, TombstonesMatchPlans, TombstoneDeadline
<1> QED
  BY <1>1, <1>2, <1>3, <1>4, <1>5, <1>6, <1>7, <1>8
     DEF Next, Lookup, MarkApprovalPending, Consume

\* The variables keep their types.
THEOREM TypeCorrect == Spec => []TypeOK
<1>1. StoreInv => TypeOK
  BY DEF StoreInv
<1> QED
  BY <1>1, StoreInvInit, StoreInvNext, PTL DEF Spec

\* Tombstones and terminal plans are the same keys, with the right deadlines.
THEOREM TombstonesCorrect == Spec => []TombstonesMatchPlans
<1>1. StoreInv => TombstonesMatchPlans
  BY DEF StoreInv
<1> QED
  BY <1>1, StoreInvInit, StoreInvNext, PTL DEF Spec

-----------------------------------------------------------------------------
(* One consumption for each approval.                                      *)

SpendInv == StoreInv /\ NoncesApart /\ SpentOnce

\* Cleanup never makes up a plan: what it leaves under a key has the nonce the
\* key had, and is live only if it was.
LEMMA CleanNonces ==
    ASSUME TypeOK, TombstonesMatchPlans, NEW k \in Key, CleanPlans[k] # NoPlan
    PROVE  /\ plans[k] # NoPlan
           /\ CleanPlans[k].nonce = plans[k].nonce
           /\ CleanPlans[k].window = plans[k].window
           /\ CleanPlans[k].expires = plans[k].expires
           /\ CleanPlans[k].call = plans[k].call
           /\ CleanPlans[k].state \in Live => CleanPlans[k].state = plans[k].state
           /\ plans[k].state \in Terminal => CleanPlans[k].state \in Terminal
<1>1. CASE CleanPlans[k] = plans[k]
  BY <1>1
<1>2. CASE /\ plans[k].state \in Live
           /\ CleanPlans[k] = [plans[k] EXCEPT !.state = "INVALIDATED"]
  BY <1>2 DEF TypeOK, Plan, NoPlan, Live, Terminal
<1> QED
  BY <1>1, <1>2, CleanupEffect

\* A step that only makes the plan of one key terminal, and consumes nothing.
LEMMA TerminalKeepsApart ==
    ASSUME TypeOK, NoncesApart, NEW k \in Key, plans[k] # NoPlan,
           NEW s \in Terminal, MarkTerminal(k, s),
           UNCHANGED <<drafts, built, asked, uses>>
    PROVE  NoncesApart'
<1>1. ASSUME NEW j \in Key
      PROVE  /\ plans'[j] # NoPlan <=> plans[j] # NoPlan
             /\ plans[j] # NoPlan => plans'[j].nonce = plans[j].nonce
             /\ plans'[j].state \in Live => plans'[j] = plans[j]
             /\ plans'[j].state = "APPROVAL_PENDING" => plans'[j] = plans[j]
  BY DEF MarkTerminal, TypeOK, Plan, NoPlan, Live, Terminal
<1> QED
  BY <1>1 DEF NoncesApart, PlanNoncesDistinct, DraftNoncesDistinct,
       NoncesBuilt, UnspentUntilConsumed, PendingWasAsked, TypeOK, Plan, NoPlan, Live

LEMMA SpendInvInit == Init => SpendInv
<1> SUFFICES ASSUME Init PROVE NoncesApart /\ SpentOnce
  BY StoreInvInit DEF SpendInv
<1> QED
  BY DEF Init, NoncesApart, PlanNoncesDistinct, DraftNoncesDistinct,
       NoncesBuilt, UnspentUntilConsumed, PendingWasAsked, SpentOnce, NoPlan, NoDraft, Live, Nonce

LEMMA SpendInvNext == SpendInv /\ [Next]_vars => SpendInv'
<1> SUFFICES ASSUME TypeOK, TombstonesMatchPlans, NoncesApart, SpentOnce, [Next]_vars
             PROVE  NoncesApart' /\ SpentOnce'
  BY StoreInvNext DEF SpendInv, StoreInv
<1> USE PlanStoreAssumption
<1>1. ASSUME NEW w \in Creator, NEW k \in Key, NEW c \in Call, NEW h \in Timeout,
             BuildPlan(w, k, c, h)
      PROVE  NoncesApart' /\ SpentOnce'
  <2> DEFINE n == built + 1
  <2>1. n \in Nonce /\ n > built /\ uses[n] = 0 /\ built' = n
    BY <1>1 DEF BuildPlan, TypeOK, Nonce, NoncesApart, NoncesBuilt
  <2>2. /\ drafts'[w] # NoDraft
        /\ drafts'[w].plan.nonce = n
    BY <1>1 DEF BuildPlan, TypeOK, NoDraft
  <2>3. ASSUME NEW v \in Creator, v # w
        PROVE  drafts'[v] = drafts[v]
    BY <1>1, <2>3 DEF BuildPlan, TypeOK
  <2>4. ASSUME NEW v \in Creator, drafts[v] # NoDraft
        PROVE  drafts[v].plan.nonce \in Nonce
    BY <2>4 DEF TypeOK, FreshPlan, Plan
  <2>5. ASSUME NEW j \in Key, plans[j] # NoPlan
        PROVE  plans[j].nonce \in Nonce
    BY <2>5 DEF TypeOK, Plan
  <2>6. UNCHANGED <<plans, asked, uses>> /\ built \in Nat
    BY <1>1 DEF BuildPlan, TypeOK
  <2>7. Nonce \subseteq Nat
    BY DEF Nonce
  <2>8. SpentOnce'
    BY <2>6 DEF SpentOnce
  <2>9. ASSUME NEW j \in Key, plans[j] # NoPlan
        PROVE  plans[j].nonce <= n /\ plans[j].nonce # n
    <3>1. plans[j].nonce <= built
      BY <2>9 DEF NoncesApart, NoncesBuilt
    <3>2. plans[j].nonce \in Nat
      BY <2>5, <2>7, <2>9
    <3> QED
      BY <2>6, <3>1, <3>2
  <2>10. ASSUME NEW v \in Creator, drafts[v] # NoDraft
         PROVE  drafts[v].plan.nonce <= n /\ drafts[v].plan.nonce # n
    <3>1. drafts[v].plan.nonce <= built
      BY <2>10 DEF NoncesApart, NoncesBuilt
    <3>2. drafts[v].plan.nonce \in Nat
      BY <2>4, <2>7, <2>10
    <3> QED
      BY <2>6, <3>1, <3>2
  <2>11. \A m \in Nonce : m > n => uses[m] = 0
    <3> SUFFICES ASSUME NEW m \in Nonce, m > n PROVE uses[m] = 0
      OBVIOUS
    <3>1. m > built
      BY <2>6, <2>7
    <3> QED
      BY <3>1 DEF NoncesApart, NoncesBuilt
  <2>12. n <= n
    BY <2>6
  <2> HIDE DEF n
  <2>13. PlanNoncesDistinct' /\ PendingWasAsked'
    BY <2>6 DEF NoncesApart, PlanNoncesDistinct, PendingWasAsked
  <2>14. DraftNoncesDistinct'
    BY <2>2, <2>3, <2>6, <2>9, <2>10 DEF NoncesApart, DraftNoncesDistinct
  <2>15. NoncesBuilt'
    BY <2>1, <2>2, <2>3, <2>6, <2>9, <2>10, <2>11, <2>12 DEF NoncesBuilt
  <2>16. UnspentUntilConsumed'
    BY <2>1, <2>2, <2>3, <2>6 DEF NoncesApart, UnspentUntilConsumed
  <2> QED
    BY <2>8, <2>13, <2>14, <2>15, <2>16 DEF NoncesApart
<1>2. ASSUME NEW w \in Creator, PutPlan(w)
      PROVE  NoncesApart' /\ SpentOnce'
  <2>1. UNCHANGED <<built, asked, uses>>
    BY <1>2 DEF PutPlan
  <2>2. drafts'[w] = NoDraft /\ \A v \in Creator : v # w => drafts'[v] = drafts[v]
    BY <1>2 DEF PutPlan, TypeOK
  <2>3. CASE PutAccepted(w)
    <3> DEFINE key == drafts[w].key
               p == drafts[w].plan
    <3>1. /\ drafts[w] # NoDraft /\ key \in Key /\ p \in FreshPlan
          /\ plans' = [CleanPlans EXCEPT ![key] = p]
      BY <1>2, <2>3 DEF PutPlan, PutAccepted, TypeOK
    <3>2. plans'[key] = p /\ \A j \in Key : j # key => plans'[j] = CleanPlans[j]
      BY <3>1, CleanTypes
    <3>3. uses[p.nonce] = 0 /\ p.nonce <= built /\ p.state # "APPROVAL_PENDING"
      BY <3>1 DEF NoncesApart, PlanNoncesDistinct, DraftNoncesDistinct,
       NoncesBuilt, UnspentUntilConsumed, PendingWasAsked, FreshPlan
    <3>4. ASSUME NEW j \in Key, j # key, plans'[j] # NoPlan
          PROVE  /\ plans[j] # NoPlan /\ plans'[j].nonce = plans[j].nonce
                 /\ plans'[j].state \in Live => plans'[j].state = plans[j].state
      BY <3>2, <3>4, CleanNonces
    <3>5. ASSUME NEW j \in Key, plans'[j].state \in Live
          PROVE  plans'[j] # NoPlan
      BY <3>5 DEF Live, NoPlan
    <3> QED
      BY <2>1, <2>2, <3>1, <3>2, <3>3, <3>4, <3>5 DEF NoncesApart, PlanNoncesDistinct, DraftNoncesDistinct,
       NoncesBuilt, UnspentUntilConsumed, PendingWasAsked, SpentOnce, Live
  <2>4. CASE PutRefused(w)
    <3>1. plans' = CleanPlans
      BY <2>4 DEF PutRefused
    <3>2. ASSUME NEW j \in Key, plans'[j].state \in Live
          PROVE  plans'[j] # NoPlan
      BY <3>2 DEF Live, NoPlan
    <3>3. ASSUME NEW j \in Key, plans'[j] # NoPlan
          PROVE  /\ plans[j] # NoPlan /\ plans'[j].nonce = plans[j].nonce
                 /\ plans'[j].state \in Live => plans'[j].state = plans[j].state
      BY <3>1, <3>3, CleanNonces
    <3> QED
      BY <2>1, <2>2, <3>2, <3>3 DEF NoncesApart, PlanNoncesDistinct, DraftNoncesDistinct,
       NoncesBuilt, UnspentUntilConsumed, PendingWasAsked, SpentOnce, Live
  <2> QED
    BY <1>2, <2>3, <2>4 DEF PutPlan
<1>3. ASSUME NEW k \in Key, ExpireInPlace(k), UNCHANGED <<now, drafts, built>>
      PROVE  NoncesApart' /\ SpentOnce'
  BY <1>3, TerminalKeepsApart DEF ExpireInPlace, Terminal, SpentOnce
<1>4. ASSUME NEW k \in Key, MarkPending(k), UNCHANGED <<now, drafts, built>>
      PROVE  NoncesApart' /\ SpentOnce'
  <2>1. plans[k] \in Plan /\ asked' = asked \cup {plans[k].nonce} /\ uses' = uses
    BY <1>4 DEF MarkPending, TypeOK, NoPlan
  <2>2. ASSUME NEW j \in Key
        PROVE  /\ plans'[j] # NoPlan <=> plans[j] # NoPlan
               /\ plans[j] # NoPlan => plans'[j].nonce = plans[j].nonce
               /\ plans'[j].state \in Live => plans[j].state \in Live /\ plans[j] # NoPlan
               /\ plans'[j].state = "APPROVAL_PENDING" =>
                      j = k \/ plans'[j] = plans[j]
    BY <1>4 DEF MarkPending, TypeOK, Plan, NoPlan, Live
  <2>3. SpentOnce'
    BY <2>1 DEF SpentOnce
  <2> QED
    BY <1>4, <2>1, <2>2, <2>3 DEF NoncesApart, PlanNoncesDistinct, DraftNoncesDistinct,
       NoncesBuilt, UnspentUntilConsumed, PendingWasAsked, NoPlan
<1>5. ASSUME NEW k \in Key, Spend(k), UNCHANGED <<now, drafts, built>>
      PROVE  NoncesApart' /\ SpentOnce'
  <2> DEFINE n == plans[k].nonce
  <2>1. plans[k] \in Plan /\ plans[k] # NoPlan /\ n \in Nonce
    BY <1>5 DEF Spend, TypeOK, NoPlan, Plan
  <2>2. /\ uses' = [uses EXCEPT ![n] = @ + 1] /\ asked' = asked
        /\ uses[n] = 0 /\ n \in asked
    BY <1>5 DEF Spend, NoncesApart, PlanNoncesDistinct, DraftNoncesDistinct,
       NoncesBuilt, UnspentUntilConsumed, PendingWasAsked, Live
  <2>3. uses'[n] = 1 /\ \A m \in Nonce : m # n => uses'[m] = uses[m]
    BY <2>1, <2>2 DEF TypeOK
  <2>4. SpentOnce'
    BY <2>2, <2>3 DEF SpentOnce
  <2>5. ASSUME NEW j \in Key
        PROVE  /\ plans'[j] # NoPlan <=> plans[j] # NoPlan
               /\ plans[j] # NoPlan => plans'[j].nonce = plans[j].nonce
               /\ plans'[j].state \in Live => plans'[j] = plans[j] /\ j # k
               /\ plans'[j].state = "APPROVAL_PENDING" => plans'[j] = plans[j]
    BY <1>5, <2>1 DEF Spend, MarkTerminal, TypeOK, Plan, NoPlan, Live
  <2>6. ASSUME NEW j \in Key, plans[j] # NoPlan
        PROVE  plans[j].nonce \in Nonce
    BY <2>6 DEF TypeOK, Plan
  <2>7. ASSUME NEW w \in Creator, drafts[w] # NoDraft
        PROVE  drafts[w].plan.nonce \in Nonce
    BY <2>7 DEF TypeOK, FreshPlan, Plan
  <2>8. ASSUME NEW j \in Key, plans[j].state \in Live
        PROVE  plans[j] # NoPlan
    BY <2>8 DEF Live, NoPlan
  <2>9. built \in Nat /\ Nonce \subseteq Nat /\ n <= built
    BY <2>1 DEF TypeOK, Nonce, NoncesApart, PlanNoncesDistinct, DraftNoncesDistinct,
       NoncesBuilt, UnspentUntilConsumed, PendingWasAsked
  <2>10. UNCHANGED <<drafts, built>>
    BY <1>5
  <2> HIDE DEF n
  <2>11. PlanNoncesDistinct' /\ DraftNoncesDistinct'
    BY <2>5, <2>10 DEF NoncesApart, PlanNoncesDistinct, DraftNoncesDistinct
  <2>12. NoncesBuilt'
    BY <2>1, <2>3, <2>5, <2>9, <2>10 DEF NoncesApart, NoncesBuilt
  <2>13. ASSUME NEW j \in Key, plans[j] # NoPlan, j # k
         PROVE  plans[j].nonce # n
    BY <2>1, <2>13 DEF n, NoncesApart, PlanNoncesDistinct
  <2>14. ASSUME NEW w \in Creator, drafts[w] # NoDraft
         PROVE  drafts[w].plan.nonce # n
    BY <2>1, <2>14 DEF n, NoncesApart, DraftNoncesDistinct
  <2>15. UnspentUntilConsumed'
    <3>1. \A j \in Key : plans'[j].state \in Live => uses'[plans'[j].nonce] = 0
      BY <2>3, <2>5, <2>6, <2>8, <2>13 DEF NoncesApart, UnspentUntilConsumed
    <3>2. \A w \in Creator : drafts[w] # NoDraft => uses'[drafts[w].plan.nonce] = 0
      BY <2>3, <2>7, <2>14 DEF NoncesApart, UnspentUntilConsumed
    <3> QED
      BY <2>10, <3>1, <3>2 DEF UnspentUntilConsumed
  <2>16. PendingWasAsked'
    BY <2>2, <2>5 DEF NoncesApart, PendingWasAsked
  <2> QED
    BY <2>4, <2>11, <2>12, <2>15, <2>16 DEF NoncesApart
<1>6. ASSUME NEW k \in Key, Invalidate(k)
      PROVE  NoncesApart' /\ SpentOnce'
  BY <1>6, TerminalKeepsApart DEF Invalidate, Terminal, Live, NoPlan, SpentOnce
<1>7. CASE Tick
  BY <1>7 DEF Tick, NoncesApart, PlanNoncesDistinct, DraftNoncesDistinct,
       NoncesBuilt, UnspentUntilConsumed, PendingWasAsked, SpentOnce
<1>8. CASE UNCHANGED vars
  BY <1>8 DEF vars, NoncesApart, PlanNoncesDistinct, DraftNoncesDistinct,
       NoncesBuilt, UnspentUntilConsumed, PendingWasAsked, SpentOnce
<1> QED
  BY <1>1, <1>2, <1>3, <1>4, <1>5, <1>6, <1>7, <1>8
     DEF Next, Lookup, MarkApprovalPending, Consume

\* Every plan is consumed at most once, and only after the human was asked.
THEOREM SpentAtMostOnce == Spec => []SpentOnce
<1>1. SpendInv => SpentOnce
  BY DEF SpendInv
<1> QED
  BY <1>1, SpendInvInit, SpendInvNext, PTL DEF Spec

\* Nonces stay apart.
THEOREM NoncesStayApart == Spec => []NoncesApart
<1>1. SpendInv => NoncesApart
  BY DEF SpendInv
<1> QED
  BY <1>1, SpendInvInit, SpendInvNext, PTL DEF Spec

-----------------------------------------------------------------------------
(* The plan outlives the host's approval window.                           *)

WindowFits(p) == p.window <= 2 * (p.expires - Margin)

WindowInv ==
    /\ StoreInv
    /\ \A k \in Key : plans[k] # NoPlan => WindowFits(plans[k])
    /\ \A w \in Creator : drafts[w] # NoDraft => WindowFits(drafts[w].plan)

\* Rounding up and adding the margin leaves the margin after the window.
LEMMA CeilingCovers ==
    ASSUME NEW h \in Int, NEW t \in Nat
    PROVE  2 * t + h <= 2 * ((t + ResolveTTL(h)) - Margin)
<1>1. 2 * ((h + 1) \div 2) >= h
  OBVIOUS
<1> QED
  BY <1>1, PlanStoreAssumption DEF ResolveTTL

LEMMA WindowInvNext == WindowInv /\ [Next]_vars => WindowInv'
<1> SUFFICES ASSUME WindowInv, [Next]_vars
             PROVE  /\ \A k \in Key : plans'[k] # NoPlan => WindowFits(plans'[k])
                    /\ \A w \in Creator :
                           drafts'[w] # NoDraft => WindowFits(drafts'[w].plan)
  BY StoreInvNext DEF WindowInv, WindowFits
<1>0. TypeOK /\ TombstonesMatchPlans
  BY DEF WindowInv, StoreInv
<1> USE PlanStoreAssumption
<1> DEFINE PlansFit == \A k \in Key : plans'[k] # NoPlan => WindowFits(plans'[k])
           DraftsFit == \A w \in Creator :
                            drafts'[w] # NoDraft => WindowFits(drafts'[w].plan)
<1>1. ASSUME NEW w \in Creator, NEW k \in Key, NEW c \in Call, NEW h \in Timeout,
             BuildPlan(w, k, c, h)
      PROVE  PlansFit /\ DraftsFit
  <2>1. WindowFits(drafts'[w].plan)
    <3>1. /\ drafts'[w].plan.window = 2 * now + h
          /\ drafts'[w].plan.expires = now + ResolveTTL(h)
      BY <1>0, <1>1 DEF BuildPlan, TypeOK
    <3> QED
      BY <1>0, <3>1, CeilingCovers DEF TypeOK, WindowFits
  <2>2. \A v \in Creator : v # w => drafts'[v] = drafts[v]
    BY <1>0, <1>1 DEF BuildPlan, TypeOK
  <2> QED
    BY <1>1, <2>1, <2>2 DEF BuildPlan, WindowInv
<1>2. ASSUME NEW w \in Creator, PutPlan(w)
      PROVE  PlansFit /\ DraftsFit
  <2>1. DraftsFit
    BY <1>0, <1>2 DEF PutPlan, TypeOK, WindowInv
  <2>2. ASSUME NEW k \in Key, CleanPlans[k] # NoPlan
        PROVE  WindowFits(CleanPlans[k])
    BY <1>0, <2>2, CleanNonces DEF WindowInv, WindowFits
  <2>3. CASE PutAccepted(w)
    <3>1. ASSUME NEW k \in Key
          PROVE  plans'[k] = CleanPlans[k] \/ plans'[k] = drafts[w].plan
      BY <1>0, <2>3, CleanTypes DEF PutAccepted
    <3> QED
      BY <1>2, <2>1, <2>2, <3>1 DEF PutPlan, WindowInv
  <2>4. CASE PutRefused(w)
    BY <2>1, <2>2, <2>4 DEF PutRefused
  <2> QED
    BY <1>2, <2>3, <2>4 DEF PutPlan
<1>3. ASSUME NEW k \in Key, plans[k] # NoPlan, UNCHANGED drafts,
             \E s \in Live \cup Terminal : plans' = [plans EXCEPT ![k].state = s]
      PROVE  PlansFit /\ DraftsFit
  <2>1. ASSUME NEW j \in Key, plans'[j] # NoPlan
        PROVE  /\ plans[j] # NoPlan
               /\ plans'[j].window = plans[j].window
               /\ plans'[j].expires = plans[j].expires
    BY <1>0, <1>3, <2>1 DEF TypeOK, Plan
  <2> QED
    BY <1>3, <2>1 DEF WindowInv, WindowFits
<1>4. ASSUME NEW k \in Key, Lookup(k) \/ MarkApprovalPending(k) \/ Consume(k)
                                \/ Invalidate(k)
      PROVE  PlansFit /\ DraftsFit
  BY <1>3, <1>4 DEF Lookup, MarkApprovalPending, Consume, Invalidate, ExpireInPlace,
     MarkPending, Spend, MarkTerminal, Live, Terminal, NoPlan
<1>5. CASE Tick \/ UNCHANGED vars
  BY <1>5 DEF Tick, vars, WindowInv
<1> QED
  BY <1>1, <1>2, <1>4, <1>5 DEF Next

\* While the host still waits for the human, counted from the plan's creation,
\* the plan has at least the review margin left, whatever the host's timeout.
THEOREM WindowCovered == Spec => []CoversApprovalWindow
<1>1. Init => WindowInv
  <2>1. Init => /\ \A k \in Key : plans[k] = NoPlan
                /\ \A w \in Creator : drafts[w] = NoDraft
    BY DEF Init
  <2> QED
    BY <2>1, StoreInvInit DEF WindowInv
<1>2. WindowInv => CoversApprovalWindow
  BY PlanStoreAssumption
     DEF WindowInv, StoreInv, WindowFits, CoversApprovalWindow, TypeOK, Plan
<1> QED
  BY <1>1, <1>2, WindowInvNext, PTL DEF Spec

-----------------------------------------------------------------------------
(* The bound on the store.                                                 *)

BoundInv ==
    /\ StoreInv
    /\ IsFiniteSet(Occupied(plans, reuse_block_until))
    /\ StoreBounded

\* Cleanup only ever frees keys.
LEMMA CleanupFrees ==
    ASSUME StoreInv
    PROVE  Occupied(CleanPlans, CleanTombs) \subseteq
               Occupied(plans, reuse_block_until)
<1>1. TypeOK /\ TombstonesMatchPlans
  BY DEF StoreInv
<1>2. ASSUME NEW k \in Key, CleanPlans[k] # NoPlan \/ CleanTombs[k] # 0
      PROVE  plans[k] # NoPlan \/ reuse_block_until[k] # 0
  <2>1. CASE /\ CleanPlans[k] = plans[k]
             /\ CleanTombs[k] = reuse_block_until[k]
    BY <1>2, <2>1
  <2>2. CASE plans[k].state \in Live
    BY <2>2 DEF Live, NoPlan
  <2>3. CASE plans[k] # NoPlan
    BY <2>3
  <2> QED
    BY <1>1, <2>1, <2>2, <2>3, CleanupEffect
<1> QED
  BY <1>2 DEF Occupied

LEMMA BoundInvNext == BoundInv /\ [Next]_vars => BoundInv'
<1> SUFFICES ASSUME BoundInv, [Next]_vars
             PROVE  /\ IsFiniteSet(Occupied(plans', reuse_block_until'))
                    /\ Cardinality(Occupied(plans', reuse_block_until')) <= Capacity
  BY StoreInvNext DEF BoundInv, StoreBounded
<1> USE PlanStoreAssumption
<1> DEFINE Old   == Occupied(plans, reuse_block_until)
           Clean == Occupied(CleanPlans, CleanTombs)
           New   == Occupied(plans', reuse_block_until')
<1>0. /\ TypeOK /\ TombstonesMatchPlans
      /\ IsFiniteSet(Old) /\ Cardinality(Old) <= Capacity /\ Cardinality(Old) \in Nat
  BY FS_CardinalityType DEF BoundInv, StoreInv, StoreBounded
<1>1. /\ IsFiniteSet(Clean)
      /\ Cardinality(Clean) \in Nat
      /\ Cardinality(Clean) <= Capacity
  <2>1. IsFiniteSet(Clean) /\ Cardinality(Clean) <= Cardinality(Old)
    BY <1>0, CleanupFrees, FS_Subset DEF BoundInv
  <2> QED
    BY <1>0, <2>1, FS_CardinalityType
<1>2. ASSUME NEW w \in Creator, PutPlan(w)
      PROVE  IsFiniteSet(New) /\ Cardinality(New) <= Capacity
  <2>1. CASE PutAccepted(w)
    <3> DEFINE key == drafts[w].key
    <3>1. key \in Key /\ drafts[w].plan # NoPlan
      BY <1>0, <1>2 DEF PutPlan, TypeOK, FreshPlan, NoPlan
    <3>2. New = Clean \cup {key}
      <4>1. /\ plans' = [CleanPlans EXCEPT ![key] = drafts[w].plan]
            /\ reuse_block_until' = CleanTombs
            /\ CleanPlans \in [Key -> Plan \cup {NoPlan}]
        BY <1>0, <2>1, CleanTypes DEF PutAccepted
      <4> QED
        BY <3>1, <4>1 DEF Occupied
    <3>3. Cardinality(Clean) < Capacity
      BY <1>1, <2>1 DEF PutAccepted, StoreFull
    <3> HIDE DEF Clean, New
    <3> QED
      BY <1>1, <3>2, <3>3, FS_AddElement
  <2>2. CASE PutRefused(w)
    <3>1. New = Clean
      BY <2>2 DEF PutRefused
    <3> HIDE DEF Clean, New
    <3> QED
      BY <1>1, <3>1
  <2> QED
    BY <1>2, <2>1, <2>2 DEF PutPlan
<1>3. ASSUME NEW k \in Key, Lookup(k) \/ MarkApprovalPending(k) \/ Consume(k)
                                \/ Invalidate(k)
      PROVE  New = Old
  <2>1. plans[k] \in Plan /\ k \in Old
    BY <1>0, <1>3 DEF Lookup, MarkApprovalPending, Consume, Invalidate, ExpireInPlace,
       MarkPending, Spend, Live, NoPlan, TypeOK, Occupied
  <2>2. plans'[k] \in Plan
    BY <1>0, <1>3, <2>1 DEF Lookup, MarkApprovalPending, Consume, Invalidate,
       ExpireInPlace, MarkPending, Spend, MarkTerminal, Live, Terminal, Plan, TypeOK
  <2>3. \A j \in Key : j # k =>
            plans'[j] = plans[j] /\ reuse_block_until'[j] = reuse_block_until[j]
    BY <1>0, <1>3 DEF Lookup, MarkApprovalPending, Consume, Invalidate,
       ExpireInPlace, MarkPending, Spend, MarkTerminal, TypeOK
  <2>4. \A p \in Plan : p # NoPlan
    BY DEF Plan, NoPlan, Live, Terminal
  <2> QED
    BY <2>1, <2>2, <2>3, <2>4 DEF Occupied
<1>4. CASE \/ \E w \in Creator, k \in Key, c \in Call, h \in Timeout :
                  BuildPlan(w, k, c, h)
           \/ Tick \/ UNCHANGED vars
  <2>1. UNCHANGED <<plans, reuse_block_until>>
    BY <1>4 DEF BuildPlan, Tick, vars
  <2> QED
    BY <1>0, <2>1
<1> HIDE DEF Old, New
<1>5. ASSUME New = Old
      PROVE  IsFiniteSet(New) /\ Cardinality(New) <= Capacity
  BY <1>0, <1>5
<1> QED
  BY <1>2, <1>3, <1>4, <1>5 DEF Next, New

LEMMA BoundInvInit == Init => BoundInv
<1> SUFFICES ASSUME Init PROVE Occupied(plans, reuse_block_until) = {}
  BY StoreInvInit, FS_EmptySet, PlanStoreAssumption DEF BoundInv, StoreBounded
<1> QED
  BY DEF Init, Occupied

\* The store never holds more keys than its capacity.
THEOREM StoreStaysBounded == Spec => []StoreBounded
<1>1. BoundInv => StoreBounded
  BY DEF BoundInv
<1> QED
  BY <1>1, BoundInvInit, BoundInvNext, PTL DEF Spec

-----------------------------------------------------------------------------
(* The life of a key.                                                      *)

\* Any step that is not a put leaves every key its plan, changed at most in its
\* state, and never from terminal to live nor back to analysed.
LEMMA StepOfTheRest ==
    ASSUME TypeOK, [Next]_vars, ~ \E w \in Creator : PutPlan(w), NEW k \in Key
    PROVE  /\ plans'[k] # NoPlan <=> plans[k] # NoPlan
           /\ plans[k] # NoPlan =>
                  /\ plans'[k].nonce = plans[k].nonce /\ plans'[k].expires = plans[k].expires
                  /\ plans'[k].call = plans[k].call
                  /\ plans[k].state \in Terminal => plans'[k].state \in Terminal
                  /\ plans'[k].state = "ANALYZED" => plans[k].state = "ANALYZED"
<1> USE PlanStoreAssumption
<1>1. ASSUME NEW j \in Key, plans[j] # NoPlan,
             NEW s \in (Live \cup Terminal) \ {"ANALYZED"}, plans' = [plans EXCEPT ![j].state = s],
             plans[j].state \in Terminal => s \in Terminal
      PROVE  /\ plans'[k] # NoPlan <=> plans[k] # NoPlan
             /\ plans[k] # NoPlan =>
                    /\ plans'[k].nonce = plans[k].nonce /\ plans'[k].expires = plans[k].expires
                    /\ plans'[k].call = plans[k].call
                    /\ plans[k].state \in Terminal => plans'[k].state \in Terminal
                    /\ plans'[k].state = "ANALYZED" => plans[k].state = "ANALYZED"
  <2>1. CASE j = k
    <3>1. plans[k] \in Plan
      BY <1>1, <2>1 DEF TypeOK
    <3>2. plans'[k] = [plans[k] EXCEPT !.state = s]
      BY <1>1, <2>1 DEF TypeOK
    <3>3. /\ plans'[k].state = s /\ plans'[k].nonce = plans[k].nonce
          /\ plans'[k].expires = plans[k].expires /\ plans'[k].call = plans[k].call
      BY <3>1, <3>2 DEF Plan
    <3>4. plans'[k] # NoPlan
      BY <3>3 DEF NoPlan, Live, Terminal
    <3> QED
      BY <1>1, <2>1, <3>3, <3>4
  <2>2. CASE j # k
    BY <1>1, <2>2 DEF TypeOK
  <2> QED
    BY <2>1, <2>2
<1>2. ASSUME NEW j \in Key, ExpireInPlace(j) \/ Spend(j) \/ Invalidate(j)
      PROVE  /\ plans[j] # NoPlan
             /\ \E s \in Terminal : plans' = [plans EXCEPT ![j].state = s]
  BY <1>2 DEF ExpireInPlace, Spend, Invalidate, MarkTerminal, Live, Terminal, NoPlan
<1>3. ASSUME NEW j \in Key, MarkPending(j)
      PROVE  /\ plans[j] # NoPlan /\ plans[j].state \notin Terminal
             /\ plans' = [plans EXCEPT ![j].state = "APPROVAL_PENDING"]
  BY <1>3 DEF MarkPending, Terminal, NoPlan
<1>4. CASE UNCHANGED plans
  BY <1>4
<1>5. \/ UNCHANGED plans
      \/ \E j \in Key : ExpireInPlace(j) \/ Spend(j) \/ Invalidate(j) \/ MarkPending(j)
  BY DEF Next, BuildPlan, Lookup, MarkApprovalPending, Consume, Tick, vars
<1> QED
  BY <1>1, <1>2, <1>3, <1>4, <1>5 DEF Live, Terminal

\* A put forgets a key, or gives it away, only when its window is over.
LEMMA PutKeepsKeys ==
    ASSUME TypeOK, TombstonesMatchPlans, NEW w \in Creator, PutPlan(w),
           NEW k \in Key, plans[k] # NoPlan
    PROVE  \/ /\ plans'[k] # NoPlan /\ plans'[k].nonce = plans[k].nonce
              /\ plans'[k].expires = plans[k].expires /\ plans'[k].call = plans[k].call
              /\ plans[k].state \in Terminal => plans'[k].state \in Terminal
           \/ now >= TombstoneDeadline(plans[k])
<1>1. \/ now >= TombstoneDeadline(plans[k])
      \/ /\ CleanPlans[k] # NoPlan /\ CleanPlans[k].nonce = plans[k].nonce
         /\ CleanPlans[k].expires = plans[k].expires /\ CleanPlans[k].call = plans[k].call
         /\ plans[k].state \in Terminal => CleanPlans[k].state \in Terminal
  <2>1. CASE CleanPlans[k] = plans[k]
    BY <2>1
  <2>2. CASE CleanPlans[k] = [plans[k] EXCEPT !.state = "INVALIDATED"]
    <3>1. plans[k] \in Plan
      BY DEF TypeOK
    <3> QED
      BY <2>2, <3>1 DEF Plan, NoPlan, Terminal
  <2> QED
    BY <2>1, <2>2, CleanupEffect
<1>2. CASE CleanPlans[k] # NoPlan
  <2>1. CASE PutAccepted(w)
    <3>1. drafts[w].key # k
      BY <1>2, <2>1 DEF PutAccepted, KeyReused
    <3>2. plans'[k] = CleanPlans[k]
      BY <2>1, <3>1, CleanTypes DEF PutAccepted
    <3> QED
      BY <1>1, <1>2, <3>2
  <2>2. CASE PutRefused(w)
    BY <1>1, <1>2, <2>2 DEF PutRefused
  <2> QED
    BY <2>1, <2>2 DEF PutPlan
<1> QED
  BY <1>1, <1>2

\* Inside its window a plan keeps its key and everything but its state.
LEMMA PlanStays ==
    ASSUME TypeOK, TombstonesMatchPlans, [Next]_vars, NEW k \in Key, plans[k] # NoPlan,
           now < TombstoneDeadline(plans[k])
    PROVE  /\ plans'[k] # NoPlan /\ plans'[k].nonce = plans[k].nonce
           /\ plans'[k].expires = plans[k].expires /\ plans'[k].call = plans[k].call
<1>1. ~ now >= TombstoneDeadline(plans[k])
  BY PlanStoreAssumption DEF TypeOK, Plan, TombstoneDeadline
<1> QED
  BY <1>1, StepOfTheRest, PutKeepsKeys

\* A key is neither forgotten nor given to another plan inside its window.
THEOREM KeysAreHeld == Spec => KeyHeldForItsWindow
<1>1. StoreInv /\ [Next]_vars =>
          [\A k \in Key : plans[k] # NoPlan =>
               \/ plans'[k] # NoPlan /\ plans'[k].nonce = plans[k].nonce
               \/ now >= TombstoneDeadline(plans[k])]_vars
  BY StepOfTheRest, PutKeepsKeys DEF StoreInv
<1> QED
  BY <1>1, StoreInvInit, StoreInvNext, PTL DEF Spec, KeyHeldForItsWindow

\* A consumed or invalidated plan never lives again, under any key.
THEOREM TerminalIsForGood == Spec => NoRevival
<1>1. ASSUME SpendInv, [Next]_vars, NEW k \in Key, NEW j \in Key,
             plans[k].state \in Terminal, plans'[j] # NoPlan,
             plans'[j].nonce = plans[k].nonce
      PROVE  plans'[j].state \in Terminal
  <2>1. /\ TypeOK /\ TombstonesMatchPlans /\ plans[k] # NoPlan
        /\ PlanNoncesDistinct /\ DraftNoncesDistinct
    BY <1>1 DEF SpendInv, StoreInv, NoncesApart, NoPlan, Terminal
  <2>2. ASSUME plans[j] # NoPlan, plans[j].nonce = plans'[j].nonce,
               plans[j].state \in Terminal => plans'[j].state \in Terminal
        PROVE  plans'[j].state \in Terminal
    BY <1>1, <2>1, <2>2 DEF PlanNoncesDistinct
  <2>3. ASSUME NEW w \in Creator, PutPlan(w)
        PROVE  plans'[j].state \in Terminal
    <3>1. plans'[j] # drafts[w].plan
      BY <1>1, <2>1, <2>3 DEF PutPlan, DraftNoncesDistinct
    <3>2. plans'[j] = CleanPlans[j]
      BY <1>1, <2>1, <2>3, <3>1, CleanTypes DEF PutPlan, PutAccepted, PutRefused
    <3>3. CASE CleanPlans[j] = plans[j]
      BY <1>1, <2>2, <3>2, <3>3
    <3>4. CASE CleanPlans[j] = [plans[j] EXCEPT !.state = "INVALIDATED"]
      <4>1. CASE plans[j] \in Plan
        BY <3>2, <3>4, <4>1 DEF Plan, Terminal
      <4>2. CASE plans[j] = NoPlan
        BY <3>2, <3>4, <4>2 DEF NoPlan, Terminal
      <4> QED
        BY <2>1, <4>1, <4>2 DEF TypeOK
    <3> QED
      BY <1>1, <2>1, <3>2, <3>3, <3>4, CleanupEffect
  <2>4. CASE ~ \E w \in Creator : PutPlan(w)
    BY <1>1, <2>1, <2>2, <2>4, StepOfTheRest
  <2> QED
    BY <2>3, <2>4
<1>2. SpendInv /\ [Next]_vars =>
          [\A k, j \in Key :
               /\ plans[k].state \in Terminal
               /\ plans'[j] # NoPlan
               /\ plans'[j].nonce = plans[k].nonce
               => plans'[j].state \in Terminal]_vars
  BY <1>1
<1> QED
  BY <1>2, SpendInvInit, SpendInvNext, PTL DEF Spec, NoRevival

-----------------------------------------------------------------------------
(* Refusals.                                                               *)

\* What a cleanup leaves has its window open.
LEMMA CleanIsOpen ==
    ASSUME StoreInv, NEW k \in Key, CleanPlans[k] # NoPlan \/ CleanTombs[k] # 0
    PROVE  WindowOpen(k)
<1>1. TypeOK /\ TombstonesMatchPlans
  BY DEF StoreInv
<1>2. CASE /\ CleanPlans[k] = plans[k] /\ CleanTombs[k] = reuse_block_until[k]
           /\ plans[k] # NoPlan => now < TombstoneDeadline(plans[k])
  <2>1. plans[k] = NoPlan => reuse_block_until[k] = 0
    BY <1>1 DEF TombstonesMatchPlans, NoPlan, Terminal
  <2> QED
    BY <1>2, <2>1 DEF WindowOpen
<1>3. CASE plans[k].state \in Live /\ now < TombstoneDeadline(plans[k])
  BY <1>3 DEF WindowOpen, Live, NoPlan
<1>4. CASE CleanPlans[k] = NoPlan /\ CleanTombs[k] = 0
  BY <1>4
<1> QED
  BY <1>1, <1>2, <1>3, <1>4, CleanupEffect

\* put() refuses a plan only because its key is still taken or the store is full of
\* keys whose windows are open: nothing that is over stands in its way.
THEOREM RefusalsHaveCause == Spec => RefusedForCause
<1> DEFINE Open == {j \in Key : WindowOpen(j)}
           Clean == Occupied(CleanPlans, CleanTombs)
<1>1. ASSUME BoundInv, [Next]_vars, NEW w \in Creator, drafts[w] # NoDraft, drafts'[w] = NoDraft,
             plans'[drafts[w].key] # drafts[w].plan
      PROVE  WindowOpen(drafts[w].key) \/ Cardinality(Open) >= Capacity
  <2> DEFINE k == drafts[w].key
  <2>1. StoreInv /\ TypeOK /\ TombstonesMatchPlans
    BY <1>1 DEF BoundInv, StoreInv
  <2>2. k \in Key
    BY <1>1, <2>1 DEF TypeOK
  <2>3. PutPlan(w)
    <3>1. ASSUME NEW v \in Creator, NEW j \in Key, NEW c \in Call, NEW h \in Timeout,
                 BuildPlan(v, j, c, h)
          PROVE  FALSE
      BY <1>1, <2>1, <3>1 DEF BuildPlan, TypeOK, NoDraft
    <3>2. ASSUME NEW v \in Creator, PutPlan(v)
          PROVE  v = w
      BY <1>1, <2>1, <3>2 DEF PutPlan, TypeOK
    <3>3. ~ UNCHANGED drafts
      BY <1>1
    <3> QED
      BY <1>1, <3>1, <3>2, <3>3
         DEF Next, Lookup, MarkApprovalPending, Consume, Invalidate, Tick, vars
  <2>4. PutRefused(w)
    <3>1. ~ PutAccepted(w)
      BY <1>1, <2>1, <2>2, CleanTypes DEF PutAccepted
    <3> QED
      BY <2>3, <3>1 DEF PutPlan
  <2>5. CASE KeyReused(k)
    BY <2>1, <2>2, <2>5, CleanIsOpen DEF KeyReused
  <2>6. CASE StoreFull
    <3>1. Clean \subseteq Open
      BY <2>1, CleanIsOpen DEF Occupied
    <3>2. Open \subseteq Occupied(plans, reuse_block_until)
      BY DEF Occupied, WindowOpen
    <3>3. IsFiniteSet(Occupied(plans, reuse_block_until))
      BY <1>1 DEF BoundInv
    <3>4. Cardinality(Clean) >= Capacity
      BY <2>6 DEF StoreFull
    <3> HIDE DEF Open, Clean
    <3>5. IsFiniteSet(Open) /\ IsFiniteSet(Clean) /\ Cardinality(Clean) <= Cardinality(Open)
      BY <3>1, <3>2, <3>3, FS_Subset
    <3> QED
      BY <3>4, <3>5, FS_CardinalityType, PlanStoreAssumption
  <2> QED
    BY <2>4, <2>5, <2>6 DEF PutRefused
<1>2. BoundInv /\ [Next]_vars =>
          [\A w \in Creator :
               LET k == drafts[w].key IN
               /\ drafts[w] # NoDraft /\ drafts'[w] = NoDraft
               /\ plans'[k] # drafts[w].plan
               => \/ WindowOpen(k)
                  \/ Cardinality({j \in Key : WindowOpen(j)}) >= Capacity]_vars
  BY <1>1
<1>3. Spec => []BoundInv
  <2>1. Init => BoundInv
    BY BoundInvInit
  <2> QED
    BY <2>1, BoundInvNext, PTL DEF Spec
<1> QED
  BY <1>2, <1>3, PTL DEF Spec, RefusedForCause

=============================================================================
