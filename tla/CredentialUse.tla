--------------------------- MODULE CredentialUse ---------------------------
(***************************************************************************)
(* What a reference call promises, whatever its stages, locks and clocks   *)
(* are: a credential is used only by the call in which a human approved    *)
(* it, for what the human was shown, at most once for an approval, and     *)
(* while the configuration file is still of the version that it was        *)
(* approved for.  ReferenceCall implements this.                           *)
(***************************************************************************)
EXTENDS Naturals, Sequences

CONSTANTS
    Caller,    \* calls at work
    Approval,  \* names of approvals
    Shown      \* what a human may be shown

VARIABLES
    grant,     \* the approval each caller has: [name, shown, version], or Nothing
    used,      \* the uses, in order
    file       \* version of the configuration file

useVars == <<grant, used, file>>

Nothing == [name |-> 0]

NeverUsed(n) == \A i \in DOMAIN used : used[i].name # n

UseInit ==
    /\ grant = [c \in Caller |-> Nothing]
    /\ used = << >>
    /\ file = 1

\* An approval is given to one call, and never given again once it is used.
FreeName(n) == NeverUsed(n) /\ \A c \in Caller : grant[c].name # n

Approve(c) ==
    /\ grant[c] = Nothing
    /\ LET g == grant'[c] IN
           /\ g \in [name : Approval, shown : Shown, version : 1..file]
           /\ FreeName(g.name)
           /\ grant' = [grant EXCEPT ![c] = g]
    /\ UNCHANGED <<used, file>>

Use(c) ==
    /\ grant[c] # Nothing
    /\ used' = Append(used, [by |-> c, name |-> grant[c].name,
                             shown |-> grant[c].shown, version |-> file])
    /\ NeverUsed(grant[c].name)
    /\ grant[c].version = file
    /\ UNCHANGED <<grant, file>>

Withdraw(c) ==
    /\ grant[c] # Nothing
    /\ grant' = [grant EXCEPT ![c] = Nothing]
    /\ UNCHANGED <<used, file>>

Edit ==
    /\ file' = file + 1
    /\ UNCHANGED <<grant, used>>

UseNext ==
    \/ \E c \in Caller : Approve(c) \/ Use(c) \/ Withdraw(c)
    \/ Edit

UseSpec == UseInit /\ [][UseNext]_useVars

=============================================================================
