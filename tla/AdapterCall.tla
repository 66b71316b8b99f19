---------------------------- MODULE AdapterCall ----------------------------
(***************************************************************************)
(* What happens to an injection between the consumption of its plan and    *)
(* the answer to the host: _resolve_and_execute of tool_execution.py over  *)
(* the identity of the program (process_identity.py), the lease of the     *)
(* secret (injection.py) and one of the two adapters.  The handler runs    *)
(* under the configuration lock and the execution lock, so there is one.   *)
(*                                                                         *)
(* A user may edit or replace the program at any time; whether he does it  *)
(* in place or by renaming decides what an open descriptor reads.  The     *)
(* private copy is in a directory of mode 0700 that nobody else writes.    *)
(*                                                                         *)
(* A definition marked "mutant" is not part of the model: it is a wrong    *)
(* version of the definition below it, kept to test the properties.        *)
(***************************************************************************)
EXTENDS ProcessAdapter, HttpAdapter, Sequences

CONSTANTS
    Kind,       \* binding types: a subset of {"process_env", "stdin", "http"}
    MaxEdits    \* bound: edits of the program

ASSUME AdapterCallAssumption ==
    Kind \subseteq {"process_env", "stdin", "http"} /\ MaxEdits \in Nat

VARIABLES
    kind,      \* the binding's type
    handler,   \* where the handler is
    inode,     \* the file at the program's path
    content,   \* content[i], what file i holds; 0 is what was approved
    edits,     \* edits so far
    fd,        \* the file the descriptor has open
    copy,      \* the private copy: the two halves, or fewer
    work,      \* the working directory exists
    verified,  \* prepare_verified_executable has returned
    lease      \* SecretLease: "none", "open" or "closed"

program_file == <<inode, content, edits>>
prepared     == <<fd, copy, work, verified>>
callVars     == <<kind, handler, program_file, prepared, lease>>
adapterVars  == <<processVars, httpVars>>
allVars      == <<callVars, adapterVars>>

Handler(h) == handler = h
Goto(h)    == handler' = h

-----------------------------------------------------------------------------
(* The program's file.                                                     *)

EditInPlace ==
    /\ edits < MaxEdits
    /\ edits' = edits + 1
    /\ content' = [content EXCEPT ![inode] = edits + 1]
    /\ UNCHANGED inode

Replace ==
    /\ edits < MaxEdits
    /\ edits' = edits + 1
    /\ inode' = edits + 1
    /\ content' = [content EXCEPT ![edits + 1] = edits + 1]

\* Bound: what happens to the file once it was copied is read by nobody.
Edit ==
    /\ kind # "http" /\ handler \in {"verify", "mkdtemp", "reverify", "open", "copy", "rest"}
    /\ EditInPlace \/ Replace
    /\ UNCHANGED <<kind, handler, prepared, lease, adapterVars>>

-----------------------------------------------------------------------------
(* The handler.                                                            *)

\* An exception or an early return: the finally clause is next.
Abandon == Goto("close") /\ UNCHANGED <<prepared, lease>>

\* capture_program_identity gives what was approved.
Same == inode = 0 /\ content[0] = 0

VerifyIdentity ==
    /\ Handler("verify")
    /\ \/ Same /\ Goto("mkdtemp") /\ UNCHANGED <<prepared, lease>>
       \/ ~Same /\ Abandon
    /\ UNCHANGED <<kind, program_file, adapterVars>>

MakeDirectory ==
    /\ Handler("mkdtemp")
    /\ \/ Goto("reverify") /\ work' = TRUE /\ UNCHANGED <<fd, copy, verified, lease>>
       \/ Abandon
    /\ UNCHANGED <<kind, program_file, adapterVars>>

VerifyAgain ==
    /\ Handler("reverify")
    /\ \/ Same /\ Goto("open") /\ UNCHANGED <<prepared, lease>>
       \/ ~Same /\ Abandon
    /\ UNCHANGED <<kind, program_file, adapterVars>>

\* The descriptor is opened and its identity compared once more.
OpenSource ==
    /\ Handler("open")
    /\ \/ Same /\ fd' = inode /\ Goto("copy") /\ UNCHANGED <<copy, work, verified, lease>>
       \/ ~Same /\ Abandon
    /\ UNCHANGED <<kind, program_file, adapterVars>>

\* A file of more than one chunk, which can be edited between two reads.
CopyChunk ==
    /\ handler \in {"copy", "rest"}
    /\ \/ /\ copy' = Append(copy, content[fd])
          /\ Goto(IF Handler("copy") THEN "rest" ELSE "check")
          /\ UNCHANGED <<fd, work, verified, lease>>
       \/ Abandon
    /\ UNCHANGED <<kind, program_file, adapterVars>>

TrustCopy ==                                          \* mutant
    /\ Handler("check")
    /\ verified' = TRUE /\ Goto("lease") /\ UNCHANGED <<fd, copy, work, lease>>
    /\ UNCHANGED <<kind, program_file, adapterVars>>
CheckCopy ==
    /\ Handler("check")
    /\ IF copy = <<0, 0>>
       THEN verified' = TRUE /\ Goto("lease") /\ UNCHANGED <<fd, copy, work, lease>>
       ELSE copy' = <<>> /\ Goto("close") /\ UNCHANGED <<fd, work, verified, lease>>
    /\ UNCHANGED <<kind, program_file, adapterVars>>

ResolveLease ==
    /\ Handler("lease")
    /\ \/ lease' = "open" /\ Goto("adapter") /\ UNCHANGED prepared
       \/ Abandon
    /\ UNCHANGED <<kind, program_file, adapterVars>>

\* execute_process and execute_http read the lease before anything is started.
StartAdapter ==
    /\ Handler("adapter")
    /\ Goto("running")
    /\ IF kind = "http"
       THEN (Request \/ RequestRefused) /\ UNCHANGED processVars
       ELSE (Popen(kind) \/ PopenFails) /\ UNCHANGED httpVars
    /\ UNCHANGED <<kind, program_file, prepared, lease>>

Returned == IF kind = "http" THEN stage = "done" ELSE at = "done"

AdapterEnds ==
    /\ Handler("running") /\ Returned
    /\ Goto("close")
    /\ UNCHANGED <<kind, program_file, prepared, lease, adapterVars>>

CloseLease ==
    /\ Handler("close")
    /\ lease' = IF lease = "open" THEN "closed" ELSE lease
    /\ Goto("remove")
    /\ UNCHANGED <<kind, program_file, prepared, adapterVars>>

\* cleanup_verified_executable, best effort; a directory whose copy was not
\* verified stays.
RemoveDirectory ==
    /\ Handler("remove")
    /\ IF verified THEN work' = FALSE /\ copy' = <<>> /\ UNCHANGED <<fd, verified>>
                   ELSE UNCHANGED prepared
    /\ Goto("answered")
    /\ UNCHANGED <<kind, program_file, lease, adapterVars>>

-----------------------------------------------------------------------------

Init ==
    /\ kind \in Kind
    /\ handler = IF kind = "http" THEN "lease" ELSE "verify"
    /\ inode = 0 /\ edits = 0
    /\ content = [i \in 0..MaxEdits |-> 0]
    /\ fd = 0 /\ copy = <<>> /\ work = FALSE /\ verified = FALSE
    /\ lease = "none"
    /\ ProcessInit /\ HttpInit

HandlerStep ==
    \/ VerifyIdentity \/ MakeDirectory \/ VerifyAgain \/ OpenSource \/ CopyChunk
    \/ CheckCopy \/ ResolveLease \/ StartAdapter \/ AdapterEnds \/ CloseLease
    \/ RemoveDirectory

AdapterStep ==
    \/ ProcessStep /\ UNCHANGED <<callVars, httpVars>>
    \/ HttpStep /\ UNCHANGED <<callVars, processVars>>

Tick ==
    \/ ProcessTick /\ UNCHANGED <<callVars, httpVars>>
    \/ HttpTick /\ UNCHANGED <<callVars, processVars>>

Environment ==
    \/ (Program \/ ProcessChance) /\ UNCHANGED <<callVars, httpVars>>
    \/ Server /\ UNCHANGED <<callVars, processVars>>

Next == HandlerStep \/ AdapterStep \/ Tick \/ Environment \/ Edit

Spec == Init /\ [][Next]_allVars

\* The handler, the adapters and the clock go on.  Nothing is assumed of the
\* program, of the server or of the user.
FairSpec ==
    /\ Spec
    /\ WF_allVars(HandlerStep)
    /\ WF_allVars(AdapterStep)
    /\ WF_allVars(Tick)

-----------------------------------------------------------------------------

\* When the host gets its answer, the lease is closed and no process that was
\* given the secret is alive and well in the child's group: whatever ended the
\* run, and however the program, its descendants and the timeouts interleave.
\* A descendant that left the group on its own is out of the code's reach.
CredentialGone ==
    Handler("answered") =>
        /\ lease # "open"
        /\ leader # "alive"
        /\ \A k \in Kid : kid[k] # "in"

\* The file that runs holds what the human approved, and the secret is not
\* read for any other, whenever the program is edited or replaced.
RunsWhatWasApproved ==
    lease = "open" /\ kind # "http" => copy = <<0, 0>>

\* A call gets its answer and lets the two locks go, whatever the program does and
\* whatever the server withholds, closes or sends of a body.  One thing can hold it
\* for good: a server that feeds the library for ever with what no limit counts.
AdapterReturns == <>Handler("answered") \/ []<><<FeedLibrary>>_allVars

\* The timeout of the binding bounds the request as a whole (it does not).
WallClockKept == Handler("running") /\ stage = "done" => elapsed <= Total

=============================================================================
