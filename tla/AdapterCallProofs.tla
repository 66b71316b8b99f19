-------------------------- MODULE AdapterCallProofs --------------------------
(***************************************************************************)
(* Theorems of AdapterCall and of the two adapters in it, for any number   *)
(* of descendants and streams, any limits and timeouts, and any edits of   *)
(* the program: the secret does not outlive the answer, what runs is what  *)
(* was approved, an answer that is no error has all that the program wrote *)
(* and was read in time.                                                   *)
(*                                                                         *)
(* An adapter moves by the handler's start of it, by its own steps and by  *)
(* those of its environment; the invariant of each is proved of all these, *)
(* and then put together with what the handler knows.                      *)
(***************************************************************************)
EXTENDS AdapterCall, TLAPS

-----------------------------------------------------------------------------
(* The process adapter.                                                    *)

Afterwards == {"cleanup", "terminating", "killing", "reap", "done"}

ProcessTypes ==
    /\ at \in {"idle", "io", "quiet", "last_look", "leaving"} \cup Afterwards
    /\ now \in Nat /\ wait \in Nat
    /\ leader \in {"none", "alive", "doomed", "zombie", "reaped"}
    /\ kid \in [Kid -> {"unborn", "in", "out", "doomed", "dead"}]
    /\ holds \in [Process -> SUBSET Stream]
    /\ pipe \in [Stream -> Nat] /\ last \in [Stream -> Nat] /\ got \in [Stream -> Nat]
    /\ open \subseteq Stream

\* Once a cleanup has come past its SIGKILL, or has found that it needs none, nobody
\* in the group is well, and nobody is born into it.
NobodyLeft == leader # "alive" /\ \A k \in Kid : kid[k] # "in"
KillInv ==
    /\ at = "idle" => leader = "none" /\ \A k \in Kid : kid[k] = "unborn"
    /\ at \in {"killing", "reap", "done"} => NobodyLeft

\* A stream that is no longer read has ended for good; the loop is left when the child
\* can write no more and what it wrote was read.
Unwritten == \A s \in Stream : last[s] = 0
LossInv ==
    /\ \A s \in Stream : last[s] <= pipe[s]
    /\ \A s \in Stream \ open : Ended(s)
    /\ at \notin Afterwards => answer = "none"
    /\ at = "last_look" => leader = "reaped"
    /\ at = "leaving" => Unwritten /\ (leader = "reaped" \/ open = {})
    /\ at \in Afterwards /\ (answer = "ok" \/ (answer = "none" /\ ~ late /\ ~ cut)) => Unwritten

ProcessInv == ProcessTypes /\ KillInv /\ LossInv

ProcessMoves ==
    \/ \E m \in Kind : Popen(m)
    \/ PopenFails \/ ProcessStep \/ ProcessChance \/ ProcessTick \/ Program

LEMMA ProcessInvInit == ProcessInit => ProcessInv
BY DEF ProcessInit, ProcessInv, ProcessTypes, KillInv, LossInv, NobodyLeft, Unwritten, Ended, Process,
       Afterwards

LEMMA ProgramKeeps ==
    ASSUME ProcessInv, Program
    PROVE  ProcessInv'
<1>1. ProcessTypes /\ KillInv /\ LossInv
    BY DEF ProcessInv
<1> USE DEF ProcessTypes, Alive, SameAdapter, Process
<1>2. ASSUME NEW p \in Process, NEW s \in Stream, Writes(p, s) PROVE ProcessInv'
  <2>1. /\ UNCHANGED <<at, now, wait, leader, kid, holds, got, open, cut, late, answer>> /\ BeingRead
        /\ s \in holds[p] /\ pipe' = [pipe EXCEPT ![s] = @ + 1]
      BY <1>2 DEF Writes
  <2>2. last' \in [Stream -> Nat] /\ \A r \in Stream : last'[r] <= pipe'[r]
      BY <1>1, <1>2, <2>1 DEF Writes, LossInv
  <2>3. ProcessTypes' /\ KillInv'
    <3>1. pipe' \in [Stream -> Nat]
        BY <1>1, <2>1
    <3>2. KillInv'
        BY <1>1, <2>1 DEF KillInv, NobodyLeft
    <3> QED BY <1>1, <2>1, <2>2, <3>1, <3>2
  <2>4. \A r \in Stream \ open : ~ \E q \in Process : r \in holds[q]
      BY <1>1 DEF LossInv, Ended
  <2>5. \A r \in Stream \ open : Ended(r)'
      BY <1>1, <2>1, <2>4 DEF LossInv, Ended
  <2>6. at = "leaving" => last' = last
      BY <1>1, <1>2, <2>1, <2>4 DEF LossInv, Writes
  <2> QED BY <1>1, <2>1, <2>2, <2>3, <2>5, <2>6 DEF LossInv, ProcessInv, Unwritten, BeingRead, Afterwards
<1>3. ASSUME UNCHANGED <<at, now, wait, pipe, last, got, open, cut, late, answer>>,
             holds' \in [Process -> SUBSET Stream],
             \A s \in Stream, p \in Process : s \in holds'[p] => \E q \in Process : s \in holds[q],
             leader' = leader \/ (leader' = "zombie" /\ leader \in {"alive", "doomed"}),
             kid' \in [Kid -> {"unborn", "in", "out", "doomed", "dead"}],
             \A k \in Kid : kid'[k] = "in" => \/ kid[k] = "in"
                                              \/ leader = "alive"
                                              \/ \E q \in Kid : kid[q] = "in",
             at = "idle" => UNCHANGED <<leader, kid>>
      PROVE  ProcessInv'
  <2>1. ProcessTypes'
      BY <1>1, <1>3
  <2>2. KillInv'
      BY <1>1, <1>3 DEF KillInv, NobodyLeft
  <2>3. \A s \in Stream \ open : Ended(s)'
      BY <1>1, <1>3 DEF LossInv, Ended
  <2>4. LossInv'
      BY <1>1, <1>3, <2>3 DEF LossInv, Unwritten
  <2> QED BY <2>1, <2>2, <2>4 DEF ProcessInv
<1>4. ASSUME NEW p \in Process, NEW k \in Kid, Forks(p, k) PROVE ProcessInv'
  <2>1. at # "idle"
      BY <1>1, <1>4 DEF Forks, KillInv
  <2> QED BY <1>1, <1>3, <1>4, <2>1 DEF Forks
<1>5. ASSUME NEW k \in Kid, Leaves(k) PROVE ProcessInv'
    BY <1>1, <1>3, <1>5 DEF Leaves, KillInv
<1>6. ASSUME NEW p \in Process, Closes(p) PROVE ProcessInv'
    BY <1>1, <1>3, <1>6 DEF Closes
<1>7. CASE TakesInput
    BY <1>1, <1>3, <1>7 DEF TakesInput, program
<1>8. ASSUME NEW p \in Process, Exits(p) PROVE ProcessInv'
    BY <1>1, <1>3, <1>8 DEF Exits, KillInv
<1> QED BY <1>2, <1>4, <1>5, <1>6, <1>7, <1>8 DEF Program

LEMMA LoopKeeps ==
    ASSUME ProcessInv,
           \/ \E m \in Kind : Popen(m)
           \/ PopenFails \/ NonblockingFails \/ ReadsLate \/ Quiet \/ Poll \/ LastLook \/ LoopEnds
           \/ WaitForExit
           \/ \E s \in Stream : ReadChunk(s) \/ ReadEnd(s)
    PROVE  ProcessInv'
<1>1. ProcessTypes /\ KillInv /\ LossInv
    BY DEF ProcessInv
<1> USE DEF At, Cleanup, program, reading
<1>2. ASSUME NEW m \in Kind, Popen(m) PROVE ProcessInv'
  <2>1. /\ at = "idle" /\ at' = "io" /\ leader' = "alive" /\ open' = Stream
        /\ UNCHANGED <<now, wait, kid, pipe, last, got, cut, late, answer>>
      BY <1>2 DEF Popen
  <2>2. holds' \in [Process -> SUBSET Stream]
      BY <1>1, <1>2 DEF Popen, ProcessTypes
  <2>3. ProcessTypes' /\ KillInv' /\ LossInv'
      BY <1>1, <2>1, <2>2 DEF ProcessTypes, KillInv, LossInv, Afterwards, Unwritten
  <2> QED BY <2>3 DEF ProcessInv
<1>3. CASE PopenFails
    BY <1>1, <1>3
       DEF PopenFails, ProcessInv, ProcessTypes, KillInv, NobodyLeft, LossInv, Ended, Unwritten, Afterwards
<1>4. CASE NonblockingFails \/ ReadsLate
    BY <1>1, <1>4 DEF NonblockingFails, ReadsLate, ProcessInv, ProcessTypes, KillInv, LossInv, Ended,
                      Unwritten, Afterwards
<1>5. CASE Quiet \/ Poll
    BY <1>1, <1>5 DEF Quiet, Poll, ProcessInv, ProcessTypes, KillInv, LossInv, Ended, Unwritten, Afterwards
<1>6. CASE LastLook
  <2>1. ASSUME \A s \in open : ~ Ready(s) PROVE Unwritten
    <3>1. ASSUME NEW s \in Stream PROVE last[s] = 0
      <4>1. pipe[s] = 0
        <5>1. CASE s \in open
            BY <1>1, <2>1, <5>1 DEF Ready, ProcessTypes
        <5>2. CASE s \notin open
            BY <1>1, <5>2 DEF LossInv, Ended
        <5> QED BY <5>1, <5>2
      <4> QED BY <1>1, <4>1 DEF LossInv, ProcessTypes
    <3> QED BY <3>1 DEF Unwritten
  <2> QED BY <1>1, <1>6, <2>1 DEF LastLook, ProcessInv, ProcessTypes, KillInv, LossInv, Ended, Unwritten,
                                  Afterwards
<1>7. CASE LoopEnds
  <2>1. open = {} /\ at = "io" /\ at' = "leaving"
      BY <1>7 DEF LoopEnds, IoOpen
  <2>2. Unwritten
    <3>1. ASSUME NEW s \in Stream PROVE last[s] = 0
      <4>1. pipe[s] = 0
          BY <1>1, <2>1 DEF LossInv, Ended
      <4> QED BY <1>1, <4>1 DEF LossInv, ProcessTypes
    <3> QED BY <3>1 DEF Unwritten
  <2> QED BY <1>1, <1>7, <2>1, <2>2
          DEF LoopEnds, ProcessInv, ProcessTypes, KillInv, LossInv, Ended, Unwritten, Afterwards
<1>8. CASE WaitForExit
    BY <1>1, <1>8 DEF WaitForExit, ProcessInv, ProcessTypes, KillInv, LossInv, Ended, Unwritten, Afterwards
<1>9. ASSUME NEW s \in Stream, ReadChunk(s) PROVE ProcessInv'
  <2>1. PICK n \in 1..pipe[s] :
          /\ pipe' = [pipe EXCEPT ![s] = @ - n]
          /\ last' = [last EXCEPT ![s] = Atleast(@, n) - n]
          /\ got' = [got EXCEPT ![s] = IF got[s] + n > MaxOutput THEN MaxOutput ELSE got[s] + n]
          /\ IF cut' THEN at' = "cleanup" ELSE at' = at
      BY <1>9 DEF ReadChunk
  <2>2. at = "io" /\ UNCHANGED <<now, wait, leader, kid, holds, open, late, answer>> /\ s \in open
      BY <1>9 DEF ReadChunk
  <2>3. pipe' \in [Stream -> Nat] /\ last' \in [Stream -> Nat] /\ got' \in [Stream -> Nat]
      BY <1>1, <2>1, ProcessAssumption DEF ProcessTypes, Atleast
  <2>4. \A r \in Stream : last'[r] <= pipe'[r]
      BY <1>1, <2>1 DEF ProcessTypes, LossInv, Atleast
  <2>5. \A r \in Stream \ open : Ended(r)'
      BY <1>1, <2>1, <2>2 DEF ProcessTypes, LossInv, Ended
  <2>6. ProcessTypes' /\ KillInv'
      BY <1>1, <2>1, <2>2, <2>3 DEF ProcessTypes, KillInv, Afterwards
  <2> QED BY <1>1, <2>1, <2>2, <2>4, <2>5, <2>6 DEF ProcessInv, LossInv, Afterwards
<1>10. ASSUME NEW s \in Stream, ReadEnd(s) PROVE ProcessInv'
    BY <1>1, <1>10 DEF ReadEnd, ProcessInv, ProcessTypes, KillInv, LossInv, Ended, Unwritten, Afterwards
<1> QED BY <1>2, <1>3, <1>4, <1>5, <1>6, <1>7, <1>8, <1>9, <1>10

LEMMA CleanupKeeps ==
    ASSUME ProcessInv, SendTerm \/ TermSuffices \/ SendKill \/ GroupGone \/ Reap \/ ReapWithheld
    PROVE  ProcessInv'
<1>1. ProcessTypes /\ KillInv /\ LossInv
    BY DEF ProcessInv
<1>2. KillWait \in Nat
    BY ProcessAssumption
<1> USE DEF At, SameIO, program, reading
<1>3. now' = now /\ now \in Nat /\ UNCHANGED <<pipe, last, got, open, cut, late, holds>> /\ at \in Afterwards
    BY <1>1 DEF SendTerm, TermSuffices, SendKill, GroupGone, Reap, ReapWithheld, ProcessTypes, Afterwards
<1>4. wait' \in Nat /\ at' \in Afterwards
    BY <1>2, <1>3 DEF SendTerm, TermSuffices, SendKill, GroupGone, Reap, ReapWithheld, Afterwards
<1>5. CASE SendKill
  <2>1. /\ leader' \in {"none", "doomed", "zombie", "reaped"}
        /\ kid' = [k \in Kid |-> IF kid[k] = "in" THEN "doomed" ELSE kid[k]]
        /\ at' = "killing" /\ answer' = answer
      BY <1>1, <1>5 DEF SendKill, ProcessTypes
  <2>2. KillInv'
      BY <2>1 DEF KillInv, NobodyLeft
  <2>3. ProcessTypes'
      BY <1>1, <1>3, <1>4, <2>1 DEF ProcessTypes
  <2> QED BY <1>1, <1>3, <1>4, <2>1, <2>2, <2>3 DEF ProcessInv, LossInv, Ended, Unwritten, Afterwards
<1>6. CASE SendTerm \/ TermSuffices \/ GroupGone
  <2>1. kid' = kid /\ answer' = answer /\ leader' \in {leader, "reaped"}
      BY <1>6 DEF SendTerm, TermSuffices, GroupGone
  <2>2. KillInv'
      BY <1>1, <1>6, <2>1 DEF SendTerm, TermSuffices, GroupGone, KillInv, NobodyLeft, Survived, KidsPresent
  <2>3. ProcessTypes'
      BY <1>1, <1>3, <1>4, <2>1 DEF ProcessTypes
  <2> QED BY <1>1, <1>3, <1>4, <2>1, <2>2, <2>3 DEF ProcessInv, LossInv, Ended, Unwritten, Afterwards
<1>7. CASE Reap \/ ReapWithheld
  <2>1. kid' = kid /\ leader' \in {leader, "reaped"} /\ at = "reap"
      BY <1>7 DEF Reap, ReapWithheld
  <2>2. KillInv'
      BY <1>1, <1>7, <2>1 DEF Reap, ReapWithheld, KillInv, NobodyLeft
  <2>3. ProcessTypes'
      BY <1>1, <1>3, <1>4, <2>1 DEF ProcessTypes
  <2>4. \/ answer' = answer
        \/ answer = "none" /\ answer' = Result
        \/ answer' = "PROCESS_ADAPTER_FAILED"
      BY <1>7 DEF Reap, ReapWithheld
  <2>5. answer' = Result => answer' # "none" /\ (answer' = "ok" => ~ late /\ ~ cut)
      BY DEF Result
  <2>6. answer' = "ok" \/ (answer' = "none" /\ ~ late /\ ~ cut) => Unwritten
      BY <1>1, <1>3, <2>4, <2>5 DEF LossInv
  <2> QED BY <1>1, <1>3, <1>4, <2>1, <2>2, <2>3, <2>6 DEF ProcessInv, LossInv, Ended, Unwritten, Afterwards
<1> QED BY <1>5, <1>6, <1>7

LEMMA ProcessInvNext ==
    ASSUME ProcessInv, [ProcessMoves]_processVars
    PROVE  ProcessInv'
<1>1. CASE ProcessTick
  <2>1. now' \in Nat
      BY <1>1 DEF ProcessTick, ProcessInv, ProcessTypes
  <2> QED BY <1>1, <2>1 DEF ProcessTick, ProcessInv, ProcessTypes, KillInv, NobodyLeft, LossInv, Ended,
                            Unwritten, Afterwards, program, reading
<1>2. CASE UNCHANGED processVars
    BY <1>2 DEF processVars, program, reading, ProcessInv, ProcessTypes, KillInv, NobodyLeft, LossInv,
                Ended, Unwritten, Afterwards
<1> QED BY <1>1, <1>2, ProgramKeeps, LoopKeeps, CleanupKeeps DEF ProcessMoves, ProcessStep, ProcessChance

-----------------------------------------------------------------------------
(* The HTTP adapter.                                                       *)

\* Time stands still once the body is being judged, so that a body which was in time
\* when its last piece came is in time when it is answered.
HttpInv ==
    /\ stage \in {"idle", "connecting", "headers", "body", "reading", "read", "done"}
    /\ elapsed \in Nat /\ count \in Nat /\ total \in Nat
    /\ stage \in {"idle", "connecting", "headers"} => total = 0
    /\ stage # "done" => reply = "none"
    /\ stage = "body" /\ total > MaxBody => elapsed <= Total
    /\ stage = "read" => elapsed <= Total
    /\ LateIsRefused

HttpMoves == Request \/ RequestRefused \/ HttpStep \/ Server \/ HttpTick

LEMMA HttpInvInit == HttpInit => HttpInv
BY DEF HttpInit, HttpInv, LateIsRefused

LEMMA HttpInvNext ==
    ASSUME HttpInv, [HttpMoves]_httpVars
    PROVE  HttpInv'
<1> USE DEF HttpInv, LateIsRefused, On
<1>0. Total \in Nat /\ MaxBody \in Nat
    BY HttpAssumption
<1>1. ASSUME HttpFails PROVE HttpInv'
    BY <1>1 DEF HttpFails
<1>2. CASE Request \/ RequestRefused
    BY <1>2 DEF Request, RequestRefused
<1>3. CASE NextAddress \/ SocketTimeout \/ Reset
    BY <1>1, <1>3 DEF NextAddress, SocketTimeout, Reset
<1>4. CASE Connected \/ BeginRead
    BY <1>1, <1>4 DEF Connected, BeginRead
<1>5. CASE FeedLibrary \/ HeadersEnd \/ BodyByte
    BY <1>0, <1>5 DEF FeedLibrary, HeadersEnd, BodyByte
<1>6. CASE PieceEnds
    BY <1>0, <1>1, <1>6 DEF PieceEnds
<1>7. CASE BodyFull \/ Answer
    BY <1>7 DEF BodyFull, Answer
<1>8. CASE HttpTick
    BY <1>0, <1>8 DEF HttpTick, Least
<1>9. CASE UNCHANGED httpVars
    BY <1>9 DEF httpVars
<1> QED BY <1>2, <1>3, <1>4, <1>5, <1>6, <1>7, <1>8, <1>9 DEF HttpMoves, HttpStep, Server

-----------------------------------------------------------------------------
(* The handler.                                                            *)

Early == {"verify", "mkdtemp", "reverify", "open", "copy", "rest", "check", "lease", "adapter"}

\* The copy holds what was approved from its comparison on, until it is removed after
\* the lease was closed.  The process adapter runs only while the handler waits for it.
HandlerInv ==
    /\ kind \in Kind
    /\ handler \in Early \cup {"running", "close", "remove", "answered"}
    /\ handler \in Early \/ kind = "http" => at = "idle"
    /\ handler \in {"close", "remove", "answered"} => at \in {"idle", "done"}
    /\ lease = "open" => handler \in {"adapter", "running", "close"}
    /\ kind # "http" /\ (handler \in {"lease", "adapter", "running"} \/ lease = "open") => copy = <<0, 0>>

\* The process adapter takes no step of its own before its start or after its end.
LEMMA AdapterAsleep ==
    ASSUME ProcessInv, at \in {"idle", "done"},
           ProcessStep \/ ProcessChance \/ ProcessTick \/ Program
    PROVE  at' = at
<1> USE DEF At
<1>1. CASE Program
    BY <1>1 DEF Program, Closes, Exits, Writes, Forks, Leaves, TakesInput, SameAdapter
<1>2. CASE ProcessStep \/ ProcessChance \/ ProcessTick
    BY <1>2 DEF ProcessStep, ReadsLate, Quiet, Poll, LastLook, LoopEnds, WaitForExit, ReadChunk, ReadEnd,
                SendTerm, TermSuffices, SendKill, GroupGone, Reap, ProcessChance, NonblockingFails,
                ReapWithheld, ProcessTick, BeingRead
<1> QED BY <1>1, <1>2

\* A step of the whole is, for each adapter, one of its moves or none.
LEMMA AdaptersMove ==
    ASSUME HandlerInv, [Next]_allVars
    PROVE  [ProcessMoves]_processVars /\ [HttpMoves]_httpVars
<1>1. CASE StartAdapter
    BY <1>1 DEF StartAdapter, HandlerInv, ProcessMoves, HttpMoves
<1>2. CASE HandlerStep /\ ~ StartAdapter
    BY <1>2 DEF HandlerStep, VerifyIdentity, MakeDirectory, VerifyAgain, OpenSource, CopyChunk, CheckCopy,
                ResolveLease, AdapterEnds, CloseLease, RemoveDirectory, adapterVars
<1>3. CASE AdapterStep \/ Tick \/ Environment
    BY <1>3 DEF AdapterStep, Tick, Environment, ProcessMoves, HttpMoves
<1>4. CASE Edit \/ UNCHANGED allVars
    BY <1>4 DEF Edit, allVars, adapterVars
<1> QED BY <1>1, <1>2, <1>3, <1>4 DEF Next

LEMMA HandlerInvNext ==
    ASSUME HandlerInv, ProcessInv, [Next]_allVars
    PROVE  HandlerInv'
<1> USE DEF HandlerInv, Early, Handler, Goto, Abandon, prepared
<1>1. CASE VerifyIdentity \/ MakeDirectory \/ VerifyAgain \/ OpenSource
    BY <1>1 DEF VerifyIdentity, MakeDirectory, VerifyAgain, OpenSource, adapterVars, processVars
<1>2. CASE CopyChunk \/ CheckCopy
    BY <1>2 DEF CopyChunk, CheckCopy, adapterVars, processVars
<1>3. CASE ResolveLease
    BY <1>3 DEF ResolveLease, adapterVars, processVars
<1>4. CASE StartAdapter
    BY <1>4 DEF StartAdapter, processVars
<1>5. CASE AdapterEnds
    BY <1>5 DEF AdapterEnds, Returned, adapterVars, processVars
<1>6. CASE CloseLease \/ RemoveDirectory
    BY <1>6 DEF CloseLease, RemoveDirectory, adapterVars, processVars
<1>7. CASE AdapterStep \/ Tick \/ Environment
  <2>1. UNCHANGED callVars
      BY <1>7 DEF AdapterStep, Tick, Environment
  <2>2. at' = at \/ ProcessStep \/ ProcessChance \/ ProcessTick \/ Program
      BY <1>7 DEF AdapterStep, Tick, Environment, processVars
  <2>3. at \in {"idle", "done"} => at' = at
      BY <2>2, AdapterAsleep
  <2> QED BY <2>1, <2>3 DEF callVars
<1>8. CASE Edit \/ UNCHANGED allVars
    BY <1>8 DEF Edit, allVars, callVars, adapterVars, processVars
<1> QED BY <1>1, <1>2, <1>3, <1>4, <1>5, <1>6, <1>7, <1>8 DEF Next, HandlerStep

-----------------------------------------------------------------------------
(* The whole.                                                              *)

AdapterInv == HandlerInv /\ ProcessInv /\ HttpInv

LEMMA AdapterInvInit == Init => AdapterInv
<1> SUFFICES ASSUME Init PROVE AdapterInv
    OBVIOUS
<1>1. HandlerInv
    BY DEF Init, ProcessInit, HandlerInv, Early
<1> QED BY <1>1, ProcessInvInit, HttpInvInit DEF Init, AdapterInv

LEMMA AdapterInvNext == AdapterInv /\ [Next]_allVars => AdapterInv'
BY AdaptersMove, HandlerInvNext, ProcessInvNext, HttpInvNext DEF AdapterInv

\* The invariant of the handler and both adapters: which part of the call may be
\* running while another is, and what each leaves behind for the next.
THEOREM AdapterInvariant == Spec => []AdapterInv
BY AdapterInvInit, AdapterInvNext, PTL DEF Spec

\* When the host has its answer the lease is closed, and neither the child nor anybody
\* left in its group is alive and well: for any number of descendants, however their
\* forks and exits interleave with the rounds of _kill_process_group.
THEOREM CredentialGoneAlways == Spec => []CredentialGone
<1>1. AdapterInv => CredentialGone
    BY DEF AdapterInv, HandlerInv, Handler, ProcessInv, KillInv, NobodyLeft, CredentialGone
<1> QED BY <1>1, AdapterInvariant, PTL

\* While the lease of a program's secret is open, the private copy is what was
\* approved, wherever between two reads the program's file was edited or replaced.
THEOREM RunsWhatWasApprovedAlways == Spec => []RunsWhatWasApproved
<1>1. AdapterInv => RunsWhatWasApproved
    BY DEF AdapterInv, HandlerInv, RunsWhatWasApproved
<1> QED BY <1>1, AdapterInvariant, PTL

\* A result that is no error has all that the program wrote before it exited, for any
\* number of writers and streams and any size of the pipes.
THEOREM NothingLostAlways == Spec => []NothingLost
<1>1. AdapterInv => NothingLost
    BY DEF AdapterInv, ProcessInv, LossInv, Unwritten, NothingLost
<1> QED BY <1>1, AdapterInvariant, PTL

\* A body that was not read by the deadline is not a result, for any timeouts and sizes
\* and any behaviour of the server.
THEOREM LateIsRefusedAlways == Spec => []LateIsRefused
<1>1. AdapterInv => LateIsRefused
    BY DEF AdapterInv, HttpInv
<1> QED BY <1>1, AdapterInvariant, PTL

=============================================================================
