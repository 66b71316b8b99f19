--------------------------- MODULE ProcessAdapter ---------------------------
(***************************************************************************)
(* execute_process of adapters/process.py: one run of a verified program   *)
(* in a session of its own, with bounded output, one deadline and the      *)
(* cleanup of its process group.                                           *)
(*                                                                         *)
(* The program is the environment: it writes, forks, closes its pipes,     *)
(* ignores SIGTERM and exits as it likes; a descendant may leave the group *)
(* (setsid) and keep the pipes.  SIGTERM therefore has no effect of its    *)
(* own here.  After SIGKILL a process is doomed: it does nothing any more, *)
(* and is dead sooner or later.  A session leader cannot change its group, *)
(* so the check of the group id after the start never differs.             *)
(*                                                                         *)
(* A definition marked "mutant" is not part of the model: it is a wrong    *)
(* version of the definition below it, kept to test the properties.        *)
(***************************************************************************)
EXTENDS Naturals, FiniteSets

CONSTANTS
    Kid,         \* descendants that the program may have
    Stream,      \* stdout and stderr
    MaxOutput,   \* max_stdout_bytes and max_stderr_bytes
    PipeMax,     \* what a pipe holds
    Timeout,     \* timeout_seconds
    KillWait     \* _GROUP_TERM_WAIT_S and _GROUP_KILL_WAIT_S

ASSUME ProcessAssumption ==
    {MaxOutput, PipeMax, Timeout, KillWait} \subseteq Nat \ {0}

VARIABLES
    at,       \* where execute_process is
    now,      \* the clock since the start
    wait,     \* when the wait of the cleanup ends
    rounds,   \* cleanups yet to come
    leader,   \* the child: "none", "alive", "doomed", "zombie" or "reaped"
    kid,      \* "unborn", "in" the group, "out" of it, "doomed" or "dead"
    holds,    \* the write ends a process has open
    pipe,     \* unread output
    last,     \* history: how deep in the pipe the child's own last output is
    got,      \* output read so far
    open,     \* read_fds
    stdin,    \* stdin_open
    cut,      \* truncated
    late,     \* timed_out
    answer    \* the result, or "none"

program == <<leader, kid, holds, pipe, last>>
reading == <<got, open, stdin, cut, late>>
processVars == <<at, now, wait, rounds, program, reading, answer>>

Leader  == "leader"
Process == Kid \cup {Leader}

Alive(p) == IF p = Leader THEN leader = "alive" ELSE kid[p] \in {"in", "out"}

\* _pgid_present: a zombie is still a member.
KidsPresent  == \E k \in Kid : kid[k] \in {"in", "doomed"}
GroupPresent == leader \notin {"none", "reaped"} \/ KidsPresent

At(p) == at = p
Atleast(x, y) == IF x > y THEN x ELSE y

-----------------------------------------------------------------------------
(* The program.                                                            *)

SameAdapter == UNCHANGED <<at, now, wait, rounds, got, open, cut, late, answer>>

\* Bound: what is written or closed once nobody reads is left out.
BeingRead == at \in {"io", "quiet", "last_look", "leaving"}

Writes(p, s) ==
    /\ BeingRead /\ Alive(p) /\ s \in holds[p] /\ pipe[s] < PipeMax
    /\ pipe' = [pipe EXCEPT ![s] = @ + 1]
    /\ last' = IF p = Leader THEN [last EXCEPT ![s] = pipe[s] + 1] ELSE last
    /\ SameAdapter /\ UNCHANGED <<leader, kid, holds, stdin>>

Forks(p, k) ==
    /\ Alive(p) /\ kid[k] = "unborn"
    /\ kid' = [kid EXCEPT ![k] = IF p = Leader THEN "in" ELSE kid[p]]
    /\ holds' = [holds EXCEPT ![k] = holds[p]]
    /\ SameAdapter /\ UNCHANGED <<leader, pipe, last, stdin>>

Leaves(k) ==
    /\ kid[k] = "in"
    /\ kid' = [kid EXCEPT ![k] = "out"]
    /\ SameAdapter /\ UNCHANGED <<leader, holds, pipe, last, stdin>>

Closes(p) ==
    /\ BeingRead /\ Alive(p)
    /\ \E s \in holds[p] : holds' = [holds EXCEPT ![p] = @ \ {s}]
    /\ SameAdapter /\ UNCHANGED <<leader, kid, pipe, last, stdin>>

\* It reads its input, or closes it: the write ends with EPIPE.
TakesInput ==
    /\ At("io") /\ stdin = "open"
    /\ stdin' = "closed"
    /\ SameAdapter /\ UNCHANGED program

Exits(p) ==
    /\ \/ /\ p = Leader /\ leader \in {"alive", "doomed"}
          /\ leader' = "zombie" /\ UNCHANGED kid
       \/ /\ p \in Kid /\ kid[p] \in {"in", "out", "doomed"}
          /\ kid' = [kid EXCEPT ![p] = "dead"] /\ UNCHANGED leader
    /\ holds' = [holds EXCEPT ![p] = {}]
    /\ SameAdapter /\ UNCHANGED <<pipe, last, stdin>>

Program ==
    \/ \E p \in Process : Closes(p) \/ Exits(p) \/ \E s \in Stream : Writes(p, s)
    \/ \E p \in Process, k \in Kid : Forks(p, k)
    \/ \E k \in Kid : Leaves(k)
    \/ TakesInput

-----------------------------------------------------------------------------
(* The start, and the loop of _bounded_io.                                 *)

\* Popen; in env mode stdin is closed at once.
Popen(mode) ==
    /\ At("idle")
    /\ leader' = "alive"
    /\ holds' = [holds EXCEPT ![Leader] = Stream]
    /\ open' = Stream
    /\ stdin' = IF mode = "stdin" THEN "open" ELSE "closed"
    /\ at' = "io"
    /\ UNCHANGED <<now, wait, rounds, kid, pipe, last, got, cut, late, answer>>

\* Popen raises, or the arguments are refused before it.
PopenFails ==
    /\ At("idle")
    /\ at' = "done" /\ answer' = "PROCESS_ADAPTER_FAILED"
    /\ UNCHANGED <<now, wait, rounds, program, reading>>

Cleanup(n) == at' = "cleanup" /\ rounds' = n

\* set_blocking raises: no output is read, and the group is killed twice.
NonblockingFails ==
    /\ At("io") /\ \A s \in Stream : got[s] = 0
    /\ Cleanup(2)
    /\ answer' = "PROCESS_ADAPTER_FAILED"
    /\ UNCHANGED <<now, wait, program, reading>>

Ended(s) == pipe[s] = 0 /\ \A p \in Process : s \notin holds[p]
Ready(s) == pipe[s] > 0 \/ Ended(s)

IoOpen == open # {} \/ stdin = "open"

ReadsLate ==
    /\ At("io") /\ IoOpen /\ now >= Timeout
    /\ late' = TRUE
    /\ Cleanup(3)
    /\ UNCHANGED <<now, wait, program, got, open, stdin, cut, answer>>

\* One chunk, of which what is over the limit is dropped; a limit that is
\* reached counts as exceeded and ends the loop.
ReadChunk(s) ==
    /\ At("io") /\ now < Timeout
    /\ s \in open /\ pipe[s] > 0
    /\ \E n \in 1..pipe[s] :
         LET sum == got[s] + n
         IN  /\ pipe' = [pipe EXCEPT ![s] = @ - n]
             /\ last' = [last EXCEPT ![s] = Atleast(@, n) - n]
             /\ got' = [got EXCEPT ![s] = IF sum > MaxOutput THEN MaxOutput ELSE sum]
             /\ cut' = (sum >= MaxOutput)
             /\ IF cut' THEN Cleanup(3) ELSE UNCHANGED <<at, rounds>>
    /\ UNCHANGED <<now, wait, leader, kid, holds, open, stdin, late, answer>>

ReadEnd(s) ==
    /\ At("io") /\ now < Timeout
    /\ s \in open /\ Ended(s)
    /\ open' = open \ {s}
    /\ UNCHANGED <<at, now, wait, rounds, program, got, stdin, cut, late, answer>>

\* select found nothing within its quarter of a second.
Quiet ==
    /\ At("io") /\ now < Timeout /\ IoOpen
    /\ \A s \in open : ~ Ready(s)
    /\ at' = "quiet"
    /\ UNCHANGED <<now, wait, rounds, program, reading, answer>>

\* poll reaps a child that has exited; the pipes are looked at once more.
PollOnce ==                                           \* mutant
    /\ At("quiet")
    /\ leader' = IF leader = "zombie" THEN "reaped" ELSE leader
    /\ at' = IF leader' = "reaped" /\ stdin # "open" THEN "leaving" ELSE "io"
    /\ UNCHANGED <<now, wait, rounds, kid, holds, pipe, last, reading, answer>>
Poll ==
    /\ At("quiet")
    /\ leader' = IF leader = "zombie" THEN "reaped" ELSE leader
    /\ at' = IF leader' = "reaped" /\ stdin # "open" THEN "last_look" ELSE "io"
    /\ UNCHANGED <<now, wait, rounds, kid, holds, pipe, last, reading, answer>>

LastLook ==
    /\ At("last_look")
    /\ at' = IF \E s \in open : Ready(s) THEN "io" ELSE "leaving"
    /\ UNCHANGED <<now, wait, rounds, program, reading, answer>>

LoopEnds ==
    /\ At("io") /\ ~ IoOpen
    /\ at' = "leaving"
    /\ UNCHANGED <<now, wait, rounds, program, reading, answer>>

\* proc.wait for the rest of the time.
WaitForExit ==
    /\ At("leaving")
    /\ \/ /\ now >= Timeout
          /\ late' = TRUE /\ Cleanup(3) /\ UNCHANGED leader
       \/ /\ now < Timeout /\ leader \in {"zombie", "reaped"}
          /\ leader' = "reaped" /\ Cleanup(2) /\ UNCHANGED late
    /\ UNCHANGED <<now, wait, kid, holds, pipe, last, got, open, stdin, cut, answer>>

-----------------------------------------------------------------------------
(* _kill_process_group.                                                    *)

SameIO == UNCHANGED <<now, pipe, last, reading>>

SendTerm ==
    /\ At("cleanup")
    /\ at' = "terminating"
    /\ wait' = now + KillWait
    /\ SameIO /\ UNCHANGED <<rounds, leader, kid, holds, answer>>

SurvivedAsChild == leader = "alive" \/ leader = "doomed"       \* mutant
Survived        == leader = "alive" \/ leader = "doomed" \/ KidsPresent

\* The poll reaps the child; nobody is left: no SIGKILL.
TermSuffices ==
    /\ At("terminating")
    /\ ~ Survived
    /\ leader' = "reaped"
    /\ at' = "reap" /\ wait' = now + 2 * KillWait
    /\ SameIO /\ UNCHANGED <<rounds, kid, holds, answer>>

SendKill ==
    /\ At("terminating")
    /\ Survived /\ now >= wait
    /\ leader' = CASE leader = "alive" -> "doomed"
                   [] leader = "zombie" -> "reaped"
                   [] OTHER -> leader
    /\ kid' = [k \in Kid |-> IF kid[k] = "in" THEN "doomed" ELSE kid[k]]
    /\ at' = "killing" /\ wait' = now + KillWait
    /\ SameIO /\ UNCHANGED <<rounds, holds, answer>>

\* _wait_pgid_gone does not reap: a zombie child makes it wait to the end.
GroupGoneForSure ==                                   \* mutant
    /\ At("killing") /\ ~ GroupPresent
    /\ at' = "reap" /\ wait' = now + 2 * KillWait
    /\ SameIO /\ UNCHANGED <<rounds, leader, kid, holds, answer>>
GroupGone ==
    /\ At("killing")
    /\ ~ GroupPresent \/ now >= wait
    /\ at' = "reap" /\ wait' = now + 2 * KillWait
    /\ SameIO /\ UNCHANGED <<rounds, leader, kid, holds, answer>>

\* The result is made before the last round, the one in the finally.
Result ==
    CASE late -> "PROCESS_TIMEOUT"
      [] cut /\ ~ late -> "PROCESS_OUTPUT_LIMIT"
      [] OTHER -> "ok"

Reap ==
    /\ At("reap")
    /\ leader \in {"zombie", "reaped"} \/ now >= wait
    /\ leader' = IF leader = "zombie" THEN "reaped" ELSE leader
    /\ rounds' = rounds - 1
    /\ at' = IF rounds = 1 THEN "done" ELSE "cleanup"
    /\ answer' = IF rounds = 2 /\ answer = "none" THEN Result ELSE answer
    /\ wait' = 0
    /\ SameIO /\ UNCHANGED <<kid, holds>>

\* _guard_output withholds what cannot be cleaned.
ReapWithheld ==
    /\ At("reap") /\ rounds = 2 /\ answer = "none"
    /\ leader \in {"zombie", "reaped"} \/ now >= wait
    /\ leader' = IF leader = "zombie" THEN "reaped" ELSE leader
    /\ rounds' = 1 /\ at' = "cleanup" /\ wait' = 0
    /\ answer' = "PROCESS_ADAPTER_FAILED"
    /\ SameIO /\ UNCHANGED <<kid, holds>>

-----------------------------------------------------------------------------

ProcessStep ==
    \/ ReadsLate \/ Quiet \/ Poll \/ LastLook \/ LoopEnds \/ WaitForExit
    \/ \E s \in Stream : ReadChunk(s) \/ ReadEnd(s)
    \/ SendTerm \/ TermSuffices \/ SendKill \/ GroupGone \/ Reap

ProcessChance == NonblockingFails \/ ReapWithheld

\* Time passes while the adapter reads or waits, and stops for it at its
\* deadlines.
ProcessTick ==
    /\ \/ BeingRead /\ now < Timeout
       \/ at \in {"terminating", "killing", "reap"} /\ now < wait
    /\ now' = now + 1
    /\ UNCHANGED <<at, wait, rounds, program, reading, answer>>

ProcessInit ==
    /\ at = "idle" /\ now = 0 /\ wait = 0 /\ rounds = 0
    /\ leader = "none" /\ kid = [k \in Kid |-> "unborn"]
    /\ holds = [p \in Process |-> {}]
    /\ pipe = [s \in Stream |-> 0] /\ last = [s \in Stream |-> 0]
    /\ got = [s \in Stream |-> 0] /\ open = {} /\ stdin = "closed"
    /\ cut = FALSE /\ late = FALSE /\ answer = "none"

-----------------------------------------------------------------------------

\* A result that is not an error holds everything that the program itself
\* wrote before it exited, even what it wrote between the adapter's look at
\* the pipes and its look at the process.
NothingLost == answer = "ok" => \A s \in Stream : last[s] = 0

=============================================================================
