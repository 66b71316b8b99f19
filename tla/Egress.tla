------------------------------- MODULE Egress -------------------------------
(***************************************************************************)
(* What leaves for the model provider (middleware.py, redactor.py,         *)
(* registry.py, state.py) and what a tool's result brings back into the    *)
(* conversation (hooks.py, result_guard.py).                               *)
(*                                                                         *)
(* A request is the sequence of its leaves in the order the code walks     *)
(* them: strings, dictionary keys and numbers, each with the message it    *)
(* belongs to (0 at the top level).  A text is the set of what matters     *)
(* about it, see Material.  on_llm_request prepares the request once,      *)
(* other middleware of the host may edit it, on_llm_execution prepares it  *)
(* again from the beginning and calls the provider.  Meanwhile the         *)
(* configuration may be rewritten.  What a tool returns is first judged by *)
(* the call it answers: see ToolGuard.                                     *)
(*                                                                         *)
(* A definition marked "mutant" is not part of the model: it is a wrong    *)
(* version of the definition below it, kept to test the properties.        *)
(***************************************************************************)
EXTENDS ToolGuard

CONSTANTS
    Secret,      \* secrets that may be registered
    Base,        \* the process's own registry: a set of entries
    Config,      \* the file's versions: [entries, loads, builds]
    First,       \* versions the file may have at first
    Requests,    \* requests the host may send
    Results,     \* texts a tool may return
    Edits,       \* texts the host may put into a message between the stages
    MaxRounds    \* MAX_RESIDUAL_RECOVERY_ITERATIONS

Version == DOMAIN Config

VARIABLES
    stage,     \* the guard's entry: "request", "execution" or "result"
    phase,     \* how far it has come
    request,   \* the provider-bound copy
    registry,  \* the entries that this entry works with
    rounds,    \* rounds of recovery so far
    code,      \* the code of the block, or "none"
    version,   \* the version of the configuration file
    entered,   \* history: the request as it entered this stage
    original,  \* history: the request as other middleware left it last
    since,     \* history: secrets registered ever since this stage began
    calm       \* history: what the first stage passed, and under which registry

callVars == <<stage, phase, request, registry, rounds, code>>
history  == <<entered, original, since, calm>>
egressVars == <<callVars, version, history>>
vars     == <<egressVars, guardVars>>

-----------------------------------------------------------------------------
(* What a text may hold.                                                   *)

Plain(s)   == [kind |-> "secret", of |-> s]    \* a variant of s
Seam(s, r) == [kind |-> "seam", of |-> s, leaves |-> r]
                      \* a variant of s; once it is replaced, a variant of r
Half(s)    == [kind |-> "half", of |-> s]      \* two of them, serialised, make s
Pem        == [kind |-> "pem"]          \* a private key with both of its markers
Boundary   == [kind |-> "boundary"]     \* key material that cannot be delimited
Opaque     == [kind |-> "opaque"]       \* past the scanner's bounds
Token      == [kind |-> "token"]        \* <SECRET:cg_...>
Removed    == [kind |-> "removed"]      \* <REDACTED_SECRET>
Withheld   == [kind |-> "withheld"]     \* <REDACTED_UNRESOLVED_SENSITIVE_FIELD>
Quarantined == [kind |-> "quarantined"] \* one of the history markers
Renamed(n) == [kind |-> "renamed", number |-> n]  \* <REDACTED_SENSITIVE_KEY_n>

\* What the host may have: a key is renamed in the guard's copy only, and the session
\* is never rewritten.
Material ==
    {Plain(s) : s \in Secret} \cup {Half(s) : s \in Secret}
      \cup {Seam(s, r) : s, r \in Secret}
      \cup {Pem, Boundary, Opaque, Token, Removed, Withheld, Quarantined}

Role   == {"none", "system", "user", "assistant", "tool"}
Field  == {"model", "name", "keyword", "label", "content", "arguments", "entry", "number"}
Leaf   == [msg : Nat, role : Role, field : Field, text : SUBSET Material]
IsKey(leaf)  == leaf.field \in {"keyword", "label"}

Holds(text, s)  == \E m \in text : m.kind \in {"secret", "seam"} /\ m.of = s
KeyMaterial(text) == {Pem, Boundary} \cap text # {}
ScanFails(text) == Opaque \in text

With(r, i, text) == [r EXCEPT ![i].text = text]

-----------------------------------------------------------------------------
(* The registry: an entry is an identity with its secret.                  *)

Secrets(reg) == {e.secret : e \in reg}

Consistent(reg) == \A e, f \in reg : (e.name = f.name) <=> (e.secret = f.secret)

Merged(v) == Base \cup Config[v].entries

ASSUME EgressAssumption ==
    /\ MaxRounds \in Nat
    /\ First \subseteq Version
    /\ IsFiniteSet(Secret)
    /\ \A v \in Version : Secrets(Merged(v)) \subseteq Secret
    /\ Requests \subseteq Seq(Leaf)
    /\ Results \cup Edits \subseteq SUBSET Material

\* collect_protected_replacements refuses ambiguous variants and large registries.
PairsBuild(v) == Config[v].builds

-----------------------------------------------------------------------------
(* The replacements.                                                       *)

\* redact_private_keys and the whole-field fallback on one value or key.
KeylessTextOfTokens(leaf) ==                          \* mutant
    IF leaf.field = "number" \/ ScanFails(leaf.text) THEN leaf.text
    ELSE IF {Boundary, Token} \cap leaf.text # {} THEN {Withheld}
    ELSE IF Pem \in leaf.text THEN (leaf.text \ {Pem}) \cup {Removed}
    ELSE leaf.text
KeylessText(leaf) ==
    IF leaf.field = "number" \/ ScanFails(leaf.text) THEN leaf.text
    ELSE IF Boundary \in leaf.text THEN {Withheld}
    ELSE IF Pem \in leaf.text THEN (leaf.text \ {Pem}) \cup {Removed}
    ELSE leaf.text

\* Why _redact_locatable_private_keys refuses a leaf, or "none".
KeyTrouble(leaf) ==
    IF leaf.field = "number" THEN "none"
    ELSE IF IsKey(leaf) /\ ScanFails(leaf.text) THEN "CG-SCANNER-ERROR"
    ELSE IF Boundary \notin leaf.text \/ ScanFails(leaf.text) THEN "none"
    ELSE IF IsKey(leaf) THEN "CG-REDACTION-COLLISION"
    ELSE IF leaf.field \in {"content", "arguments"} THEN "none"
    ELSE "CG-RESIDUAL-SECRET"

\* redact_text: every variant gives way to its token.
RedactedText(text, reg) ==
    LET hit == {m \in text : m.kind \in {"secret", "seam"} /\ m.of \in Secrets(reg)}
    IN  (text \ hit) \cup (IF hit = {} THEN {} ELSE {Token})
          \cup {Plain(m.leaves) : m \in {n \in hit : n.kind = "seam"}}

\* Two keys of one dictionary that have become the same.
Collide(r, i, j) ==
    /\ i # j
    /\ r[i].field = "label" /\ r[j].field = "label"
    /\ r[i].msg = r[j].msg
    /\ r[i].text = r[j].text /\ r[i].text # {}

Collisions(r) == {i \in DOMAIN r : \E j \in DOMAIN r : Collide(r, i, j)}

\* Keys that collide are given placeholders with numbers that nobody has, so the last
\* look for equal keys finds none.
Rename(r) == [i \in DOMAIN r |->
    IF i \in Collisions(r) THEN [r[i] EXCEPT !.text = {Renamed(i)}] ELSE r[i]]

Keyless(r) == [i \in DOMAIN r |-> [r[i] EXCEPT !.text = KeylessText(r[i])]]

Redacted(r, reg) == [i \in DOMAIN r |->
    IF r[i].field = "number" THEN r[i]
    ELSE [r[i] EXCEPT !.text = RedactedText(r[i].text, reg)]]

-----------------------------------------------------------------------------
(* The scans.                                                              *)

FirstOf(S) == {i \in S : \A j \in S : i <= j}

\* _find_residual_private_key: the first string or key with key material.
KeyFinding(r) == FirstOf({i \in DOMAIN r : /\ r[i].field # "number"
                                           /\ \/ KeyMaterial(r[i].text)
                                              \/ ScanFails(r[i].text)})

\* _find_residual_plain_secret.
SecretFinding(r, reg) == FirstOf({i \in DOMAIN r :
    r[i].field # "number" /\ \E s \in Secrets(reg) : Holds(r[i].text, s)})

\* _scan_residuals: a scanner's failure comes first.
Findings(r, reg) ==
    LET failed == {i \in KeyFinding(r) : ScanFails(r[i].text)}
    IN  IF failed # {} THEN failed ELSE KeyFinding(r) \cup SecretFinding(r, reg)

\* _aggregate_variant_hit_count: registered secrets in the serialised request.
Hits(r, reg) == {s \in Secrets(reg) :
    \/ \E i \in DOMAIN r : Holds(r[i].text, s)
    \/ \E i, j \in DOMAIN r : i # j /\ Half(s) \in r[i].text \cap r[j].text}

FullyClean(r, reg) == Findings(r, reg) = {} /\ Hits(r, reg) = {}

-----------------------------------------------------------------------------
(* What recovery may touch.                                                *)

\* _current_user_input_index.
CurrentInputIsLast(r) == {i \in DOMAIN r :            \* mutant
    \A j \in DOMAIN r : r[j].msg <= r[i].msg}
CurrentInput(r) == {i \in DOMAIN r :
    /\ r[i].role = "user"
    /\ \A j \in DOMAIN r : r[j].role = "user" => r[j].msg <= r[i].msg}

\* _is_approved_scanner_recovery_path.
ApprovedForScanner(r, i) ==
    /\ r[i].role \in {"user", "assistant", "tool"}
    /\ i \notin CurrentInput(r)
    /\ \/ r[i].field \in {"content", "entry"}
       \/ r[i].field = "arguments" /\ r[i].role = "assistant"

\* _is_system_or_core_path.
SystemOrCore(leaf) ==
    \/ leaf.field = "model"
    \/ leaf.role = "system"
    \/ leaf.field \in {"name", "keyword"}

\* _recover_residuals: whether the loop may isolate this finding.
Recoverable(r, i) ==
    /\ ~ IsKey(r[i])
    /\ IF ScanFails(r[i].text)
       THEN ApprovedForScanner(r, i)
       ELSE i \notin CurrentInput(r) /\ ~ SystemOrCore(r[i])
    /\ r[i].text # {Quarantined}

\* _try_aggregate_recovery: contents first, then arguments, of history only.
Branches(r, field) == {i \in DOMAIN r :
    /\ r[i].field = field
    /\ IF field = "content" THEN r[i].role # "system" /\ i \notin CurrentInput(r)
                            ELSE r[i].role = "assistant"
    /\ r[i].text # {Quarantined}}

Breaks(r, reg, i) ==
    LET trial == With(r, i, {Quarantined})
    IN  /\ Findings(trial, reg) = {}
        /\ Cardinality(Hits(trial, reg)) < Cardinality(Hits(r, reg))

AggregateBranch(r, reg) ==
    LET of(field) == FirstOf({i \in Branches(r, field) : Breaks(r, reg, i)})
    IN  IF of("content") # {} THEN of("content") ELSE of("arguments")

-----------------------------------------------------------------------------
(* One preparation: _prepare_provider_bound.                               *)

At(p) == phase = p

Block(c) ==
    /\ phase' = "blocked"
    /\ code' = c
    /\ UNCHANGED <<stage, request, registry, rounds, version, history>>

Go(p) == phase' = p /\ UNCHANGED <<stage, code, version>>

RedactPrivateKeys ==
    /\ At("entered") /\ stage # "result"
    /\ \A i \in DOMAIN request : KeyTrouble(request[i]) = "none"
    /\ Collisions(Keyless(request)) = {}
    /\ request' = Keyless(request)
    /\ Go("keyless")
    /\ UNCHANGED <<registry, rounds, history>>

PrivateKeysRefused ==
    /\ At("entered") /\ stage # "result"
    /\ LET bad == {i \in DOMAIN request : KeyTrouble(request[i]) # "none"}
       IN  \/ bad # {} /\ \E i \in FirstOf(bad) : Block(KeyTrouble(request[i]))
           \/ Collisions(Keyless(request)) # {} /\ Block("CG-REDACTION-COLLISION")

\* get_egress_registry_snapshot: load the file, then merge it with the base.
Loadable(v) == Config[v].loads /\ Consistent(Merged(v))

NeedsRegistry == At("keyless") \/ (At("entered") /\ stage = "result")

TakeSnapshot ==
    /\ NeedsRegistry
    /\ Loadable(version) /\ PairsBuild(version)
    /\ registry' = Merged(version)
    /\ Go("snapshot")
    /\ UNCHANGED <<request, rounds, history>>

\* The file is invalid, two entries conflict, or the lock times out whatever
\* the file holds.
SnapshotFails == NeedsRegistry /\ Block("CG-CONFIG-UNAVAILABLE")

VariantsFail ==
    /\ NeedsRegistry
    /\ Loadable(version) /\ ~ PairsBuild(version)
    /\ Block("CG-SCANNER-ERROR")

\* _reject_registered_secret_in_protocol_fields and the keys of the protocol.
ProtocolHit(leaf) ==
    /\ leaf.field \in {"model", "name"}
    /\ \E s \in Secrets(registry) : Holds(leaf.text, s)

KeywordHit(leaf) ==
    /\ leaf.field = "keyword"
    /\ \E s \in Secrets(registry) : Holds(leaf.text, s)

RedactRegistered ==
    /\ At("snapshot") /\ stage # "result"
    /\ \A i \in DOMAIN request : ~ ProtocolHit(request[i]) /\ ~ KeywordHit(request[i])
    /\ request' = Rename(Redacted(request, registry))
    /\ rounds' = 0
    /\ Go("recovering")
    /\ UNCHANGED <<registry, history>>

RedactionRefused ==
    /\ At("snapshot") /\ stage # "result"
    /\ IF \E i \in DOMAIN request : ProtocolHit(request[i])
       THEN Block("CG-RESIDUAL-SECRET")
       ELSE (\E i \in DOMAIN request : KeywordHit(request[i]))
              /\ Block("CG-REDACTION-COLLISION")

\* _recover_residuals: one round.
Quarantine ==
    /\ At("recovering")
    /\ rounds < MaxRounds
    /\ \E i \in Findings(request, registry) :
         /\ Recoverable(request, i)
         /\ request' = With(request, i, {Quarantined})
    /\ rounds' = rounds + 1
    /\ Go("recovering")
    /\ UNCHANGED <<registry, history>>

CodeOf(i) == IF ScanFails(request[i].text) THEN "CG-SCANNER-ERROR" ELSE "CG-RESIDUAL-SECRET"

QuarantineRefused ==
    /\ At("recovering")
    /\ rounds < MaxRounds
    /\ \E i \in Findings(request, registry) :
         ~ Recoverable(request, i) /\ Block(CodeOf(i))

BreakAggregate ==
    /\ At("recovering")
    /\ rounds < MaxRounds
    /\ Findings(request, registry) = {} /\ Hits(request, registry) # {}
    /\ \E i \in AggregateBranch(request, registry) :
         request' = With(request, i, {Quarantined})
    /\ rounds' = rounds + 1
    /\ Go("recovering")
    /\ UNCHANGED <<registry, history>>

AggregateRefused ==
    /\ At("recovering")
    /\ rounds < MaxRounds
    /\ Findings(request, registry) = {} /\ Hits(request, registry) # {}
    /\ AggregateBranch(request, registry) = {}
    /\ Block("CG-RESIDUAL-SECRET")

BudgetSpentEarly ==                                   \* mutant
    /\ At("recovering")
    /\ rounds = MaxRounds
    /\ Block("CG-RESIDUAL-SECRET")
BudgetSpent ==
    /\ At("recovering")
    /\ rounds = MaxRounds /\ ~ FullyClean(request, registry)
    /\ \/ Findings(request, registry) = {} /\ Block("CG-RESIDUAL-SECRET")
       \/ \E i \in Findings(request, registry) : Block(CodeOf(i))

\* A clean request passes _final_residual_gate.
Pass ==
    /\ At("recovering")
    /\ FullyClean(request, registry)
    /\ calm' = IF stage = "request" THEN <<request, registry>> ELSE calm
    /\ Go("passed")
    /\ UNCHANGED <<request, registry, rounds, entered, original, since>>

-----------------------------------------------------------------------------
(* The entries and the host between them.                                  *)

Begin(st, r) ==
    /\ stage' = st
    /\ phase' = "entered"
    /\ request' = r
    /\ entered' = r
    /\ registry' = {}
    /\ rounds' = 0
    /\ since' = IF Loadable(version) THEN Secrets(Merged(version)) ELSE {}
    /\ UNCHANGED <<code, version>>

\* on_llm_request; a host may also go to on_llm_execution at once.
Call ==
    /\ At("idle")
    /\ \E r \in Requests, st \in {"request", "execution"} :
         Begin(st, r) /\ original' = r
    /\ UNCHANGED calm

\* The payload reaches on_llm_execution as on_llm_request returned it.
ExecutePrepared ==                                    \* mutant
    /\ At("passed") /\ stage = "request"
    /\ stage' = "execution"
    /\ since' = Secrets(Merged(version))
    /\ UNCHANGED <<phase, request, registry, rounds, code, version>>
    /\ UNCHANGED <<entered, original, calm>>
Execute ==
    /\ At("passed") /\ stage = "request"
    /\ Begin("execution", request)
    /\ UNCHANGED <<original, calm>>

\* Another middleware of the host puts a text into a message first.
ExecuteEdited ==
    /\ At("passed") /\ stage = "request"
    /\ \E i \in DOMAIN request, t \in Edits :
         LET edited == With(request, i, t)
         IN  /\ request[i].field = "content"
             /\ Begin("execution", edited)
             /\ original' = edited
    /\ calm' = <<>>

\* on_llm_execution answers the carrier of a block, the provider is not called.
AnswerBlock ==
    /\ At("blocked") /\ stage = "request"
    /\ stage' = "execution"
    /\ UNCHANGED <<phase, request, registry, rounds, code, version, history>>

\* next_call(redacted_request).
Send ==
    /\ At("passed") /\ stage = "execution"
    /\ Go("sent")
    /\ UNCHANGED <<request, registry, rounds, history>>

\* on_llm_execution without a callable next_call.
MissingNext ==
    /\ At("passed") /\ stage = "execution"
    /\ phase' = "blocked"
    /\ code' = "CG-SCANNER-ERROR"
    /\ UNCHANGED <<stage, request, registry, rounds, version, history>>

-----------------------------------------------------------------------------
(* on_transform_tool_result: the call first, then the result, one text with *)
(* the registered secrets replaced first.                                  *)

Receive ==
    /\ \E t \in Results :
         LET r == <<[msg |-> 0, role |-> "tool", field |-> "content", text |-> t]>>
         IN  Begin("result", r) /\ original' = r
    /\ UNCHANGED calm

\* The result is replaced by a fixed text.
Withhold ==
    /\ stage' = "result" /\ phase' = "blocked" /\ code' = "protected_path"
    /\ UNCHANGED <<request, registry, rounds, version, history>>

ToolReturns == At("idle") /\ \E c \in Calls : CallVerdict(c, TRUE) /\ Receive
ToolWithheld == At("idle") /\ \E c \in Calls : CallVerdict(c, FALSE) /\ Withhold

ProgramReturns ==
    /\ At("idle")
    /\ LookAtProgram
    /\ stage' = "result" /\ phase' = "looking"
    /\ UNCHANGED <<request, registry, rounds, code, version, history>>

LookOn == VisitStatement /\ UNCHANGED <<callVars, version, history>>

ProgramPasses == At("looking") /\ ProgramVerdict(TRUE) /\ Receive
ProgramWithheld == At("looking") /\ ProgramVerdict(FALSE) /\ Withhold

\* guard_tool_result; assert_zero_residue looks at the outcome.
Guarded(text) == KeylessText([field |-> "content", text |-> RedactedText(text, registry)])

Residue(text) ==
    \/ ScanFails(text) \/ KeyMaterial(text) \/ Withheld \in text
    \/ \E s \in Secrets(registry) : Holds(text, s)

GuardResult ==
    /\ At("snapshot") /\ stage = "result"
    /\ LET t == Guarded(request[1].text)
       IN  \/ /\ ~ Residue(t)
              /\ request' = With(request, 1, t)
              /\ Go("returned")
              /\ UNCHANGED <<registry, rounds, history>>
           \/ Residue(t) /\ Block("RESULT_GUARD_FAIL")

-----------------------------------------------------------------------------

\* The file is replaced; every load after this finds the new version.  Only
\* moments before a load matter: later in an entry nobody reads the file.  It
\* happens once, as First bounds it.
Rewrite ==
    /\ version \in First
    /\ phase \in {"entered", "keyless"} \/ (phase = "passed" /\ stage = "request")
    /\ \E v \in Version \ First :
         /\ version' = v
         /\ since' = IF Loadable(v) THEN since \cap Secrets(Merged(v)) ELSE {}
    /\ UNCHANGED <<callVars, entered, original, calm>>

Init ==
    /\ stage = "request" /\ phase = "idle"
    /\ request = <<>> /\ registry = {} /\ rounds = 0
    /\ code = "none" /\ version \in First
    /\ entered = <<>> /\ original = <<>>
    /\ since = {} /\ calm = <<>>
    /\ GuardInit

Prepare ==
    \/ RedactPrivateKeys \/ PrivateKeysRefused
    \/ TakeSnapshot \/ SnapshotFails \/ VariantsFail
    \/ RedactRegistered \/ RedactionRefused
    \/ Quarantine \/ QuarantineRefused
    \/ BreakAggregate \/ AggregateRefused
    \/ BudgetSpent \/ Pass

Provider ==
    \/ Call \/ Execute \/ ExecuteEdited \/ AnswerBlock \/ Send \/ MissingNext
    \/ GuardResult
    \/ Prepare
    \/ Rewrite

Tool ==
    \/ ToolReturns \/ ToolWithheld
    \/ ProgramReturns \/ LookOn \/ ProgramPasses \/ ProgramWithheld

Next == (Provider /\ UNCHANGED guardVars) \/ Tool

Spec == Init /\ [][Next]_vars

-----------------------------------------------------------------------------

\* Nothing that has been registered ever since the last entry of the guard
\* began, and no private key, is in what the provider or the model receives:
\* not in a string, not in a key, not in the request as it is serialised.
\* The registry is read in the middle of the entry, after another middleware
\* may have edited the request and while the file may be rewritten.
NothingRegisteredLeaves ==
    phase \in {"sent", "returned"} =>
        /\ \A s \in since :
             /\ \A i \in DOMAIN request : ~ Holds(request[i].text, s)
             /\ \A i, j \in DOMAIN request :
                  i # j => Half(s) \notin request[i].text \cap request[j].text
        /\ \A i \in DOMAIN request : request[i].field # "number" =>
             ~ KeyMaterial(request[i].text) /\ ~ ScanFails(request[i].text)

\* The result of a call that plainly reads a sensitive file (by whatever
\* spelling or link, by searching above it, or in one of the executions that a
\* program may have) never comes to the model ("protected-path tool results
\* never reach the model", hooks.py).
ProtectedFileWithheld == phase \in {"entered", "snapshot", "returned"} => ~ leaked

\* The current user's input, the system messages and the skeleton of the
\* protocol are delivered with what they said or, for key material without an
\* end and for keys that collide, with a mark that says so, or the request is blocked:
\* recovery isolates history only, in both preparations (the middleware's
\* "current last user message", with assistant and tool messages after it).
LastSaid(i) ==
    /\ original[i].role = "user"
    /\ ~ \E j \in DOMAIN original :
         original[j].role = "user" /\ original[j].msg > original[i].msg

Kept(i) ==
    \/ original[i].role = "system"
    \/ LastSaid(i)
    \/ original[i].field \in {"model", "name", "keyword"}

Harmless == {Half(s) : s \in Secret} \cup {Token, Removed}

CurrentInputKept ==
    phase = "sent" => \A i \in DOMAIN request : Kept(i) =>
        /\ Quarantined \in request[i].text => Quarantined \in original[i].text
        /\ \/ {Withheld, Renamed(i)} \cap request[i].text # {}
           \/ original[i].text \cap Harmless \subseteq request[i].text

\* A request whose only trouble is in at most MaxRounds leaves of its history, with
\* no secret torn in two places, is not blocked, except for want of a configuration:
\* the long task it belongs to goes on (the recovery's reason).
Trouble(r) ==
    {i \in DOMAIN r : \/ KeyMaterial(r[i].text) \/ ScanFails(r[i].text)
                      \/ \E m \in r[i].text : m.kind \in {"seam", "half"}
                      \/ /\ r[i].field \in {"model", "name", "keyword", "label", "number"}
                         /\ r[i].text # {}}

InHistory(r) ==
    /\ Cardinality(Trouble(r)) <= MaxRounds
    /\ \A i \in Trouble(r) :
         /\ i \notin CurrentInput(r)
         /\ r[i].role \in {"user", "assistant", "tool"}
         /\ r[i].field = "content"

\* No secret is torn in two places.
TornOnce(r) == \A s \in Secret : Cardinality({i \in DOMAIN r : Half(s) \in r[i].text}) <= 2

GaveUp ==
    /\ phase = "blocked" /\ stage # "result"
    /\ \/ code \in {"CG-RESIDUAL-SECRET", "CG-REDACTION-COLLISION"}
       \/ registry # {} /\ ~ FullyClean(request, registry)

BlockedForCause == GaveUp => ~ (InHistory(entered) /\ TornOnce(entered))

\* Residuals of the history that can be isolated are isolated (they are not when one
\* secret is torn in two places: no single leaf lowers the count of secrets found).
HistoryIsolated == GaveUp => ~ InHistory(entered)

\* What the first stage passed, the second passes unchanged, unless the host
\* edited it, the registry is another one or cannot be read, or there is no
\* next_call (the scanner's code on a clean request): preparing a request
\* is idempotent, so a task is not stopped by its own placeholders.
SecondPassQuiet ==
    /\ stage = "execution"
    /\ calm # <<>> /\ calm[1] = entered
    /\ registry \in {{}, calm[2]}
    =>
        /\ phase = "blocked" =>
             \/ code = "CG-CONFIG-UNAVAILABLE"
             \/ code = "CG-SCANNER-ERROR" /\ FullyClean(request, registry)
        /\ phase \in {"passed", "sent"} => request = calm[1]

=============================================================================
