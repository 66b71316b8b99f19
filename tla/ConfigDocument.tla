--------------------------- MODULE ConfigDocument ---------------------------
(***************************************************************************)
(* What makes a configuration valid (parse_config_document of config.py,   *)
(* bindings.py), where the first fault is said to be, and what a valid one *)
(* shows to the model (build_catalog_document of target_catalog.py).       *)
(*                                                                         *)
(* A document is [top, credentials, bindings], the last two sequences in   *)
(* the order of the file.  What is wrong with an entry by itself is a set  *)
(* of names of checks: an entry's texts only matter for being there, for   *)
(* being equal and for lying inside one another.                           *)
(*                                                                         *)
(* A definition marked "mutant" is not part of the model: it is a wrong    *)
(* version of the definition below it, kept to test the properties.        *)
(***************************************************************************)
EXTENDS Naturals, Sequences, FiniteSets

CONSTANTS
    Documents,   \* documents that validate may be given
    Inside       \* Inside[t]: the texts that t contains, with t itself

VARIABLE checked  \* the document that was given to validate, and the verdict

-----------------------------------------------------------------------------
(* The checks of an entry, in order: a name, and the field that the        *)
(* diagnosis points at ("nowhere" is the whole file).                      *)

\* _validate_secret_string: the error has no place.
SecretString == <<"secret", "nowhere">>

\* _validate_credential
CredentialChecks(type) ==
    << <<"name", "nowhere">>, <<"object", "entry">>, <<"type", "type">>, <<"fields", "entry">> >>
      \o (IF type = "token" THEN << >> ELSE << <<"username", "username">> >>)
      \o << SecretString >>

\* _require_fields: "missing" stands for the first field that is missing.
FieldsOf(part, unknown, missing) == << <<unknown, part>>, <<missing, "missing">> >>

\* validate_binding; _require_approval and _resolve_cred
EntryChecks == << <<"name", "nowhere">>, <<"object", "entry">>, <<"type", "type">> >>
CommonChecks ==
    FieldsOf("entry", "unknown", "missing")
      \o << <<"approval", "approval">>, <<"credential", "credential_ref">> >>
Fit == <<"fit", "credential_ref">>

DnsHost    == <<"host", "target.host">>
ExactPath  == <<"paths", "request.allowed_paths">>
HeaderName == <<"header_name", "inject.header_name">>
TargetChecks ==
    << <<"target", "target">> >> \o FieldsOf("target", "target_unknown", "target_missing")
      \o << <<"scheme", "target.scheme">>, DnsHost, <<"port", "target.port">> >>

RequestChecks ==
    << <<"request", "request">> >> \o FieldsOf("request", "request_unknown", "request_missing")
      \o << <<"methods", "request.allowed_methods">>, ExactPath,
            <<"timeouts", "nowhere">>, <<"total_below_connect", "request">>,
            <<"body_limit", "nowhere">> >>

InjectChecks(kind) ==
    << <<"inject", "inject">>, <<"inject_type", "inject.type">> >>
      \o FieldsOf("inject", "inject_unknown", "inject_missing")
      \o << IF kind = "api_key_header" THEN HeaderName ELSE <<"location", "inject.location">>,
            Fit >>

ProgramPath   == <<"program", "program">>
FixedArgv     == <<"argv", "argv">>
EnvName       == <<"env_name", "env_name">>
StdinFormat   == <<"stdin_format", "stdin_format">>
ProcessLimits == <<"limits", "nowhere">>

\* _validate_process_env, _validate_stdin
ProcessChecks(type) ==
    << Fit, ProgramPath, FixedArgv,
       IF type = "stdin" THEN StdinFormat ELSE EnvName, ProcessLimits >>

BindingChecks(b) ==
    EntryChecks \o CommonChecks
      \o (IF b.type = "http" THEN TargetChecks \o RequestChecks \o InjectChecks(b.inject)
                             ELSE ProcessChecks(b.type))

\* What is wrong with a binding beside its own texts: nothing is known by its
\* reference, or a credential of another type than it takes.
TypeTaken(b) == IF b.type = "http" /\ b.inject = "basic" THEN "username_password" ELSE "token"

WrongBinding(b, d) ==
    b.wrong
      \cup (IF \E i \in DOMAIN d.credentials : d.credentials[i].name = b.ref
            THEN {} ELSE {"credential"})
      \cup (IF \E i \in DOMAIN d.credentials :
                   /\ d.credentials[i].name = b.ref
                   /\ d.credentials[i].type # TypeTaken(b)
            THEN {"fit"} ELSE {})

\* The documents are what a JSON object of the two parts can be: something is
\* wrong with an entry when one of its checks fails, with its type when that is
\* none of those known, and with an http binding that shows no text (it has no
\* method, no path and no host).
CheckNames(checks) == {checks[n][1] : n \in DOMAIN checks}

IsBinding(b) ==
    /\ b.wrong \subseteq CheckNames(BindingChecks(b))
    /\ b.type \in {"http", "process_env", "stdin"} \/ "type" \in b.wrong
    /\ b.type = "http" => b.texts # {} \/ b.wrong # {}

ASSUME DocumentsAssumption ==
    \A d \in Documents :
        /\ Len(d.credentials) \in Nat /\ DOMAIN d.credentials = 1..Len(d.credentials)
        /\ \A i \in DOMAIN d.credentials :
             d.credentials[i].wrong \subseteq CheckNames(CredentialChecks(d.credentials[i].type))
        /\ Len(d.bindings) \in Nat /\ DOMAIN d.bindings = 1..Len(d.bindings)
        /\ \A i \in DOMAIN d.bindings : IsBinding(d.bindings[i])

-----------------------------------------------------------------------------
(* The order of the whole.                                                 *)

Valid   == [part |-> "valid", name |-> "none", field |-> "none"]
Nowhere == [part |-> "nowhere", name |-> "none", field |-> "none"]
Place(part, name, field) ==
    IF field = "nowhere" THEN Nowhere ELSE [part |-> part, name |-> name, field |-> field]

Least(S) == CHOOSE n \in S : \A m \in S : n <= m

\* The first check that fails, of the first entry that has one.
FailedChecks(checks, wrong) == {n \in DOMAIN checks : checks[n][1] \in wrong}

FirstFault(part, entries, checks, wrong) ==
    LET bad == {i \in DOMAIN entries : FailedChecks(checks[i], wrong[i]) # {}}
        i   == Least(bad)
    IN  IF bad = {} THEN Valid
        ELSE Place(part, entries[i].name, checks[i][Least(FailedChecks(checks[i], wrong[i]))][2])

\* What is checked of each entry, and what is wrong with it.
CredentialsChecked(d) == [i \in DOMAIN d.credentials |-> CredentialChecks(d.credentials[i].type)]
CredentialsWrong(d)   == [i \in DOMAIN d.credentials |-> d.credentials[i].wrong]
BindingsChecked(d)    == [i \in DOMAIN d.bindings |-> BindingChecks(d.bindings[i])]
BindingsWrong(d)      == [i \in DOMAIN d.bindings |-> WrongBinding(d.bindings[i], d)]

SecretsOf(d) == {d.credentials[i].secret : i \in DOMAIN d.credentials}

SharedSecret(d) ==
    \E i, j \in DOMAIN d.credentials :
        i # j /\ d.credentials[i].secret = d.credentials[j].secret

NamesOf(entries) == {entries[i].name : i \in DOMAIN entries}

\* _reject_visible_strings_overlapping_secrets
VisibleTexts(d) == UNION {
    LET b == d.bindings[i]
    IN  {b.name, b.ref} \cup (IF b.type = "http" THEN b.texts ELSE {})
    : i \in DOMAIN d.bindings}

OverlapAsEqual(d) == VisibleTexts(d) \cap SecretsOf(d) # {}        \* mutant
Overlap(d) == \E t \in VisibleTexts(d) : Inside[t] \cap SecretsOf(d) # {}

\* _loads_strict: one JSON value without a duplicate key, an object of the two
\* parts and nothing else.
LoadsStrict(d) == d.top

\* parse_config_document
Diagnosis(d) ==
    LET credentials == FirstFault("credentials", d.credentials,
                                  CredentialsChecked(d), CredentialsWrong(d))
        bindings == FirstFault("bindings", d.bindings, BindingsChecked(d), BindingsWrong(d))
    IN  IF ~ LoadsStrict(d) THEN Nowhere
        ELSE IF credentials # Valid THEN credentials
        ELSE IF SharedSecret(d) \/ NamesOf(d.credentials) \cap SecretsOf(d) # {} THEN Nowhere
        ELSE IF bindings # Valid THEN bindings
        ELSE IF NamesOf(d.bindings) \cap SecretsOf(d) # {} \/ Overlap(d) THEN Nowhere
        ELSE Valid

\* run_validate: read-only, whatever the running host holds.
NoDocument ==
    [document |-> [top |-> FALSE, credentials |-> << >>, bindings |-> << >>], verdict |-> Valid]

Validate ==
    \E d \in Documents : checked' = [document |-> d, verdict |-> Diagnosis(d)]

-----------------------------------------------------------------------------
(* The sidecar's document, and what its reader asks of it.                 *)

Catalog(d) == {[name   |-> d.bindings[i].name,
                type   |-> d.bindings[i].type,
                ref    |-> d.bindings[i].ref,
                texts  |-> IF d.bindings[i].type = "http" THEN d.bindings[i].texts ELSE {}]
               : i \in DOMAIN d.bindings}

\* The names that NAME_RE takes, by the checks that went over them.
GoodNames(d) ==
    {e.name : e \in {f \in {d.credentials[i] : i \in DOMAIN d.credentials}
                           \cup {d.bindings[i] : i \in DOMAIN d.bindings}
                      : "name" \notin f.wrong}}

\* _validate_binding_entry
CatalogLoads(d) ==
    \A e \in Catalog(d) :
        /\ {e.name, e.ref} \subseteq GoodNames(d)
        /\ e.type \in {"http", "process_env", "stdin"}
        /\ e.type = "http" => e.texts # {}

\* What the descriptions of the two tools show of the sidecar: a line for each
\* of their bindings, and fewer lines when a description is too long.
HttpLines(d)    == {{e.name, e.ref} \cup e.texts : e \in {f \in Catalog(d) : f.type = "http"}}
ProcessLines(d) == {{e.name, e.ref} : e \in {f \in Catalog(d) : f.type # "http"}}

-----------------------------------------------------------------------------

\* It can be used and shown: every binding finds a credential of the type that
\* its injection takes, no secret stands for two credentials, none occurs in a
\* line that the model sees, and the sidecar's reader takes it.
Safe(d) ==
    /\ \A i \in DOMAIN d.bindings : \E j \in DOMAIN d.credentials :
         /\ d.credentials[j].name = d.bindings[i].ref
         /\ d.credentials[j].type = TypeTaken(d.bindings[i])
    /\ Cardinality(SecretsOf(d)) = Len(d.credentials)
    /\ \A line \in HttpLines(d) \cup ProcessLines(d) : \A t \in line :
         Inside[t] \cap SecretsOf(d) = {}
    /\ CatalogLoads(d)

\* The entry is at fault, and no entry of its part is before it.
FirstAtFault(entries, name, wrong) ==
    \E i \in DOMAIN entries :
        /\ entries[i].name = name /\ wrong[i] # {}
        /\ \A j \in 1..i - 1 : wrong[j] = {}

\* A document that validates is safe to use and to show; one that does not is
\* refused for a fault that it has, and a place that the diagnosis names is the
\* first entry with a fault, a binding's only when no credential has one.
VerdictRight ==
    checked # NoDocument =>
        LET d == checked.document
            v == checked.verdict
            sound == \A i \in DOMAIN d.credentials : d.credentials[i].wrong = {}
        IN  /\ v = Valid => Safe(d)
            /\ v.part = "credentials" => FirstAtFault(d.credentials, v.name, CredentialsWrong(d))
            /\ v.part = "bindings" =>
                 sound /\ FirstAtFault(d.bindings, v.name, BindingsWrong(d))
            /\ v = Nowhere =>
                 \/ ~ d.top \/ ~ sound \/ SharedSecret(d) \/ Overlap(d)
                 \/ (NamesOf(d.credentials) \cup NamesOf(d.bindings)) \cap SecretsOf(d) # {}
                 \/ \E i \in DOMAIN d.bindings : d.bindings[i].wrong # {}

=============================================================================
