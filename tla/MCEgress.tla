------------------------------ MODULE MCEgress ------------------------------
(***************************************************************************)
(* A small instance of Egress: a conversation of six messages, in which    *)
(* two leaves hold anything, or three leaves of the history hold what      *)
(* recovery is for.                                                        *)
(***************************************************************************)
EXTENDS Egress, TLC

CONSTANTS s1, s2

MCEntry(n, s) == [name |-> n, secret |-> s]

MCBase == {MCEntry("base", s1)}

\* The file comes to register s2.  Two other versions give s1 a second name,
\* and variants that cannot be told apart; the last comes between two stages.
MCConfig == <<
    [entries |-> {}, loads |-> TRUE, builds |-> TRUE],
    [entries |-> {MCEntry("file", s2)}, loads |-> TRUE, builds |-> TRUE],
    [entries |-> {MCEntry("other", s1)}, loads |-> TRUE, builds |-> TRUE],
    [entries |-> {MCEntry("file", s2)}, loads |-> TRUE, builds |-> FALSE],
    [entries |-> {MCEntry("file", s2)}, loads |-> TRUE, builds |-> FALSE]>>

At0(m, r, f) == [msg |-> m, role |-> r, field |-> f, text |-> {}]

Conversation == <<
    At0(0, "none", "model"),
    At0(1, "system", "content"),
    At0(2, "user", "content"),
    At0(3, "assistant", "content"), At0(3, "assistant", "arguments"),
    At0(4, "tool", "entry"),
    At0(5, "user", "content"), At0(5, "user", "label"), At0(5, "user", "label"),
    At0(5, "user", "number"),
    At0(6, "tool", "content"), At0(6, "tool", "keyword")>>

MCText ==
    {{Plain(s2)}, {Seam(s1, s1)}, {Half(s1), Pem}, {Boundary}, {Opaque, Seam(s1, s2)}}

Dirty(P, T) == {[i \in DOMAIN Conversation |->
                  [Conversation[i] EXCEPT !.text = IF i \in DOMAIN f THEN f[i] ELSE {}]]
                : f \in [P -> T]}

OldContents == {3, 4, 6, 11}

\* The two keys of the message's dictionary are different.
TwoKeys == {r \in Dirty({8, 9}, MCText \cup {{Plain(s1)}, {Token}}) : r[8].text # r[9].text}

MCRequests ==
    (UNION {Dirty({i, j}, MCText) : i, j \in DOMAIN Conversation} \ Dirty({8, 9}, MCText))
      \cup TwoKeys
      \cup UNION {Dirty(P, {{Seam(s1, s1)}, {Opaque}}) :
                    P \in {Q \in SUBSET OldContents : Cardinality(Q) = 3}}

\* One secret, torn in two places of the history.
MCTorn == {[i \in 1..6 |->
    [At0(i, IF i = 6 THEN "user" ELSE "tool", "content")
      EXCEPT !.text = IF i \in {1, 2, 4, 5} THEN {Half(s1)} ELSE {}]]}

MCResults == MCText \cup {{Token}, {Plain(s1), Pem}}

MCEdits == {{Plain(s2)}}

-----------------------------------------------------------------------------
(* A home directory with its keys and its store, a working directory with  *)
(* links into both, and a public name below ssh_key that is a link to a    *)
(* private key.  The homes are in a directory that is itself named as one  *)
(* of plugins.                                                             *)

MCParent ==
    ("/plugins" :> "/") @@ ("/work" :> "/") @@ ("~" :> "/plugins")
    @@ [p \in {"~/.ssh", "~/.hermes"} |-> "~"]
    @@ [p \in {"~/.ssh/id_a", "~/.ssh/id_a.pub", "~/.ssh/notes", "~/.ssh/ssh_key"} |-> "~/.ssh"]
    @@ [p \in {"~/.ssh/ssh_key/k", "~/.ssh/ssh_key/k.pub"} |-> "~/.ssh/ssh_key"]
    @@ [p \in {"~/.hermes/credential-guard", "~/.hermes/plugins"} |-> "~/.hermes"]
    @@ ("~/.hermes/plugins/guard" :> "~/.hermes/plugins")
    @@ ("~/.hermes/plugins/guard/package" :> "~/.hermes/plugins/guard")
    @@ [p \in {"~/.hermes/credential-guard/credential-guard.json", "~/.hermes/credential-guard/notes"}
          |-> "~/.hermes/credential-guard"]
    @@ [p \in {"/work/a", "/work/b", "/work/credential-guard.json", "/work/readme", "/work/ssh"} |-> "/work"]
    @@ ("/work/ssh/k" :> "/work/ssh")

MCPath == DOMAIN MCParent \cup {"/"}

MCAbove[p \in MCPath] == IF p = "/" THEN {p} ELSE {p} \cup MCAbove[MCParent[p]]

MCLink ==
    ("~/.ssh/ssh_key/k.pub" :> "~/.ssh/ssh_key/k")
    @@ ("/work/a" :> "~/.ssh/id_a")
    @@ ("/work/b" :> "~/.hermes/credential-guard/credential-guard.json")
    @@ ("/work/ssh" :> "~/.ssh/ssh_key") @@ ("/work/ssh/k" :> "~/.ssh/ssh_key/k")

MCReal == [p \in MCPath |-> IF p \in DOMAIN MCLink THEN MCLink[p] ELSE p]

MCName ==
    ("~/.hermes/credential-guard/credential-guard.json" :> "credential-guard.json")
    @@ ("/work/credential-guard.json" :> "credential-guard.json")
    @@ ("~/.ssh/ssh_key" :> "ssh_key") @@ ("~/.hermes/credential-guard" :> "credential-guard")
    @@ ("/plugins" :> "plugins") @@ ("~/.hermes/plugins" :> "plugins")
    @@ ("~/.ssh/id_a" :> "id_a") @@ ("~/.ssh/id_a.pub" :> "id_a.pub")
    @@ ("~/.ssh/ssh_key/k.pub" :> "k.pub")
    @@ [p \in MCPath |-> "any"]

MCMentions == [path : MCPath, how : {"read", "token", "other"}]

MCCalls ==
    [tool : {"read", "search"}, paths : {{p} : p \in MCPath} \cup {{}, {"/work/readme", "/work/b"}}]
      \cup [tool : {"terminal"}, mentions : {{m} : m \in MCMentions}]
      \cup {[tool |-> "other"]}

\* The pieces of "~/.ssh/id_a" and "/work/a", and a whole harmless path.
MCLeads ==
    (<<"~/.ssh/", "id_a">> :> "~/.ssh/id_a") @@ (<<"/work/", "a">> :> "/work/a")
    @@ (<<"/work/readme">> :> "/work/readme")

MCExpr ==
    {Just(Str(<<s>>)) : s \in {"~/.ssh/", "id_a", "/work/readme"}}
      \cup {Just(Id("x")), Just(Other), Join(Id("x"), Id("y")), Join(Str(<<"/work/">>), Id("x")),
            Choose("dynamic", Str(<<"id_a">>), Str(<<"a">>)),
            Choose("true", Id("y"), Other), Choose("false", Id("y"), Str(<<"a">>))}

=============================================================================
