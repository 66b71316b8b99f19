\* Two rounds of recovery, so that a third troubled leaf exhausts the budget.
CONSTANTS
    s1 = s1
    s2 = s2
    Secret = {s1, s2}
    Base <- MCBase
    Config <- MCConfig
    First = {1, 3, 4}
    Requests <- MCRequests
    Results <- MCResults
    Edits <- MCEdits
    MaxRounds = 2
    Path <- MCPath
    Above <- MCAbove
    Real <- MCReal
    Name <- MCName
    Home = "~"
    Ssh = "~/.ssh"
    Profile = "~/.hermes"
    Package = "~/.hermes/plugins/guard/package"
    Exists <- MCPath
    KeyName = {"id_a"}
    PublicName = {"id_a.pub", "k.pub"}
    KeyDir = "ssh_key"
    PluginsDir = "plugins"
    StoreDir = "credential-guard"
    StoreName = {"credential-guard.json"}
    Cwd = "/work"
    Calls <- MCCalls
    Leads <- MCLeads
    Var = {"x", "y"}
    Reader = {"open", "alias"}
    Builtin = {"open"}
    Piece = {"~/.ssh/", "id_a", "/work/", "a", "/work/readme"}
    Expr <- MCExpr
    MaxCombos = 2
    MaxStatements = 5
SPECIFICATION Spec
\* A call ends, and the host's next call is another behaviour.
CHECK_DEADLOCK FALSE
INVARIANTS
    NothingRegisteredLeaves
    ProtectedFileWithheld
    BindingsCover
    CurrentInputKept
    BlockedForCause
    SecondPassQuiet
