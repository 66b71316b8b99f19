\* As many rounds of recovery as there are troubled leaves.
CONSTANTS
    s1 = s1
    s2 = s2
    Secret = {s1, s2}
    Base <- MCBase
    Config <- MCConfig
    First = {1, 3, 4}
    Requests <- MCTorn
    Results <- MCResults
    Edits <- MCEdits
    MaxRounds = 4
    Path <- MCPath
    Above <- MCAbove
    Real <- MCReal
    Name <- MCName
    Home = "~"
    Ssh = "~/.ssh"
    Profile = "~/.hermes"
    Package = "~/.hermes/plugins/guard/package"
    Exists <- MCPath
    KeyName = {"id_a"}
    PublicName = {"id_a.pub", "k.pub"}
    KeyDir = "ssh_key"
    PluginsDir = "plugins"
    StoreDir = "credential-guard"
    StoreName = {"credential-guard.json"}
    Cwd = "/work"
    Calls <- MCCalls
    Leads <- MCLeads
    Var = {"x", "y"}
    Reader = {"open", "alias"}
    Builtin = {"open"}
    Piece = {"~/.ssh/", "id_a", "/work/", "a", "/work/readme"}
    Expr <- MCExpr
    MaxCombos = 2
    MaxStatements = 5
SPECIFICATION Spec
\* A call ends, and the host's next call is another behaviour.
CHECK_DEADLOCK FALSE
INVARIANTS
    HistoryIsolated
