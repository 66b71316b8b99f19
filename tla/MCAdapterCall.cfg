\* One program with one descendant and one stream; one request to a host of
\* two addresses.
CONSTANTS
    k1 = k1
    Kid = {k1}
    Stream = {"stdout"}
    MaxOutput = 2
    PipeMax = 1
    Timeout = 1
    KillWait = 1
    Total = 2
    Connect = 1
    Addresses = 2
    MaxBody = 2
    Piece = 2
    Kind = {"process_env", "stdin", "http"}
    MaxEdits = 2
SPECIFICATION FairSpec
CHECK_DEADLOCK FALSE
INVARIANTS
    CredentialGone
    NothingLost
    RunsWhatWasApproved
    LateIsRefused
PROPERTIES
    AdapterReturns
