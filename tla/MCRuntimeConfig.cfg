\* Loads and replacements of the file in every order, under the fairness of the
\* threads; version 2 is invalid.
CONSTANTS
    l1 = l1
    l2 = l2
    w1 = w1
    w2 = w2
    Loader = {l1, l2}
    Writer = {w1, w2}
    MaxPolls = 1
    MaxVersion = 3
    Invalid = {2}
    MaxGeneration = 2
SPECIFICATION FairSpec
\* The bounds on versions and generations stop the system.
CHECK_DEADLOCK FALSE
INVARIANTS
    TypeOK
    FileWhole
    PublishedIsOneVersion
PROPERTIES
    PublishedWhenCurrent
    FileStillForHolders
    WaitsEnd
