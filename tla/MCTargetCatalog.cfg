\* A process that registers or refreshes, two writers, an edit by hand, and
\* documents with at most two credentials and two bindings.
CONSTANTS
    l1 = l1
    w1 = w1
    w2 = w2
    Loader = {l1}
    Writer = {w1, w2}
    MaxPolls = 1
    MaxVersion = 3
    MaxEdits = 1
    Documents <- MCDocuments
    Inside <- MCInside
SPECIFICATION Spec
SYMMETRY Symmetry
\* The bound on the versions stops the writer.
CHECK_DEADLOCK FALSE
INVARIANTS
    OkMeansRefreshed
    CatalogTrue
    VerdictRight
PROPERTIES
    ShownIsOfTheFile
