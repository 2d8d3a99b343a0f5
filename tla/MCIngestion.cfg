\* Two processes, two files, edits while they run.
SPECIFICATION FairSpec
CONSTANTS
    Processes = {p1, p2}
    Files = {"a", "b"}
    Paths = {"a", "b"}
    PathOf <- MCPathOf
    Contents = {"x", "y"}
    BoundOf <- MCBoundOf
    MaxEdits = 2
    MaxRuns = 3
    None = None
    Unreadable = Unreadable
    Mismatch = Mismatch
    p1 = p1
    p2 = p2
\* Everything stops when edits and runs are used up.
CHECK_DEADLOCK FALSE
INVARIANTS
    TypeOK
PROPERTIES
    CommitsReflectUntouchedFiles
    UntouchedRunsChangeNothing
    RunsReturn
