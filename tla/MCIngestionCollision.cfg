\* Two files with one normalized path.
SPECIFICATION Spec
CONSTANTS
    Processes = {p1}
    Files = {"f1", "f2"}
    Paths = {"a/b.md"}
    PathOf <- MCOnePath
    Contents = {"x", "y"}
    BoundOf <- MCBoundOf
    MaxEdits = 0
    MaxRuns = 2
    None = None
    Unreadable = Unreadable
    Mismatch = Mismatch
    p1 = p1
\* Everything stops when edits and runs are used up.
CHECK_DEADLOCK FALSE
PROPERTIES
    DiscoveredIsCounted
