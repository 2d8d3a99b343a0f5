\* Two writable processes and a read-only one, with crashes.
SPECIFICATION FairSpec
CONSTANTS
    Openers = {p1, p2}
    Readers = {r1}
    OldChunks = {"k1", "k2"}
    FirstVersions = {0, 1, 2, 3, 4}
    MaxOpens = 5
    None = None
    p1 = p1
    p2 = p2
    r1 = r1
\* Processes stop when their attempts are used up.
CHECK_DEADLOCK FALSE
INVARIANTS
    TypeOK
    CurrentVersionIsComplete
    ReadyMeansComplete
PROPERTIES
    OpensReturn
    FirstOpenSucceeds
