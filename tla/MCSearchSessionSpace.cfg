\* Another process rebuilds with another model between the check and the query.
SPECIFICATION SessionSpec
CONSTANTS
    Sources = {"docs"}
    Paths = {"a"}
    Contents = {"long"}
    Bounds = {"small"}
    Positions <- MCPositions
    Texts <- MCTexts
    Split <- MCSplit
    Models = {"m1", "m2"}
    Dimensions = {1}
    None = None
    Connections = {c1}
    VectorCapable = {c1}
    MaxCalls = 1
    MaxRebuilds = 2
    FailPoints <- MCNowhere
    c1 = c1
    ChunkOrder <- MCChunkOrder
    Matching <- MCMatching
    RrfK = 60
    MaxPublic = 1
    MaxInternal = 3
    Multiplier = 2
    MaxRequests = 1
INVARIANTS
    SearchStaysInItsSpace
