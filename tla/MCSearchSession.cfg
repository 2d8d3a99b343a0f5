\* One process that searches, one that ingests and rebuilds and may crash, two models and dimensions.
SPECIFICATION MCSpec
CONSTANTS
    Sources = {"docs"}
    Paths = {"a"}
    Contents = {"long", "short", "blank"}
    Bounds = {"small"}
    Positions <- MCPositions
    Texts <- MCTexts
    Split <- MCSplit
    Models = {"m1", "m2"}
    Dimensions = {1, 2}
    None = None
    Connections = {c1}
    VectorCapable = {c1}
    MaxCalls = 2
    MaxRebuilds = 3
    FailPoints <- MCNoGap
    c1 = c1
    ChunkOrder <- MCChunkOrder
    Matching <- MCMatching
    RrfK = 60
    MaxPublic = 1
    MaxInternal = 3
    Multiplier = 2
    MaxRequests = 1
PROPERTIES
    RefusedOnlyWhenTorn
    ImplementsKnowledgeBase
    FusionFailuresFollowCommits
    RefreshesKeepServing
