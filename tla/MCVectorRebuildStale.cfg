\* Two processes without crashes, one dimension.
SPECIFICATION RebuildSpec
CONSTANTS
    Sources = {"docs"}
    Paths = {"a"}
    Contents = {"long", "short"}
    Bounds = {"small"}
    Positions <- MCPositions
    Texts <- MCTexts
    Split <- MCSplit
    Models = {"m"}
    Dimensions = {1}
    None = None
    Connections = {c1, c2}
    VectorCapable = {c1, c2}
    MaxCalls = 2
    MaxRebuilds = 1
    FailPoints <- MCNowhere
    c1 = c1
    c2 = c2
INVARIANTS
    VectorsMatchText
