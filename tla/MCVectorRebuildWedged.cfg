\* One process that may crash, two dimensions.
SPECIFICATION RebuildSpec
CONSTANTS
    Sources = {"docs"}
    Paths = {"a"}
    Contents = {"long", "short"}
    Bounds = {"small"}
    Positions <- MCPositions
    Texts <- MCTexts
    Split <- MCSplit
    Models = {"m"}
    Dimensions = {1, 2}
    None = None
    Connections = {c1}
    VectorCapable = {c1}
    MaxCalls = 1
    MaxRebuilds = 3
    FailPoints <- MCAnywhere
    c1 = c1
PROPERTIES
    RebuildNeverRefused
