\* Two processes that ingest and rebuild, with crashes and two dimensions.
SPECIFICATION FairRebuildSpec
CONSTANTS
    Sources = {"docs"}
    Paths = {"a"}
    Contents = {"long", "short"}
    Bounds = {"small"}
    Positions <- MCPositions
    Texts <- MCTexts
    Split <- MCSplit
    Models = {"m"}
    Dimensions = {1, 2}
    None = None
    Connections = {c1, c2}
    VectorCapable = {c1, c2}
    MaxCalls = 2
    MaxRebuilds = 2
    FailPoints <- MCAnywhere
    c1 = c1
    c2 = c2
INVARIANTS
    RebuildTypeOK
    VectorsShareOneSpace
    LexicalIndexUndisturbed
PROPERTIES
    RebuildCoversWhatItRead
    RebuildsReturn
