\* Two sources of two files, two models, two processes of which one has
\* sqlite-vec.
SPECIFICATION MCSpec
CONSTANTS
    Sources = {"docs", "lib"}
    Paths = {"a", "b"}
    Contents = {"long", "short"}
    Bounds = {"small", "large"}
    Positions <- MCPositions
    Texts <- MCTexts
    Split <- MCSplit
    Models = {"m1", "m2"}
    Dimensions = {1}
    None = None
    Connections = {c1, c2}
    VectorCapable = {c1}
    MaxCalls = 2
INVARIANTS
    TypeOK
    StoredChunksAreCurrent
    LexicalIndexAgrees
    VectorIndexAgrees
PROPERTIES
    CountsDescribeCommit
    CommitsAreSourceScoped
    ImplementsKnowledgeBase
    CallsReturn
CONSTANTS
    c1 = c1
    c2 = c2
