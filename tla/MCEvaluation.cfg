\* Every pair of rankings of four chunks, free requests or an evaluation; others commit.
SPECIFICATION MCSpec
CONSTANTS
    ChunkIds = {1, 2, 3, 4}
    Versions = {1, 2}
    RrfK = 60
    Spaces = {"s1"}
    SpaceDimension <- MCSpaceDimension
    MaxPublic = 2
    MaxInternal = 3
    Multiplier = 3
    Changes <- MCChanges
    MaxChanges = 1
    MaxRequests = 1
    Golden <- MCGolden
    Cutoffs = {2}
    None = None
\* The process stops when its requests are used up.
CHECK_DEADLOCK FALSE
INVARIANTS
    EvaluationTypeOK
    StatusIsHonest
    DominatedComesLater
    ReportMeasuresTheIndex
    ReportsNeedAnIndex
PROPERTIES
    EvaluationsReturn
