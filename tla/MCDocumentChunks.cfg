\* Every text of up to four lines of twelve kinds, and of five lines of ten kinds.
SPECIFICATION MCSpec
CONSTANTS
    Headings <- MCHeadings
    FenceLines <- MCFenceLines
    TextLines <- MCTextLines
    MaxLines = 5
    Bounds = {2, 6}
    None = None
\* A text has been chunked when its last section is.
CHECK_DEADLOCK FALSE
INVARIANTS
    DocumentTypeOK
    ChunksPartitionDocument
    IdentitiesAreUnique
    NaturalPiecesStayWhole
    ChunksAreGreedy
    PathsFollowHeadings
    FencesAloneHideHeadings
