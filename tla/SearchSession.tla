---------------------------- MODULE SearchSession ----------------------------
(***************************************************************************)
(* A process that serves searches (KnowledgeSearch) over the database that *)
(* other processes sync and rebuild (VectorRebuild): each read of a        *)
(* request sees the tables as they are committed at that moment.           *)
(*                                                                         *)
(* The rankings are computed from the rows of chunk_fts and vec_chunks     *)
(* that join with chunks.  chunk_fts ranks chunks in one fixed order and   *)
(* all vectors are equally near: nothing said here depends on an order.    *)
(***************************************************************************)
EXTENDS VectorRebuild, SequencesExt

CONSTANTS
    ChunkOrder,  \* every chunk, as the tie-break of the fusion orders them
    Matching,    \* the chunk texts the query matches lexically
    RrfK, MaxPublic, MaxInternal, Multiplier, MaxRequests  \* of KnowledgeSearch

ASSUME SessionAssumption ==
    /\ ChunkOrder \in Seq(Chunks)
    /\ ToSet(ChunkOrder) = Chunks /\ IsInjective(ChunkOrder)
    /\ Matching \subseteq Texts
    /\ MaxPublic \in Nat \ {0} /\ MaxInternal \in Nat /\ Multiplier \in Nat \ {0}
    /\ MaxPublic < MaxInternal
    /\ MaxRequests \in Nat

VARIABLES
    session, reading, request, lexical, vector, used, answer, requests,
              \* of KnowledgeSearch, where reading is called pc
    steady,   \* no commit between the first read of the request and the last
    served    \* since the request began its index has been in service, and
              \* nobody was rebuilding it for another space

readerVars == <<session, reading, request, lexical, vector, used, answer, requests>>
sessionVars == <<allVars, readerVars, steady, served>>

HasChunk(i) == db.chunks[ChunkOrder[i]] # None

\* A match for each row of chunk_fts that matches and joins with chunks.
LexicalRanking ==
    LET texts(i) == db.fts[ChunkOrder[i]]
        matches(i) == {r \in DOMAIN texts(i) : texts(i)[r] \in Matching}
    IN  FlattenSeq([i \in DOMAIN ChunkOrder |->
                       IF HasChunk(i) THEN [r \in 1..Cardinality(matches(i)) |-> i] ELSE <<>>])

\* Nearest neighbours: every vector there is, that joins with chunks.
VectorRanking ==
    FlattenSeq([i \in DOMAIN ChunkOrder |->
                   IF HasChunk(i) /\ db.vec[ChunkOrder[i]] # None THEN <<i>> ELSE <<>>])

Index ==
    [lexical   |-> LexicalRanking,
     vector    |-> VectorRanking,
     tied      |-> 2..Len(VectorRanking),
     version   |-> [i \in DOMAIN ChunkOrder |-> db.chunks[ChunkOrder[i]]],
     space     |-> IF db.state = None THEN None ELSE db.state.fingerprint,
     dimension |-> db.vecDim]

Reader ==
    INSTANCE KnowledgeSearch
        WITH ChunkIds <- DOMAIN ChunkOrder, Versions <- Texts,
             Spaces <- Fingerprints, SpaceDimension <- [f \in Fingerprints |-> f[2]],
             Changes <- {}, MaxChanges <- 0,
             index <- Index, changes <- 0, began <- 0, pc <- reading

\* The serving process has a provider from the start.
SessionInit ==
    /\ RebuildInit
    /\ session \in Fingerprints
    /\ reading = "idle" /\ request = None
    /\ lexical = <<>> /\ vector = <<>> /\ used = None
    /\ answer = Reader!NoAnswer
    /\ requests = 0
    /\ steady = TRUE /\ served = FALSE

----------------------------------------------------------------------------

\* Nobody is rebuilding the index for a space other than the reader's.
OnlyRefreshing ==
    \A c \in Connections : step[c] # "idle" => EmbeddingFingerprint(provider[c]) = session

InService == ActiveFingerprint = session /\ OnlyRefreshing

BeginRequest(strategy, max) ==
    /\ answer = Reader!NoAnswer
    /\ UNCHANGED allVars
    /\ Reader!Search(strategy, max)
    /\ steady' = TRUE
    /\ served' = InService

\* A name that is no RetrievalStrategy: search_knowledge raises before it
\* gets to its try.
RejectStrategy ==
    /\ reading = "idle" /\ answer = Reader!NoAnswer
    /\ requests < MaxRequests
    /\ requests' = requests + 1
    /\ answer' = Reader!Without("ValueError")
    /\ UNCHANGED <<allVars, session, reading, request, lexical, vector, used, steady, served>>

ReadLexical == UNCHANGED allVars /\ Reader!ReadLexical /\ steady' = TRUE /\ UNCHANGED served

Refuse == UNCHANGED allVars /\ Reader!Refuse /\ UNCHANGED <<steady, served>>
CheckVectorState == UNCHANGED allVars /\ Reader!CheckVectorState /\ UNCHANGED <<steady, served>>
RejectVectorState == UNCHANGED allVars /\ Reader!RejectVectorState /\ UNCHANGED <<steady, served>>
ReadVectors == UNCHANGED allVars /\ Reader!ReadVectors /\ UNCHANGED <<steady, served>>
RejectQuery == UNCHANGED allVars /\ Reader!RejectQuery /\ UNCHANGED <<steady, served>>
FailRead == UNCHANGED allVars /\ Reader!FailRead /\ UNCHANGED <<steady, served>>
Answer == UNCHANGED allVars /\ Reader!Answer /\ UNCHANGED <<steady, served>>
FailFusion == UNCHANGED allVars /\ Reader!FailFusion /\ UNCHANGED <<steady, served>>

\* search_knowledge returns the answer, or raises: a ToolError for what it
\* expects, and whatever it was for anything else.
Deliver ==
    /\ reading = "idle" /\ answer # Reader!NoAnswer
    /\ answer' = Reader!NoAnswer /\ request' = None
    /\ steady' = TRUE /\ served' = FALSE
    /\ UNCHANGED <<allVars, session, reading, lexical, vector, used, requests>>

\* The other processes go on.
OthersStep ==
    /\ RebuildNext
    /\ UNCHANGED readerVars
    /\ steady' = (steady /\ (reading = "idle" \/ db' = db))
    /\ served' = (served /\ OnlyRefreshing')

SessionNext ==
    \/ OthersStep
    \/ \E strategy \in Reader!Strategies, max \in 0..MaxPublic + 1 : BeginRequest(strategy, max)
    \/ RejectStrategy
    \/ Refuse \/ ReadLexical \/ CheckVectorState \/ RejectVectorState \/ ReadVectors
    \/ RejectQuery \/ FailRead \/ Answer \/ FailFusion \/ Deliver

SessionSpec == SessionInit /\ [][SessionNext]_sessionVars

----------------------------------------------------------------------------

\* "A component retriever violated the contract fusion relies on"
\* (HybridFusionError) is what a caller hears only where a commit fell between
\* two reads of the request: the two components of a hybrid search never
\* disagree, nor repeat a chunk, of tables as they are at one moment, whatever
\* syncs, rebuilds and crashes those have seen.
FusionFailuresFollowCommits ==
    [][Deliver /\ answer.status = "HybridFusionError" => ~steady]_sessionVars

\* Ingestions, and rebuilds with the model the index already has, are not
\* noticed by searches: a request that begins with an index in service finds
\* it neither missing, incompatible nor of another dimension, and its vector
\* read ranks every stored chunk, up to its limit.  (Any SELECT may fail for
\* a reason of its own, a lock among them: that is FailRead.)
RefreshesKeepServing ==
    [][served =>
        /\ ~RejectVectorState /\ ~RejectQuery
        /\ ReadVectors =>
              Len(vector') = Min({Reader!ComponentLimit,
                                  Cardinality({i \in DOMAIN ChunkOrder : HasChunk(i)})})
      ]_sessionVars

\* "a query vector from a different provider/model is rejected rather than
\* compared against vectors from a different embedding space"
\* (search_vector, docstring).
SearchStaysInItsSpace == Reader!SearchStaysInItsSpace
=============================================================================
