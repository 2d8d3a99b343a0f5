--------------------------- MODULE KnowledgeSearch --------------------------
(***************************************************************************)
(* KnowledgeService.search and what it calls, for one request at a time of *)
(* a reading process, while other processes commit syncs and rebuilds.     *)
(*                                                                         *)
(* Every SELECT is a read transaction of its own: lexical search, the      *)
(* look at vector_index_state and the nearest-neighbour query of one       *)
(* request can see three different states of the database.                 *)
(***************************************************************************)
EXTENDS RankFusion

CONSTANTS
    Spaces,      \* embedding fingerprints
    SpaceDimension, \* the dimension each of them includes
    MaxPublic,   \* MAX_PUBLIC_RESULTS
    MaxInternal, \* MAX_RESULTS of the retrieval components
    Multiplier,  \* _CANDIDATE_MULTIPLIER
    Changes,     \* index records other processes may commit
    MaxChanges,  \* bound: commits by other processes in a behaviour
    MaxRequests, \* bound: requests in a behaviour
    None

ASSUME SearchAssumption ==
    /\ MaxPublic \in Nat \ {0} /\ MaxInternal \in Nat /\ Multiplier \in Nat \ {0}
    /\ MaxPublic < MaxInternal
    /\ MaxChanges \in Nat /\ MaxRequests \in Nat
    /\ SpaceDimension \in [Spaces -> Nat \ {0}]
    /\ None \notin Spaces /\ None \notin Versions
    /\ Versions # {}

VARIABLES
    index,    \* committed: how the stored chunks rank for the query, which
              \* places of the vector ranking are tied (as near as the place
              \* before), the version of each chunk (None: not stored), the
              \* recorded space (None: not built), the dimension of vec_chunks
              \* (0: no table)
    changes,  \* commits by others so far
    session,  \* the embedding space of the configured provider, or None
    pc,       \* where the request is
    request,  \* its strategy and max_results
    began,    \* value of changes when it began
    lexical,  \* what its lexical read returned
    vector,   \* what its vector read returned
    used,     \* the space the vectors of that read belong to
    answer,   \* the RetrievalResult, or the error it ended with, as status
    requests  \* requests so far

vars == <<index, changes, session, pc, request, began, lexical, vector, used,
          answer, requests>>

Strategies == {"lexical", "vector", "hybrid"}
Errors == {"InvalidQueryError", "VectorIndexUnavailableError",
           "VectorIndexIncompatibleError", "HybridFusionError",
           "IndexUnavailableError", "EmbeddingError", "sqlite3.Error"}

Without(status) == [status |-> status, results |-> <<>>, truncated |-> FALSE]
NoAnswer == Without("none")

\* Orders of some of the chunks: no chunk is ranked twice, for chunk_fts
\* has one row and vec_chunks at most one per chunk (see SourceSync).
Rankings ==
    UNION {{r \in [1..n -> ChunkIds] : \A i, j \in 1..n : r[i] = r[j] => i = j}
              : n \in 0..Cardinality(ChunkIds)}

IndexRecords ==
    [lexical : Rankings, vector : Rankings, tied : SUBSET (2..Cardinality(ChunkIds)),
     version : [ChunkIds -> Versions \cup {None}],
     space : Spaces \cup {None},
     dimension : {SpaceDimension[s] : s \in Spaces} \cup {0}]

Ranked(ranking) == {ranking[i] : i \in DOMAIN ranking}

\* Equally near chunks rank as ORDER BY has them: by path, ordinal and id.
TiesInOrder(ranking, tied) ==
    \A i \in tied : i \in 2..Len(ranking) /\ ranking[i - 1] < ranking[i]

\* The joins with chunks return stored chunks only, and vectors need a table.
IsIndex(x) ==
    /\ x \in IndexRecords
    /\ TiesInOrder(x.vector, x.tied)
    /\ \A c \in Ranked(x.lexical) \cup Ranked(x.vector) : x.version[c] # None
    /\ x.dimension = 0 => x.vector = <<>>

ASSUME ChangesAssumption == \A x \in Changes : IsIndex(x)

\* The versions the behaviour starts with, whichever they are.
FirstVersion == [c \in ChunkIds |-> CHOOSE v \in Versions : TRUE]

Requests == [strategy : Strategies, max : Nat]

TypeOK ==
    /\ index \in IndexRecords
    /\ changes \in 0..MaxChanges
    /\ session \in Spaces \cup {None}
    /\ pc \in {"idle", "lexical", "vectorState", "vector", "answer"}
    /\ request \in Requests \cup {None}
    /\ began \in 0..MaxChanges
    /\ lexical \in Seq(Matches) /\ vector \in Seq(Matches)
    /\ used \in Spaces \cup {None}
    /\ answer.status \in {"none", "empty", "partial", "success"} \cup Errors
    /\ answer.results \in Seq(ChunkIds)
    /\ answer.truncated \in BOOLEAN
    /\ requests \in 0..MaxRequests

\* An index in service, or not built yet; commits may leave a torn one.
Init ==
    /\ \E l, v \in Rankings, space \in Spaces \cup {None} : \E tied \in SUBSET (2..Len(v)) :
          /\ space = None => v = <<>>
          /\ TiesInOrder(v, tied)
          /\ index = [lexical |-> l, vector |-> v, tied |-> tied, version |-> FirstVersion,
                      space |-> space,
                      dimension |-> IF space = None THEN 0 ELSE SpaceDimension[space]]
    /\ changes = 0
    /\ session \in Spaces \cup {None}
    /\ pc = "idle" /\ request = None /\ began = 0
    /\ lexical = <<>> /\ vector = <<>> /\ used = None
    /\ answer = NoAnswer
    /\ requests = 0

----------------------------------------------------------------------------

readVars == <<index, changes, session, requests>>

End(result) ==
    /\ pc' = "idle"
    /\ answer' = result
    /\ lexical' = <<>> /\ vector' = <<>> /\ used' = None

\* Mutant: exactly what is asked for is requested.
ProbeNothing == request.max

\* One more hit than asked for is requested, to detect truncation.
Probe == request.max + 1

\* What HybridRetriever asks of each component.
CandidateLimit(maxResults) ==
    IF maxResults * Multiplier < MaxInternal THEN maxResults * Multiplier ELSE MaxInternal

ComponentLimit ==
    IF request.strategy = "hybrid" THEN CandidateLimit(Probe) ELSE Probe

Begin(strategy, max) ==
    /\ pc = "idle"
    /\ request' = [strategy |-> strategy, max |-> max]
    /\ began' = changes
    /\ answer' = NoAnswer
    /\ pc' = IF strategy = "vector" THEN "vectorState" ELSE "lexical"
    /\ UNCHANGED <<index, changes, session, lexical, vector, used>>

Search(strategy, max) ==
    /\ requests < MaxRequests
    /\ requests' = requests + 1
    /\ Begin(strategy, max)

\* Bounds are checked first, then that a retriever is configured.
Refused ==
    \/ request.max = 0 \/ request.max > MaxPublic
    \/ request.strategy # "lexical" /\ session = None

Refuse ==
    /\ pc \in {"lexical", "vectorState"} /\ lexical = <<>>
    /\ Refused
    /\ End(Without(IF request.max = 0 \/ request.max > MaxPublic THEN "InvalidQueryError"
                   ELSE "VectorIndexUnavailableError"))
    /\ UNCHANGED <<readVars, request, began>>

\* Rows of a ranking as the joins with chunks return them.
Read(ranking) ==
    [i \in DOMAIN ranking |-> [chunk |-> ranking[i], version |-> index.version[ranking[i]]]]

ReadLexical ==
    /\ pc = "lexical"
    /\ ~Refused
    /\ lexical' = Prefix(Read(index.lexical), ComponentLimit)
    /\ pc' = IF request.strategy = "hybrid" THEN "vectorState" ELSE "answer"
    /\ UNCHANGED <<readVars, request, began, vector, used, answer>>

\* search_vector: the recorded fingerprint must be the provider's.
CheckVectorState ==
    /\ pc = "vectorState"
    /\ ~Refused
    /\ index.space = session
    /\ pc' = "vector"
    /\ UNCHANGED <<readVars, request, began, lexical, vector, used, answer>>

RejectVectorState ==
    /\ pc = "vectorState"
    /\ ~Refused
    /\ index.space # session
    /\ End(Without(IF index.space = None THEN "VectorIndexUnavailableError"
                   ELSE "VectorIndexIncompatibleError"))
    /\ UNCHANGED <<readVars, request, began>>

\* vec_chunks is there, and takes query vectors of the provider's dimension.
TableTakesQuery == index.dimension = SpaceDimension[session]

PlaceOf(chunk, ranking) ==
    IF chunk \in Ranked(ranking)
    THEN CHOOSE i \in DOMAIN ranking : ranking[i] = chunk
    ELSE 0

\* Strictly nearer to the query; a chunk without a vector is farthest.
Nearer(b, a) ==
    LET vb == PlaceOf(b, index.vector)  va == PlaceOf(a, index.vector)
    IN  RankBelow(vb, va) /\ (va = 0 \/ ~((vb + 1)..va \subseteq index.tied))

\* vec_chunks finds neighbours by distance alone: equally near ones in any
\* order.
NearestOrders ==
    {order \in Rankings :
        /\ Ranked(order) = Ranked(index.vector)
        /\ \A i, j \in DOMAIN order : i < j => ~Nearer(order[j], order[i])}

SortedUpTo(order, n) ==
    \A i, j \in DOMAIN order :
        i < j /\ j <= n => PlaceOf(order[i], index.vector) < PlaceOf(order[j], index.vector)

\* The nearest-neighbour query, over the vectors there are by now: the k
\* nearest are cut off first (k = ?), and sorted by ORDER BY afterwards.
ReadVectors ==
    /\ pc = "vector"
    /\ TableTakesQuery
    /\ \E order \in NearestOrders :
          /\ SortedUpTo(order, ComponentLimit)
          /\ vector' = Prefix(Read(order), ComponentLimit)
    /\ used' = index.space
    /\ pc' = "answer"
    /\ UNCHANGED <<readVars, request, began, lexical, answer>>

\* sqlite-vec refuses the query: no table, or one of another dimension.
RejectQuery ==
    /\ pc = "vector"
    /\ ~TableTakesQuery
    /\ End(Without("VectorIndexUnavailableError"))
    /\ UNCHANGED <<readVars, request, began>>

\* A SELECT fails; the one of the index state has no handler.  Or the
\* embedding of the query, between the lexical read and that one, fails.
FailRead ==
    /\ pc \in {"lexical", "vectorState", "vector"}
    /\ ~Refused
    /\ \E error \in CASE pc = "lexical"     -> {"IndexUnavailableError"}
                       [] pc = "vectorState" -> {"EmbeddingError", "sqlite3.Error"}
                       [] OTHER              -> {"VectorIndexUnavailableError"} :
          End(Without(error))
    /\ UNCHANGED <<readVars, request, began>>

Hits ==
    CASE request.strategy = "lexical" -> [i \in DOMAIN lexical |-> lexical[i].chunk]
      [] request.strategy = "vector"  -> [i \in DOMAIN vector |-> vector[i].chunk]
      [] OTHER                        -> FuseRankings(lexical, vector, Probe)

Answer ==
    /\ pc = "answer"
    /\ ~FusionFails(lexical, vector)
    /\ End(BuildResult(Hits, request.max))
    /\ UNCHANGED <<readVars, request, began>>

\* Mutant: disagreeing components are not reported.
FailFusionOnDuplicates ==
    /\ pc = "answer"
    /\ Duplicated(lexical) \/ Duplicated(vector)
    /\ End(Without("HybridFusionError"))
    /\ UNCHANGED <<readVars, request, began>>

FailFusion ==
    /\ pc = "answer"
    /\ FusionFails(lexical, vector)
    /\ End(Without("HybridFusionError"))
    /\ UNCHANGED <<readVars, request, began>>

SearchStep ==
    \/ Refuse \/ ReadLexical \/ CheckVectorState \/ RejectVectorState
    \/ ReadVectors \/ RejectQuery \/ FailRead \/ Answer \/ FailFusion

\* Another process commits a sync or a rebuild: rankings and versions change
\* as the stored chunks did, and a rebuild may move the space.
OthersCommit(new) ==
    /\ changes < MaxChanges
    /\ new # index
    /\ index' = new
    /\ changes' = changes + 1
    /\ UNCHANGED <<session, pc, request, began, lexical, vector, used, answer, requests>>

Next ==
    \/ \E strategy \in Strategies, max \in 0..MaxPublic + 1 : Search(strategy, max)
    \/ SearchStep
    \/ \E new \in Changes : OthersCommit(new)

Spec == Init /\ [][Next]_vars

----------------------------------------------------------------------------

Answered == answer.status \in {"empty", "partial", "success"}

\* Everything the stored chunks have to offer the request's strategy.
Available ==
    CASE request.strategy = "lexical" -> Ranked(index.lexical)
      [] request.strategy = "vector"  -> Ranked(index.vector)
      [] OTHER                        -> Ranked(index.lexical) \cup Ranked(index.vector)

\* The status of an answer tells the truth about the whole index, although
\* each component only looked at its best candidates: partial exactly when
\* there is more than was shown, empty exactly when there is nothing.
StatusIsHonest ==
    Answered /\ changes = began =>
        /\ answer.status = "partial" <=> Cardinality(Available) > request.max
        /\ answer.status = "empty" <=> Available = {}
        /\ answer.truncated <=> answer.status = "partial"

\* Better in one ranking and not worse in the other.  Of equally near chunks
\* either may be worse: the one that is cut off.
Dominates(b, a) ==
    LET lb == PlaceOf(b, index.lexical)  la == PlaceOf(a, index.lexical)
        noVector == Ranked(index.vector) \cap {a, b} = {}
    IN  \/ RankBelow(lb, la) /\ (Nearer(b, a) \/ noVector)
        \/ Nearer(b, a) /\ lb = la

\* A hybrid answer never shows a chunk without, or before, one that neither
\* full ranking puts lower and one puts higher: neither the candidate limit,
\* ties at it included, nor the tie-break can invert them.
DominatedComesLater ==
    Answered /\ changes = began /\ request.strategy = "hybrid" =>
        \A i \in DOMAIN answer.results : \A b \in ChunkIds :
            Dominates(b, answer.results[i]) =>
                \E j \in DOMAIN answer.results : j < i /\ answer.results[j] = b

\* "a query vector from a different provider/model is rejected rather than
\* compared against vectors from a different embedding space"
\* (search_vector, docstring).
SearchStaysInItsSpace == used # None => used = session
=============================================================================
