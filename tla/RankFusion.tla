----------------------------- MODULE RankFusion -----------------------------
(***************************************************************************)
(* fuse_rankings: Reciprocal Rank Fusion of a lexical and a vector ranking *)
(* by chunk id, with its tie-break, and the truncation of _build_result.   *)
(*                                                                         *)
(* A ranking is a sequence of matches, each a chunk and the version of its *)
(* text (content_hash); a match's rank is its position, as both searches   *)
(* number their rows.  Chunk ids are numbers in the order of (relative     *)
(* path, ordinal, chunk id), the last three components of the tie-break    *)
(* key.  Scores are exact fractions where the code adds two doubles.       *)
(***************************************************************************)
EXTENDS Naturals, Sequences, FiniteSets

CONSTANTS
    ChunkIds,  \* numbers, ordered as the tie-break orders chunks
    Versions,  \* versions of a chunk's text
    RrfK       \* RRF_K

ASSUME FusionAssumption ==
    ChunkIds \subseteq Nat /\ IsFiniteSet(ChunkIds) /\ RrfK \in Nat \ {0}

Matches == [chunk : ChunkIds, version : Versions]

Found(matches) == {matches[i].chunk : i \in DOMAIN matches}

\* The rank of a chunk in a ranking, 0 (None in the code) when absent.
RankIn(matches, chunk) ==
    IF chunk \in Found(matches)
    THEN CHOOSE i \in DOMAIN matches : matches[i].chunk = chunk
    ELSE 0

Duplicated(matches) ==
    \E i, j \in DOMAIN matches : i # j /\ matches[i].chunk = matches[j].chunk

\* The two components have different texts for one chunk id.
Disagree(lexical, vector) ==
    \E i \in DOMAIN lexical, j \in DOMAIN vector :
        /\ lexical[i].chunk = vector[j].chunk
        /\ lexical[i].version # vector[j].version

\* The conditions of HybridFusionError.
FusionFails(lexical, vector) ==
    Duplicated(lexical) \/ Duplicated(vector) \/ Disagree(lexical, vector)

\* Mutant: a missing rank is added like any other.
NumeratorOfAll(a) == (RrfK + a.lexicalRank) + (RrfK + a.vectorRank)

\* The score 1/(K + lexical rank) + 1/(K + vector rank) of a candidate, the
\* term of a missing rank left out, as a fraction.
Numerator(a) ==
    IF a.lexicalRank # 0 /\ a.vectorRank # 0
    THEN (RrfK + a.lexicalRank) + (RrfK + a.vectorRank)
    ELSE 1
Denominator(a) ==
    (IF a.lexicalRank # 0 THEN RrfK + a.lexicalRank ELSE 1)
        * (IF a.vectorRank # 0 THEN RrfK + a.vectorRank ELSE 1)

ScoreAbove(a, b) == Numerator(a) * Denominator(b) > Numerator(b) * Denominator(a)
ScoreEqual(a, b) == Numerator(a) * Denominator(b) = Numerator(b) * Denominator(a)

\* Missing ranks sort last.
RankBelow(r1, r2) == r1 # 0 /\ (r2 = 0 \/ r1 < r2)
BestRank(a) ==
    IF RankBelow(a.lexicalRank, a.vectorRank) THEN a.lexicalRank ELSE a.vectorRank

\* _tie_break_key: score, best rank, lexical rank, vector rank, chunk order.
Precedes(a, b) ==
    \/ ScoreAbove(a, b)
    \/ /\ ScoreEqual(a, b)
       /\ \/ RankBelow(BestRank(a), BestRank(b))
          \/ /\ BestRank(a) = BestRank(b)
             /\ \/ RankBelow(a.lexicalRank, b.lexicalRank)
                \/ /\ a.lexicalRank = b.lexicalRank
                   /\ \/ RankBelow(a.vectorRank, b.vectorRank)
                      \/ a.vectorRank = b.vectorRank /\ a.chunk < b.chunk

Candidates(lexical, vector) ==
    {[chunk |-> c, lexicalRank |-> RankIn(lexical, c), vectorRank |-> RankIn(vector, c)]
        : c \in Found(lexical) \cup Found(vector)}

\* The fused order: a candidate's place is the number of those before it.
Fused(lexical, vector) ==
    LET all == Candidates(lexical, vector)
        at(i) == CHOOSE a \in all : Cardinality({b \in all : Precedes(b, a)}) = i - 1
    IN  [i \in 1..Cardinality(all) |-> at(i).chunk]

Prefix(s, n) == SubSeq(s, 1, IF Len(s) < n THEN Len(s) ELSE n)

FuseRankings(lexical, vector, maxResults) == Prefix(Fused(lexical, vector), maxResults)

\* Mutant: a status outside RetrievalStatus.
BuildResultMisnamed(hits, maxResults) ==
    [status    |-> IF hits = <<>> THEN "empty"
                   ELSE IF Len(hits) > maxResults THEN "truncated" ELSE "success",
     results   |-> Prefix(hits, maxResults),
     truncated |-> Len(hits) > maxResults]

\* _build_result: at most maxResults + 1 hits come in, the last a probe.
BuildResult(hits, maxResults) ==
    [status    |-> IF hits = <<>> THEN "empty"
                   ELSE IF Len(hits) > maxResults THEN "partial" ELSE "success",
     results   |-> Prefix(hits, maxResults),
     truncated |-> Len(hits) > maxResults]
=============================================================================
