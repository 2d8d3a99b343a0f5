-------------------------- MODULE EvaluationProofs --------------------------
(***************************************************************************)
(* Proofs about RankFusion, KnowledgeSearch and Evaluation.                *)
(*                                                                         *)
(* For every finite set of chunks, every RRF_K and every pair of rankings: *)
(* the tie-break orders the candidates strictly and totally, so the fusion *)
(* is an arrangement of all of them that shows no better one later.        *)
(*                                                                         *)
(* For every index, candidate limit, number of requests and of commits     *)
(* between their reads: the status of an answer is that of the whole       *)
(* index, and its order never inverts what both rankings agree on.         *)
(*                                                                         *)
(* For every dataset and cutoff: what an evaluation was told by the        *)
(* searches and lookups it has made is still so, unless others have        *)
(* committed, and its report has the means of what the full rankings are   *)
(* worth for the queries, in whatever order they are summed.               *)
(***************************************************************************)
EXTENDS Evaluation, SequenceLemmas

----------------------------------------------------------------------------
(* The fusion: scores.                                                     *)

\* What the fusion compares: a chunk found in one ranking at least.
RankedCandidates ==
    {a \in [chunk : ChunkIds, lexicalRank : Nat, vectorRank : Nat] :
        a.lexicalRank # 0 \/ a.vectorRank # 0}

LEMMA ScoresArePositive ==
    ASSUME NEW a \in RankedCandidates
    PROVE  Numerator(a) \in Nat \ {0} /\ Denominator(a) \in Nat \ {0}
<1>1. /\ a.lexicalRank \in Nat /\ a.vectorRank \in Nat /\ RrfK \in Nat /\ RrfK > 0
  BY FusionAssumption DEF RankedCandidates
<1> DEFINE x == RrfK + a.lexicalRank
           y == RrfK + a.vectorRank
<1>2. x \in Nat /\ x > 0 /\ y \in Nat /\ y > 0 /\ x + y \in Nat /\ x + y > 0
  BY <1>1
<1>3. \A m, n \in Nat \ {0} : m * n \in Nat \ {0}
  OBVIOUS
<1>4. Numerator(a) \in Nat \ {0}
  BY <1>2 DEF Numerator
<1>5. Denominator(a) \in Nat \ {0}
  <2> HIDE DEF x, y
  <2>1. (IF a.lexicalRank # 0 THEN x ELSE 1) \in Nat \ {0}
    BY <1>2
  <2>2. (IF a.vectorRank # 0 THEN y ELSE 1) \in Nat \ {0}
    BY <1>2
  <2> QED
    BY <1>3, <2>1, <2>2 DEF Denominator, x, y
<1> QED
  BY <1>4, <1>5

\* Fractions are compared by cross-multiplication.
LEMMA ProductsKeepOrder ==
    ASSUME NEW m \in Nat, NEW n \in Nat, NEW w \in Nat \ {0}
    PROVE  (m > n <=> m * w > n * w) /\ (m = n <=> m * w = n * w)
<1>1. m > n => m * w > n * w
  OBVIOUS
<1>2. n > m => n * w > m * w
  OBVIOUS
<1>3. m * w \in Nat /\ n * w \in Nat
  OBVIOUS
<1> QED
  BY <1>1, <1>2, <1>3

\* The order of fractions that are compared with a third one.
LEMMA FractionsAreOrdered ==
    ASSUME NEW n1 \in Nat \ {0}, NEW d1 \in Nat \ {0}, NEW n2 \in Nat \ {0},
           NEW d2 \in Nat \ {0}, NEW n3 \in Nat \ {0}, NEW d3 \in Nat \ {0}
    PROVE  /\ n1 * d2 > n2 * d1 /\ n2 * d3 > n3 * d2 => n1 * d3 > n3 * d1
           /\ n1 * d2 > n2 * d1 /\ n2 * d3 = n3 * d2 => n1 * d3 > n3 * d1
           /\ n1 * d2 = n2 * d1 /\ n2 * d3 > n3 * d2 => n1 * d3 > n3 * d1
           /\ n1 * d2 = n2 * d1 /\ n2 * d3 = n3 * d2 => n1 * d3 = n3 * d1
<1>1. /\ n1 * d2 \in Nat /\ n2 * d1 \in Nat /\ n2 * d3 \in Nat /\ n3 * d2 \in Nat
      /\ n1 * d3 \in Nat /\ n3 * d1 \in Nat
  OBVIOUS
<1>2. /\ (n1 * d2 > n2 * d1 <=> (n1 * d2) * d3 > (n2 * d1) * d3)
      /\ (n1 * d2 = n2 * d1 <=> (n1 * d2) * d3 = (n2 * d1) * d3)
  BY <1>1, ProductsKeepOrder
<1>3. /\ (n2 * d3 > n3 * d2 <=> (n2 * d3) * d1 > (n3 * d2) * d1)
      /\ (n2 * d3 = n3 * d2 <=> (n2 * d3) * d1 = (n3 * d2) * d1)
  BY <1>1, ProductsKeepOrder
<1>4. /\ (n1 * d3 > n3 * d1 <=> (n1 * d3) * d2 > (n3 * d1) * d2)
      /\ (n1 * d3 = n3 * d1 <=> (n1 * d3) * d2 = (n3 * d1) * d2)
  BY <1>1, ProductsKeepOrder
<1>5. /\ (n1 * d2) * d3 = (n1 * d3) * d2
      /\ (n2 * d1) * d3 = (n2 * d3) * d1
      /\ (n3 * d2) * d1 = (n3 * d1) * d2
  OBVIOUS
<1>6. /\ (n1 * d2) * d3 \in Nat /\ (n2 * d1) * d3 \in Nat /\ (n3 * d2) * d1 \in Nat
  OBVIOUS
<1> DEFINE u == (n1 * d2) * d3
           v == (n2 * d1) * d3
           w == (n3 * d2) * d1
<1> QED
  <2>1. u \in Nat /\ v \in Nat /\ w \in Nat
    BY <1>6
  <2>2. /\ (n1 * d2 > n2 * d1 <=> u > v) /\ (n1 * d2 = n2 * d1 <=> u = v)
        /\ (n2 * d3 > n3 * d2 <=> v > w) /\ (n2 * d3 = n3 * d2 <=> v = w)
        /\ (n1 * d3 > n3 * d1 <=> u > w) /\ (n1 * d3 = n3 * d1 <=> u = w)
    BY <1>2, <1>3, <1>4, <1>5
  <2> HIDE DEF u, v, w
  <2> QED
    BY <2>1, <2>2

\* A missing rank is below every other.
LEMMA RanksAreOrdered ==
    ASSUME NEW r1 \in Nat, NEW r2 \in Nat, NEW r3 \in Nat
    PROVE  /\ ~RankBelow(r1, r1)
           /\ RankBelow(r1, r2) \/ r1 = r2 \/ RankBelow(r2, r1)
           /\ RankBelow(r1, r2) => ~RankBelow(r2, r1) /\ r1 # r2
           /\ RankBelow(r1, r2) /\ RankBelow(r2, r3) => RankBelow(r1, r3)
BY DEF RankBelow

LEMMA BestRankIsRank ==
    ASSUME NEW a \in RankedCandidates
    PROVE  BestRank(a) \in Nat
BY DEF BestRank, RankedCandidates

----------------------------------------------------------------------------
(* The tie-break.                                                          *)

\* How two chunks of one score are told apart.
TieBroken(a, b) ==
    \/ RankBelow(BestRank(a), BestRank(b))
    \/ /\ BestRank(a) = BestRank(b)
       /\ \/ RankBelow(a.lexicalRank, b.lexicalRank)
          \/ /\ a.lexicalRank = b.lexicalRank
             /\ \/ RankBelow(a.vectorRank, b.vectorRank)
                \/ a.vectorRank = b.vectorRank /\ a.chunk < b.chunk

LEMMA TiesAreBrokenInOrder ==
    ASSUME NEW a \in RankedCandidates, NEW b \in RankedCandidates,
           NEW c \in RankedCandidates
    PROVE  /\ ~TieBroken(a, a)
           /\ TieBroken(a, b) /\ TieBroken(b, c) => TieBroken(a, c)
           /\ a.chunk # b.chunk => TieBroken(a, b) \/ TieBroken(b, a)
<1> DEFINE A == BestRank(a)  B == BestRank(b)  C == BestRank(c)
<1>1. /\ A \in Nat /\ B \in Nat /\ C \in Nat
      /\ a.lexicalRank \in Nat /\ b.lexicalRank \in Nat /\ c.lexicalRank \in Nat
      /\ a.vectorRank \in Nat /\ b.vectorRank \in Nat /\ c.vectorRank \in Nat
      /\ a.chunk \in Nat /\ b.chunk \in Nat /\ c.chunk \in Nat
  BY BestRankIsRank, FusionAssumption DEF RankedCandidates
<1> HIDE DEF A, B, C
<1>2. ~TieBroken(a, a)
  BY <1>1 DEF TieBroken, RankBelow, A
<1>3. TieBroken(a, b) /\ TieBroken(b, c) => TieBroken(a, c)
  BY <1>1 DEF TieBroken, RankBelow, A, B, C
<1>4. a.chunk # b.chunk => TieBroken(a, b) \/ TieBroken(b, a)
  BY <1>1 DEF TieBroken, RankBelow, A, B
<1> QED
  BY <1>2, <1>3, <1>4

\* Whatever the ranks, _tie_break_key decides between any two chunks, and
\* decides consistently: sorting by it has one result.
THEOREM TieBreakIsTotalOrder ==
    ASSUME NEW a \in RankedCandidates, NEW b \in RankedCandidates,
           NEW c \in RankedCandidates
    PROVE  /\ ~Precedes(a, a)
           /\ Precedes(a, b) /\ Precedes(b, c) => Precedes(a, c)
           /\ a.chunk # b.chunk => Precedes(a, b) \/ Precedes(b, a)
<1>1. \A x, y \in RankedCandidates :
         Precedes(x, y) <=> ScoreAbove(x, y) \/ (ScoreEqual(x, y) /\ TieBroken(x, y))
  BY DEF Precedes, TieBroken
<1>2. /\ Numerator(a) \in Nat \ {0} /\ Denominator(a) \in Nat \ {0}
      /\ Numerator(b) \in Nat \ {0} /\ Denominator(b) \in Nat \ {0}
      /\ Numerator(c) \in Nat \ {0} /\ Denominator(c) \in Nat \ {0}
  BY ScoresArePositive
<1>3. /\ ScoreAbove(a, b) /\ ScoreAbove(b, c) => ScoreAbove(a, c)
      /\ ScoreAbove(a, b) /\ ScoreEqual(b, c) => ScoreAbove(a, c)
      /\ ScoreEqual(a, b) /\ ScoreAbove(b, c) => ScoreAbove(a, c)
      /\ ScoreEqual(a, b) /\ ScoreEqual(b, c) => ScoreEqual(a, c)
  BY <1>2, FractionsAreOrdered DEF ScoreAbove, ScoreEqual
<1>4. /\ Numerator(a) * Denominator(b) \in Nat /\ Numerator(b) * Denominator(a) \in Nat
      /\ Numerator(a) * Denominator(a) \in Nat
  BY <1>2
<1>5. /\ ~ScoreAbove(a, a)
      /\ ScoreAbove(a, b) \/ ScoreEqual(a, b) \/ ScoreAbove(b, a)
      /\ ScoreEqual(a, b) => ScoreEqual(b, a)
  BY <1>4 DEF ScoreAbove, ScoreEqual
<1> QED
  BY <1>1, <1>3, <1>5, TiesAreBrokenInOrder

----------------------------------------------------------------------------
(* The arrangement.                                                        *)

\* Different chunks, ready to be sorted.
Sortable(all) ==
    /\ all \subseteq RankedCandidates
    /\ IsFiniteSet(all)
    /\ \A a, b \in all : a.chunk = b.chunk => a = b

Before(all, a) == {b \in all : Precedes(b, a)}

\* The number of candidates before one is its place, and every place is
\* taken once.
LEMMA PlacesAreTakenOnce ==
    ASSUME NEW all, Sortable(all)
    PROVE  /\ \A a \in all : Cardinality(Before(all, a)) \in 0..(Cardinality(all) - 1)
           /\ \A a, b \in all : Precedes(a, b) =>
                 Cardinality(Before(all, a)) < Cardinality(Before(all, b))
           /\ \A a, b \in all :
                 Cardinality(Before(all, a)) = Cardinality(Before(all, b)) => a = b
           /\ \A i \in 0..(Cardinality(all) - 1) :
                 \E a \in all : Cardinality(Before(all, a)) = i
<1> DEFINE n == Cardinality(all)
           place == [a \in all |-> Cardinality(Before(all, a))]
<1>1. IsFiniteSet(all) /\ n \in Nat
  BY FS_CardinalityType DEF Sortable
<1>2. ASSUME NEW a \in all PROVE Cardinality(Before(all, a)) \in 0..(n - 1)
  <2>1. Before(all, a) \in SUBSET all /\ a \notin Before(all, a)
    BY TieBreakIsTotalOrder DEF Before, Sortable
  <2>2. /\ IsFiniteSet(Before(all, a))
        /\ Cardinality(Before(all, a)) <= n
        /\ Cardinality(Before(all, a)) # n
    BY <1>1, <2>1, FS_Subset
  <2> QED
    BY <1>1, <2>2, FS_CardinalityType
<1>3. ASSUME NEW a \in all, NEW b \in all, Precedes(a, b)
      PROVE  Cardinality(Before(all, a)) < Cardinality(Before(all, b))
  <2>1. Before(all, b) \in SUBSET all
    BY DEF Before
  <2>2. IsFiniteSet(Before(all, b))
    BY <1>1, <2>1, FS_Subset
  <2>3. Before(all, a) \in SUBSET Before(all, b)
    BY <1>3, TieBreakIsTotalOrder DEF Before, Sortable
  <2>4. a \in Before(all, b) /\ a \notin Before(all, a)
    BY <1>3, TieBreakIsTotalOrder DEF Before, Sortable
  <2>5. /\ Cardinality(Before(all, a)) <= Cardinality(Before(all, b))
        /\ Cardinality(Before(all, a)) # Cardinality(Before(all, b))
    BY <2>2, <2>3, <2>4, FS_Subset
  <2> QED
    BY <1>2, <2>5
<1>4. ASSUME NEW a \in all, NEW b \in all,
             Cardinality(Before(all, a)) = Cardinality(Before(all, b))
      PROVE  a = b
  <2>1. ~Precedes(a, b) /\ ~Precedes(b, a)
    BY <1>2, <1>3, <1>4
  <2> QED
    BY <2>1, TieBreakIsTotalOrder DEF Sortable
<1>5. ASSUME NEW i \in 0..(n - 1) PROVE \E a \in all : Cardinality(Before(all, a)) = i
  <2>1. place \in Injection(all, 0..(n - 1))
    BY <1>2, <1>4 DEF Injection, IsInjective
  <2>2. IsFiniteSet(0..(n - 1)) /\ Cardinality(0..(n - 1)) = n
    BY <1>1, FS_Interval
  <2>3. place \in Surjection(all, 0..(n - 1))
    BY <2>1, <2>2, FS_Injection
  <2> QED
    BY <2>3 DEF Surjection
<1> QED
  BY <1>2, <1>3, <1>4, <1>5

\* A rank is a position with the chunk, or 0.
LEMMA RankIsPosition ==
    ASSUME NEW matches \in Seq(Matches), NEW c
    PROVE  /\ RankIn(matches, c) \in Nat
           /\ c \in Found(matches) <=> RankIn(matches, c) # 0
           /\ RankIn(matches, c) # 0 =>
                 /\ RankIn(matches, c) \in 1..Len(matches)
                 /\ matches[RankIn(matches, c)].chunk = c
<1>1. DOMAIN matches = 1..Len(matches) /\ Len(matches) \in Nat
  OBVIOUS
<1>2. CASE c \in Found(matches)
  <2>1. \E i \in DOMAIN matches : matches[i].chunk = c
    BY <1>2 DEF Found
  <2>2. RankIn(matches, c) \in DOMAIN matches /\ matches[RankIn(matches, c)].chunk = c
    BY <1>2, <2>1 DEF RankIn
  <2> QED
    BY <1>1, <1>2, <2>2
<1>3. CASE c \notin Found(matches)
  BY <1>3 DEF RankIn
<1> QED
  BY <1>2, <1>3

LEMMA FoundAreChunks ==
    ASSUME NEW matches \in Seq(Matches)
    PROVE  Found(matches) \subseteq ChunkIds
<1>1. ASSUME NEW i \in DOMAIN matches PROVE matches[i].chunk \in ChunkIds
  <2>1. matches[i] \in Matches
    OBVIOUS
  <2> QED
    BY <2>1 DEF Matches
<1> QED
  BY <1>1 DEF Found

\* Each chunk the components found is one candidate.
LEMMA CandidatesAreSortable ==
    ASSUME NEW byText \in Seq(Matches), NEW byVector \in Seq(Matches)
    PROVE  /\ Sortable(Candidates(byText, byVector))
           /\ Cardinality(Candidates(byText, byVector)) =
                 Cardinality(Found(byText) \cup Found(byVector))
<1> DEFINE found == Found(byText) \cup Found(byVector)
           all == Candidates(byText, byVector)
           candidate == [c \in found |-> [chunk |-> c, lexicalRank |-> RankIn(byText, c),
                                          vectorRank |-> RankIn(byVector, c)]]
<1>1. found \subseteq ChunkIds
  BY FoundAreChunks
<1>2. IsFiniteSet(found)
  BY <1>1, FusionAssumption, FS_Subset
<1>3. all \subseteq RankedCandidates
  BY <1>1, RankIsPosition DEF Candidates, RankedCandidates
<1>4. \A a, b \in all : a.chunk = b.chunk => a = b
  BY DEF Candidates
<1>5. candidate \in Bijection(found, all)
  <2>1. candidate \in [found -> all]
    BY DEF Candidates
  <2>2. \A c, d \in found : candidate[c] = candidate[d] => c = d
    OBVIOUS
  <2>3. \A a \in all : \E c \in found : candidate[c] = a
    BY DEF Candidates
  <2> QED
    BY <2>1, <2>2, <2>3 DEF Bijection, Injection, Surjection, IsInjective
<1>6. IsFiniteSet(all) /\ Cardinality(all) = Cardinality(found)
  BY <1>2, <1>5, FS_Bijection DEF ExistsBijection
<1> QED
  BY <1>3, <1>4, <1>6 DEF Sortable

\* fuse_rankings, before it cuts the list, shows every chunk a component
\* found, shows none twice, and shows no chunk before one that precedes it.
THEOREM FusionArranges ==
    ASSUME NEW byText \in Seq(Matches), NEW byVector \in Seq(Matches)
    PROVE  LET fused == Fused(byText, byVector)
               found == Found(byText) \cup Found(byVector)
           IN  /\ fused \in Seq(ChunkIds)
               /\ Len(fused) = Cardinality(found)
               /\ \A i, j \in DOMAIN fused : fused[i] = fused[j] => i = j
               /\ {fused[i] : i \in DOMAIN fused} = found
               /\ \A a, b \in Candidates(byText, byVector) : Precedes(b, a) =>
                     \A i \in DOMAIN fused : fused[i] = a.chunk =>
                        \E j \in DOMAIN fused : j < i /\ fused[j] = b.chunk
<1> DEFINE found == Found(byText) \cup Found(byVector)
           all == Candidates(byText, byVector)
           n == Cardinality(all)
           at(i) == CHOOSE a \in all : Cardinality({b \in all : Precedes(b, a)}) = i - 1
           fused == Fused(byText, byVector)
<1>1. Sortable(all) /\ n = Cardinality(found) /\ n \in Nat
  BY CandidatesAreSortable, FS_CardinalityType DEF Sortable
<1>2. fused = [i \in 1..n |-> at(i).chunk]
  BY DEF Fused
<1>3. ASSUME NEW i \in 1..n
      PROVE  at(i) \in all /\ Cardinality(Before(all, at(i))) = i - 1
  <2>1. i - 1 \in 0..(n - 1)
    BY <1>1
  <2>2. \E a \in all : Cardinality(Before(all, a)) = i - 1
    BY <1>1, <2>1, PlacesAreTakenOnce
  <2> QED
    BY <2>2 DEF Before
<1>4. ASSUME NEW c \in found PROVE \E a \in all : a.chunk = c
  <2>1. [chunk |-> c, lexicalRank |-> RankIn(byText, c),
         vectorRank |-> RankIn(byVector, c)] \in all
    BY DEF Candidates
  <2> QED
    BY <2>1
<1>5. \A a \in all : a.chunk \in found /\ a.chunk \in ChunkIds
  BY FoundAreChunks DEF Candidates
<1> HIDE DEF at, all, n
<1>6. ASSUME NEW a \in all
      PROVE  \E i \in 1..n : at(i) = a /\ i = Cardinality(Before(all, a)) + 1
  <2> DEFINE i == Cardinality(Before(all, a)) + 1
  <2>1. Cardinality(Before(all, a)) \in 0..(n - 1)
    BY <1>1, PlacesAreTakenOnce DEF n
  <2>2. i \in 1..n /\ i - 1 = Cardinality(Before(all, a))
    BY <1>1, <2>1
  <2> HIDE DEF i
  <2>3. at(i) \in all /\ Cardinality(Before(all, at(i))) = Cardinality(Before(all, a))
    BY <1>3, <2>2
  <2>4. at(i) = a
    BY <1>1, <2>3, PlacesAreTakenOnce
  <2> QED
    BY <2>2, <2>4 DEF i
<1>7. fused \in [1..n -> ChunkIds] /\ DOMAIN fused = 1..n
  BY <1>2, <1>3, <1>5
<1>8. fused \in Seq(ChunkIds) /\ Len(fused) = n
  <2> HIDE DEF fused
  <2>1. fused \in Seq(ChunkIds)
    BY <1>1, <1>7, SeqDef
  <2> QED
    BY <1>1, <1>7, <2>1
<1>9. ASSUME NEW i \in DOMAIN fused, NEW j \in DOMAIN fused, fused[i] = fused[j]
      PROVE  i = j
  <2>1. i \in 1..n /\ j \in 1..n /\ at(i).chunk = at(j).chunk
    BY <1>2, <1>7, <1>9
  <2>2. at(i) = at(j)
    BY <1>1, <1>3, <2>1 DEF Sortable
  <2>3. i - 1 = j - 1
    BY <1>3, <2>1, <2>2
  <2> QED
    BY <2>1, <2>3
<1>10. {fused[i] : i \in DOMAIN fused} = found
  <2>1. ASSUME NEW c \in found PROVE \E i \in 1..n : fused[i] = c
    BY <1>2, <1>4, <1>6
  <2>2. \A i \in 1..n : fused[i] \in found
    BY <1>2, <1>3, <1>5
  <2> QED
    BY <1>7, <2>1, <2>2
<1>11. ASSUME NEW a \in all, NEW b \in all, Precedes(b, a),
              NEW i \in DOMAIN fused, fused[i] = a.chunk
       PROVE  \E j \in DOMAIN fused : j < i /\ fused[j] = b.chunk
  <2>1. i \in 1..n /\ at(i) \in all /\ at(i) = a /\ Cardinality(Before(all, a)) = i - 1
    BY <1>1, <1>2, <1>3, <1>7, <1>11 DEF Sortable
  <2>2. PICK j \in 1..n : at(j) = b /\ j = Cardinality(Before(all, b)) + 1
    BY <1>6
  <2>3. Cardinality(Before(all, b)) < Cardinality(Before(all, a))
    BY <1>1, <1>11, PlacesAreTakenOnce
  <2>4. Cardinality(Before(all, b)) = j - 1
    BY <1>3, <2>2
  <2> QED
    BY <1>2, <1>7, <2>1, <2>2, <2>3, <2>4
<1> QED
  BY <1>1, <1>8, <1>9, <1>10, <1>11 DEF all, n

----------------------------------------------------------------------------
(* Better ranks.                                                           *)

\* One term grows when its denominator shrinks.
LEMMA SmallerDenominatorsWin ==
    ASSUME NEW x \in Nat \ {0}, NEW y \in Nat \ {0}, NEW u \in Nat \ {0},
           NEW v \in Nat \ {0}, x < u
    PROVE  /\ y < v => (x + y) * (u * v) > (u + v) * (x * y)
           /\ (x + y) * u > x * y
<1>1. ASSUME NEW w \in Nat \ {0} PROVE w * u > w * x
  BY ONLY <1>1, x \in Nat \ {0}, u \in Nat \ {0}, x < u, ProductsKeepOrder
<1>2. /\ y * u \in Nat /\ y * x \in Nat /\ x * u \in Nat /\ y * v \in Nat \ {0}
      /\ x * u \in Nat \ {0}
  OBVIOUS
<1>3. (x + y) * u = x * u + y * u /\ x * y = y * x
  OBVIOUS
<1>4. (x + y) * u > x * y
  BY <1>1, <1>2, <1>3
<1>5. ASSUME y < v PROVE (x + y) * (u * v) > (u + v) * (x * y)
  <2>1. (y * v) * u > (y * v) * x
    BY <1>1, <1>2
  <2>2. (x * u) * v > (x * u) * y
    BY <1>2, <1>5, ProductsKeepOrder
  <2>3. (x + y) * (u * v) = (x * u) * v + (y * v) * u
    OBVIOUS
  <2>4. (u + v) * (x * y) = (x * u) * y + (y * v) * x
    OBVIOUS
  <2> DEFINE p == (y * v) * u  q == (y * v) * x  r == (x * u) * v  s == (x * u) * y
  <2>5. p \in Nat /\ q \in Nat /\ r \in Nat /\ s \in Nat
    BY <1>2
  <2> HIDE DEF p, q, r, s
  <2>6. r + p > s + q
    BY <2>1, <2>2, <2>5 DEF p, q, r, s
  <2> QED
    BY <2>3, <2>4, <2>6 DEF p, q, r, s
<1> QED
  BY <1>4, <1>5

\* A chunk that is ahead of another in every ranking that has the other is
\* ahead of it in the fusion, whatever other rankings it is in itself.
LEMMA AheadWhereverRanked ==
    ASSUME NEW a \in RankedCandidates, NEW b \in RankedCandidates,
           a.lexicalRank # 0 => RankBelow(b.lexicalRank, a.lexicalRank),
           a.vectorRank # 0 => RankBelow(b.vectorRank, a.vectorRank)
    PROVE  Precedes(b, a)
<1> DEFINE u == RrfK + a.lexicalRank
           v == RrfK + a.vectorRank
           x == RrfK + b.lexicalRank
           y == RrfK + b.vectorRank
<1>1. /\ a.lexicalRank \in Nat /\ b.lexicalRank \in Nat
      /\ a.vectorRank \in Nat /\ b.vectorRank \in Nat
      /\ a.lexicalRank # 0 \/ a.vectorRank # 0
  BY DEF RankedCandidates
<1>2. /\ u \in Nat \ {0} /\ v \in Nat \ {0} /\ x \in Nat \ {0} /\ y \in Nat \ {0}
      /\ a.lexicalRank # 0 => b.lexicalRank # 0 /\ x < u
      /\ a.vectorRank # 0 => b.vectorRank # 0 /\ y < v
  BY <1>1, FusionAssumption DEF RankBelow
<1> HIDE DEF u, v, x, y
<1>3. /\ Numerator(a) = IF a.lexicalRank # 0 /\ a.vectorRank # 0 THEN u + v ELSE 1
      /\ Numerator(b) = IF b.lexicalRank # 0 /\ b.vectorRank # 0 THEN x + y ELSE 1
      /\ Denominator(a) = (IF a.lexicalRank # 0 THEN u ELSE 1) * (IF a.vectorRank # 0 THEN v ELSE 1)
      /\ Denominator(b) = (IF b.lexicalRank # 0 THEN x ELSE 1) * (IF b.vectorRank # 0 THEN y ELSE 1)
  BY DEF Numerator, Denominator, u, v, x, y
<1>4. CASE a.lexicalRank # 0 /\ a.vectorRank # 0
  <2>1. (x + y) * (u * v) > (u + v) * (x * y)
    BY <1>2, <1>4, SmallerDenominatorsWin
  <2> QED
    BY <1>2, <1>3, <1>4, <2>1 DEF Precedes, ScoreAbove
<1>5. CASE a.lexicalRank # 0 /\ a.vectorRank = 0
  <2>1. Numerator(a) = 1 /\ Denominator(a) = u
    BY <1>2, <1>3, <1>5
  <2>2. CASE b.vectorRank # 0
    <3>1. (x + y) * u > x * y
      BY <1>2, <1>5, SmallerDenominatorsWin
    <3>2. Numerator(b) = x + y /\ Denominator(b) = x * y
      BY <1>2, <1>3, <1>5, <2>2
    <3>3. x * y \in Nat
      BY <1>2
    <3> QED
      BY <2>1, <3>1, <3>2, <3>3 DEF Precedes, ScoreAbove
  <2>3. CASE b.vectorRank = 0
    <3>1. Numerator(b) = 1 /\ Denominator(b) = x
      BY <1>2, <1>3, <1>5, <2>3
    <3> QED
      BY <1>2, <1>5, <2>1, <3>1 DEF Precedes, ScoreAbove
  <2> QED
    BY <2>2, <2>3
<1>6. CASE a.lexicalRank = 0 /\ a.vectorRank # 0
  <2>1. Numerator(a) = 1 /\ Denominator(a) = v
    BY <1>2, <1>3, <1>6
  <2>2. CASE b.lexicalRank # 0
    <3>1. (y + x) * v > y * x
      BY <1>2, <1>6, SmallerDenominatorsWin
    <3>2. Numerator(b) = y + x /\ Denominator(b) = y * x
      BY <1>2, <1>3, <1>6, <2>2
    <3>3. y * x \in Nat
      BY <1>2
    <3> QED
      BY <2>1, <3>1, <3>2, <3>3 DEF Precedes, ScoreAbove
  <2>3. CASE b.lexicalRank = 0
    <3>1. Numerator(b) = 1 /\ Denominator(b) = y
      BY <1>2, <1>3, <1>6, <2>3
    <3> QED
      BY <1>2, <1>6, <2>1, <3>1 DEF Precedes, ScoreAbove
  <2> QED
    BY <2>2, <2>3
<1> QED
  BY <1>1, <1>4, <1>5, <1>6

----------------------------------------------------------------------------
(* Cutting a list.                                                         *)

LEMMA PrefixIsCut ==
    ASSUME NEW S, NEW s \in Seq(S), NEW n \in Nat
    PROVE  /\ Prefix(s, n) \in Seq(S)
           /\ Len(Prefix(s, n)) = IF Len(s) < n THEN Len(s) ELSE n
           /\ DOMAIN Prefix(s, n) = 1..(IF Len(s) < n THEN Len(s) ELSE n)
           /\ \A i \in DOMAIN Prefix(s, n) : i \in DOMAIN s /\ Prefix(s, n)[i] = s[i]
<1> DEFINE m == IF Len(s) < n THEN Len(s) ELSE n
           t == [i \in 1..m |-> s[i]]
<1>1. Len(s) \in Nat /\ DOMAIN s = 1..Len(s) /\ m \in Nat /\ m <= Len(s)
  OBVIOUS
<1>2. Prefix(s, n) = SubSeq(s, 1, m)
  BY DEF Prefix
<1> HIDE DEF m
<1>3. /\ SubSeq(s, 1, m) \in Seq(S)
      /\ Len(SubSeq(s, 1, m)) = m
      /\ \A i \in 1..m : SubSeq(s, 1, m)[i] = s[i]
  BY <1>1
<1>4. DOMAIN SubSeq(s, 1, m) = 1..m
  BY <1>3
<1> QED
  BY <1>1, <1>2, <1>3, <1>4 DEF m

----------------------------------------------------------------------------
(* What a component reads of a ranking.                                    *)

LEMMA RankingsAreSequences ==
    ASSUME NEW r \in Rankings
    PROVE  /\ r \in Seq(ChunkIds)
           /\ \A i, j \in DOMAIN r : r[i] = r[j] => i = j
           /\ IsFiniteSet(Ranked(r)) /\ Ranked(r) \subseteq ChunkIds
<1>1. Cardinality(ChunkIds) \in Nat
  BY FusionAssumption, FS_CardinalityType
<1>2. PICK n \in Nat : r \in [1..n -> ChunkIds] /\ \A i, j \in 1..n : r[i] = r[j] => i = j
  BY <1>1 DEF Rankings
<1>3. r \in Seq(ChunkIds)
  BY <1>2, SeqDef
<1>4. Ranked(r) \subseteq ChunkIds
  BY <1>2 DEF Ranked
<1> QED
  BY <1>2, <1>3, <1>4, FusionAssumption, FS_Subset

LEMMA PlacesInRankings ==
    ASSUME NEW r \in Rankings, NEW c
    PROVE  /\ PlaceOf(c, r) \in Nat
           /\ c \in Ranked(r) <=> PlaceOf(c, r) # 0
           /\ PlaceOf(c, r) # 0 => PlaceOf(c, r) \in DOMAIN r /\ r[PlaceOf(c, r)] = c
           /\ \A i \in DOMAIN r : r[i] = c => PlaceOf(c, r) = i
<1>1. DOMAIN r = 1..Len(r) /\ Len(r) \in Nat
  BY RankingsAreSequences
<1>2. CASE c \in Ranked(r)
  <2>1. \E i \in DOMAIN r : r[i] = c
    BY <1>2 DEF Ranked
  <2>2. PlaceOf(c, r) \in DOMAIN r /\ r[PlaceOf(c, r)] = c
    BY <1>2, <2>1 DEF PlaceOf
  <2> QED
    BY <1>1, <1>2, <2>2, RankingsAreSequences
<1>3. CASE c \notin Ranked(r)
  BY <1>3 DEF PlaceOf, Ranked
<1> QED
  BY <1>2, <1>3

\* The chunks at the first n places, as many as there are places.
LEMMA FirstPlaces ==
    ASSUME NEW r \in Rankings, NEW n \in Nat
    PROVE  LET m == IF Len(r) < n THEN Len(r) ELSE n
               first == {r[i] : i \in 1..m}
           IN  /\ IsFiniteSet(first) /\ Cardinality(first) = m
               /\ first \subseteq Ranked(r)
               /\ Len(r) <= n => first = Ranked(r)
<1> DEFINE length == Len(r)
           m == IF length < n THEN length ELSE n
           first == {r[i] : i \in 1..m}
           at == [i \in 1..m |-> r[i]]
<1>1. DOMAIN r = 1..Len(r) /\ Len(r) \in Nat
  BY RankingsAreSequences
<1>2. length \in Nat /\ m \in Nat /\ m <= length /\ (length <= n => m = length)
  <2>1. length \in Nat
    BY <1>1
  <2> HIDE DEF length
  <2> QED
    BY <2>1
<1> HIDE DEF m
<1>3. at \in Bijection(1..m, first)
  <2>1. \A i, j \in 1..m : at[i] = at[j] => i = j
    BY <1>2, RankingsAreSequences
  <2>2. at \in [1..m -> first] /\ \A c \in first : \E i \in 1..m : at[i] = c
    OBVIOUS
  <2> QED
    BY <2>1, <2>2 DEF Bijection, Injection, Surjection, IsInjective
<1>4. IsFiniteSet(1..m) /\ Cardinality(1..m) = m
  BY <1>2, FS_Interval
<1>5. IsFiniteSet(first) /\ Cardinality(first) = m
  BY <1>3, <1>4, FS_Bijection DEF ExistsBijection
<1>6. first \subseteq Ranked(r) /\ (length <= n => first = Ranked(r))
  <2>1. Ranked(r) = {r[i] : i \in 1..length}
    BY <1>1 DEF Ranked
  <2> HIDE DEF length
  <2> QED
    BY <1>2, <2>1
<1> QED
  BY <1>5, <1>6 DEF m

LEMMA RankedAreCounted ==
    ASSUME NEW r \in Rankings
    PROVE  Cardinality(Ranked(r)) = Len(r) /\ (Ranked(r) = {} <=> r = <<>>)
<1>1. Len(r) \in Nat /\ r \in Seq(ChunkIds)
  BY RankingsAreSequences
<1> DEFINE n == Len(r)
           m == IF Len(r) < n THEN Len(r) ELSE n
<1>2. Cardinality(Ranked(r)) = Len(r)
  <2>1. m = Len(r) /\ Len(r) <= n
    BY <1>1
  <2>2. Cardinality({r[i] : i \in 1..m}) = m /\ (Len(r) <= n => {r[i] : i \in 1..m} = Ranked(r))
    BY <1>1, FirstPlaces
  <2> HIDE DEF m
  <2> QED
    BY <2>1, <2>2
<1>3. Ranked(r) = {} <=> Len(r) = 0
  BY <1>2, RankingsAreSequences, FS_EmptySet
<1> QED
  BY <1>1, <1>2, <1>3

\* A ranking all of whose chunks are stored.
Stocked(r) == r \in Rankings /\ \A c \in Ranked(r) : index.version[c] \in Versions

\* The read of a component keeps the places up to its limit.
LEMMA ReadsKeepPlaces ==
    ASSUME NEW r, Stocked(r), NEW n \in Nat
    PROVE  LET m == Prefix(Read(r), n)
           IN  /\ m \in Seq(Matches)
               /\ Len(m) = IF Len(r) < n THEN Len(r) ELSE n
               /\ \A i \in DOMAIN m : i \in DOMAIN r /\ m[i].chunk = r[i]
               /\ IsFiniteSet(Found(m)) /\ Cardinality(Found(m)) = Len(m)
               /\ Found(m) \subseteq Ranked(r)
               /\ Len(r) <= n => Found(m) = Ranked(r)
               /\ \A c : RankIn(m, c) = IF PlaceOf(c, r) <= n THEN PlaceOf(c, r) ELSE 0
<1> DEFINE m == Prefix(Read(r), n)
           least == IF Len(r) < n THEN Len(r) ELSE n
<1>1. /\ DOMAIN r = 1..Len(r) /\ Len(r) \in Nat /\ r \in Seq(ChunkIds) /\ r \in Rankings
      /\ \A i, j \in DOMAIN r : r[i] = r[j] => i = j
  BY RankingsAreSequences DEF Stocked
<1>2. \A i \in DOMAIN r : r[i] \in ChunkIds /\ index.version[r[i]] \in Versions
  BY <1>1 DEF Stocked, Ranked
<1>3. Read(r) \in [1..Len(r) -> Matches]
  BY <1>1, <1>2 DEF Read, Matches
<1>4. Read(r) \in Seq(Matches) /\ Len(Read(r)) = Len(r)
  <2>1. Read(r) \in Seq(Matches)
    BY <1>1, <1>3, SeqDef
  <2> QED
    BY <1>1, <1>3, <2>1
<1>5. /\ m \in Seq(Matches) /\ Len(m) = least /\ DOMAIN m = 1..least
      /\ \A i \in DOMAIN m : i \in DOMAIN Read(r) /\ m[i] = Read(r)[i]
  BY <1>4, PrefixIsCut
<1>6. \A i \in 1..least : i \in DOMAIN r /\ m[i].chunk = r[i]
  <2>1. ASSUME NEW i \in 1..least PROVE i \in DOMAIN r /\ m[i] = Read(r)[i]
    BY <1>1, <1>3, <1>5
  <2>2. \A i \in DOMAIN r : Read(r)[i].chunk = r[i]
    BY DEF Read
  <2> QED
    BY <2>1, <2>2
<1>7. Found(m) = {r[i] : i \in 1..least}
  BY <1>5, <1>6 DEF Found
<1>8. /\ IsFiniteSet(Found(m)) /\ Cardinality(Found(m)) = Len(m)
      /\ Found(m) \subseteq Ranked(r) /\ (Len(r) <= n => Found(m) = Ranked(r))
  BY <1>1, <1>5, <1>7, FirstPlaces
<1>9. ASSUME NEW c
      PROVE  RankIn(m, c) = IF PlaceOf(c, r) <= n THEN PlaceOf(c, r) ELSE 0
  <2>1. /\ PlaceOf(c, r) \in Nat
        /\ PlaceOf(c, r) # 0 => PlaceOf(c, r) \in 1..Len(r) /\ r[PlaceOf(c, r)] = c
        /\ \A i \in DOMAIN r : r[i] = c => PlaceOf(c, r) = i
    BY <1>1, PlacesInRankings
  <2>2. /\ RankIn(m, c) \in Nat /\ (c \in Found(m) <=> RankIn(m, c) # 0)
        /\ RankIn(m, c) # 0 => RankIn(m, c) \in 1..least /\ m[RankIn(m, c)].chunk = c
    BY <1>5, RankIsPosition
  <2>3. CASE PlaceOf(c, r) # 0 /\ PlaceOf(c, r) <= n
    <3>1. PlaceOf(c, r) \in 1..least /\ c \in Found(m)
      BY <1>1, <1>7, <2>1, <2>3
    <3>2. r[RankIn(m, c)] = c /\ RankIn(m, c) \in DOMAIN r
      BY <1>6, <2>2, <3>1
    <3> QED
      BY <2>1, <2>3, <3>2
  <2>4. CASE PlaceOf(c, r) = 0 \/ PlaceOf(c, r) > n
    <3>1. ASSUME RankIn(m, c) # 0 PROVE FALSE
      <4>1. r[RankIn(m, c)] = c /\ RankIn(m, c) \in DOMAIN r /\ RankIn(m, c) \in 1..least
        BY <1>6, <2>2, <3>1
      <4>2. PlaceOf(c, r) = RankIn(m, c)
        BY <2>1, <4>1
      <4> QED
        BY <1>1, <2>4, <4>1, <4>2
    <3> QED
      BY <2>1, <2>4, <3>1
  <2> QED
    BY <2>1, <2>3, <2>4
<1> QED
  BY <1>5, <1>6, <1>8, <1>9

----------------------------------------------------------------------------
(* The invariant of searches.                                              *)

\* A request in progress is one the bounds admit, from its second read on,
\* and is at a read of its strategy.
RequestInProgress ==
    /\ began <= changes
    /\ pc # "idle" => request \in Requests /\ answer = NoAnswer
    /\ pc = "lexical" => request.strategy # "vector"
    /\ pc \in {"vectorState", "vector"} => request.strategy # "lexical"
    /\ pc \in {"vector", "answer"} \/ (pc = "vectorState" /\ request.strategy = "hybrid") =>
          request.max \in 1..MaxPublic

\* What a request has read is what the index still holds, up to the limit,
\* unless others have committed since it began.
ReadsAreCuts ==
    changes = began =>
        /\ pc \in {"vectorState", "vector", "answer"} /\ request.strategy # "vector" =>
              lexical = Prefix(Read(index.lexical), ComponentLimit)
        /\ pc = "answer" /\ request.strategy # "lexical" =>
              \E order \in NearestOrders : vector = Prefix(Read(order), ComponentLimit)

\* Nor does a request get past the vector index without its being there.
VectorsWereReady ==
    changes = began =>
        /\ pc \in {"vector", "answer"} /\ request.strategy # "lexical" => index.space = session
        /\ pc = "answer" /\ request.strategy # "lexical" => TableTakesQuery
        /\ Answered /\ request.strategy # "lexical" => index.space = session /\ TableTakesQuery

\* Only a request that was within bounds is answered.
AnswersAreAsked == Answered => request \in Requests /\ request.max \in 1..MaxPublic

\* What an undisturbed answer shows is the start of the ranking it is asked
\* from, equally near chunks in any order, and nothing only of an empty index.
AnswersAreCuts ==
    Answered /\ changes = began =>
        /\ answer.status # "empty" => answer.results # <<>>
        /\ request.strategy = "lexical" => answer.results = Prefix(index.lexical, request.max)
        /\ request.strategy = "vector" =>
              \E order \in NearestOrders : answer.results = Prefix(order, request.max)

SearchInvariant ==
    /\ TypeOK
    /\ IsIndex(index)
    /\ RequestInProgress
    /\ ReadsAreCuts
    /\ VectorsWereReady
    /\ AnswersAreAsked
    /\ AnswersAreCuts
    /\ StatusIsHonest
    /\ DominatedComesLater

----------------------------------------------------------------------------
(* What is answered.                                                       *)

LEMMA StoredAreStocked ==
    ASSUME IsIndex(index)
    PROVE  Stocked(index.lexical) /\ Stocked(index.vector)
<1>1. /\ index.lexical \in Rankings /\ index.vector \in Rankings
      /\ index.version \in [ChunkIds -> Versions \cup {None}]
      /\ \A c \in Ranked(index.lexical) \cup Ranked(index.vector) : index.version[c] # None
  BY DEF IsIndex, IndexRecords
<1>2. Ranked(index.lexical) \subseteq ChunkIds /\ Ranked(index.vector) \subseteq ChunkIds
  BY <1>1, RankingsAreSequences
<1> QED
  BY <1>1, <1>2 DEF Stocked

\* Equally near chunks in another order: the same chunks, and those that are
\* nearer still first.
LEMMA OrdersKeepNearer ==
    ASSUME IsIndex(index), NEW order \in NearestOrders
    PROVE  /\ Stocked(order) /\ order \in Rankings /\ Ranked(order) = Ranked(index.vector)
           /\ \A a, b : Nearer(b, a) => RankBelow(PlaceOf(b, order), PlaceOf(a, order))
<1>1. order \in Rankings /\ Ranked(order) = Ranked(index.vector)
  BY DEF NearestOrders
<1>2. Stocked(order) /\ index.vector \in Rankings
  BY <1>1, StoredAreStocked DEF Stocked
<1>3. ASSUME NEW a, NEW b, Nearer(b, a)
      PROVE  RankBelow(PlaceOf(b, order), PlaceOf(a, order))
  <2> DEFINE vb == PlaceOf(b, index.vector)  va == PlaceOf(a, index.vector)
             pb == PlaceOf(b, order)  pa == PlaceOf(a, order)
  <2>1. RankBelow(vb, va) /\ vb \in Nat /\ va \in Nat
    BY <1>2, <1>3, PlacesInRankings DEF Nearer
  <2>2. a # b /\ vb # 0
    <3> HIDE DEF va, vb
    <3>1. va # vb /\ vb # 0
      BY <2>1 DEF RankBelow
    <3> QED
      BY <3>1 DEF va, vb
  <2>3. pb \in DOMAIN order /\ order[pb] = b /\ pb # 0
    BY <1>1, <1>2, <2>2, PlacesInRankings
  <2>4. CASE a \notin Ranked(order)
    <3>1. pa = 0
      BY <1>1, <2>4, PlacesInRankings
    <3> QED
      BY <2>3, <3>1 DEF RankBelow
  <2>5. CASE a \in Ranked(order)
    <3>1. pa \in DOMAIN order /\ order[pa] = a /\ pa # 0
      BY <1>1, <2>5, PlacesInRankings
    <3>2. ~(pa < pb)
      BY <1>3, <2>3, <3>1 DEF NearestOrders
    <3>3. pa # pb
      BY <2>2, <2>3, <3>1
    <3>4. pa \in Nat /\ pb \in Nat
      BY <1>1, PlacesInRankings
    <3> HIDE DEF pa, pb
    <3>5. RankBelow(pb, pa)
      BY <2>3, <3>2, <3>3, <3>4 DEF RankBelow
    <3> QED
      BY <3>5 DEF pa, pb
  <2> QED
    BY <2>4, <2>5
<1> QED
  BY <1>1, <1>2, <1>3

\* The order of the stored ranking is one of them.
LEMMA StoredOrderIsNearest ==
    ASSUME IsIndex(index)
    PROVE  index.vector \in NearestOrders
<1>1. index.vector \in Rankings
  BY StoredAreStocked DEF Stocked
<1>2. ASSUME NEW i \in DOMAIN index.vector, NEW j \in DOMAIN index.vector, i < j
      PROVE  ~Nearer(index.vector[j], index.vector[i])
  <2>1. PlaceOf(index.vector[j], index.vector) = j /\ PlaceOf(index.vector[i], index.vector) = i
    BY <1>1, PlacesInRankings
  <2>2. i \in Nat \ {0} /\ j \in Nat \ {0}
    BY <1>1, RankingsAreSequences
  <2>3. ~RankBelow(j, i)
    BY <1>2, <2>2 DEF RankBelow
  <2> QED
    BY <2>1, <2>3 DEF Nearer
<1> QED
  BY <1>1, <1>2 DEF NearestOrders

\* What an undisturbed request that is about to be answered has read.
LEMMA VectorReadIsCut ==
    ASSUME SearchInvariant, pc = "answer", changes = began
    PROVE  \E order \in NearestOrders :
              request.strategy # "lexical" => vector = Prefix(Read(order), ComponentLimit)
BY StoredOrderIsNearest DEF SearchInvariant, ReadsAreCuts

LEMMA ChunksOfMatches ==
    ASSUME NEW m \in Seq(Matches)
    PROVE  LET chunks == [i \in DOMAIN m |-> m[i].chunk]
           IN  /\ chunks \in Seq(ChunkIds)
               /\ Len(chunks) = Len(m)
               /\ chunks = <<>> <=> m = <<>>
<1> DEFINE chunks == [i \in DOMAIN m |-> m[i].chunk]
<1>1. DOMAIN m = 1..Len(m) /\ Len(m) \in Nat
  OBVIOUS
<1>2. ASSUME NEW i \in DOMAIN m PROVE m[i].chunk \in ChunkIds
  <2>1. m[i] \in Matches
    OBVIOUS
  <2> QED
    BY <2>1 DEF Matches
<1>3. chunks \in [1..Len(m) -> ChunkIds]
  BY <1>1, <1>2
<1>4. chunks \in Seq(ChunkIds)
  BY <1>1, <1>3, SeqDef
<1>5. Len(chunks) = Len(m)
  BY <1>1, <1>3, <1>4
<1> QED
  <2>1. \A S : \A s \in Seq(S) : s = <<>> <=> Len(s) = 0
    BY EmptySeq
  <2> QED
    BY <1>4, <1>5, <2>1

LEMMA HitsAreChunks ==
    ASSUME TypeOK, pc = "answer", request \in Requests
    PROVE  Hits \in Seq(ChunkIds)
<1>1. lexical \in Seq(Matches) /\ vector \in Seq(Matches)
  BY DEF TypeOK
<1>2. Probe \in Nat
  BY DEF Requests, Probe
<1>3. Fused(lexical, vector) \in Seq(ChunkIds)
  BY <1>1, FusionArranges
<1>4. FuseRankings(lexical, vector, Probe) \in Seq(ChunkIds)
  BY <1>2, <1>3, PrefixIsCut DEF FuseRankings
<1> QED
  BY <1>1, <1>4, ChunksOfMatches DEF Hits

\* The limit of a component is above what the request may show.
LEMMA LimitsLeaveAProbe ==
    ASSUME request \in Requests, request.max \in 1..MaxPublic
    PROVE  /\ request.max \in Nat \ {0}
           /\ Probe \in Nat /\ Probe = request.max + 1
           /\ ComponentLimit \in Nat /\ ComponentLimit >= Probe
           /\ request.strategy # "hybrid" => ComponentLimit = Probe
<1>1. /\ request.max \in Nat \ {0} /\ request.max <= MaxPublic
      /\ Probe = request.max + 1 /\ Probe \in Nat
  BY SearchAssumption DEF Probe, Requests
<1>2. Probe * Multiplier \in Nat /\ Probe * Multiplier >= Probe
  <2>1. Multiplier \in Nat /\ Multiplier >= 1
    BY SearchAssumption
  <2> HIDE DEF Probe
  <2> QED
    BY <1>1, <2>1
<1>3. Probe <= MaxInternal /\ MaxInternal \in Nat
  BY <1>1, SearchAssumption
<1>4. CandidateLimit(Probe) \in Nat /\ CandidateLimit(Probe) >= Probe
  <2> HIDE DEF Probe
  <2> QED
    BY <1>1, <1>2, <1>3 DEF CandidateLimit
<1> QED
  BY <1>1, <1>4 DEF ComponentLimit

\* The hits of a request that nobody disturbed are enough to tell whether
\* there is more than it may show, and whether there is anything at all.
LEMMA HitsTellAll ==
    ASSUME SearchInvariant, pc = "answer", changes = began
    PROVE  /\ Len(Hits) > request.max <=> Cardinality(Available) > request.max
           /\ Hits = <<>> <=> Available = {}
<1> DEFINE L == ComponentLimit
           lex == index.lexical
<1>0. PICK vec \in NearestOrders : request.strategy # "lexical" => vector = Prefix(Read(vec), L)
  BY VectorReadIsCut
<1>1. /\ Stocked(lex) /\ Stocked(vec) /\ lex \in Rankings /\ vec \in Rankings
      /\ request \in Requests /\ request.max \in 1..MaxPublic
      /\ Ranked(vec) = Ranked(index.vector)
  BY StoredAreStocked, OrdersKeepNearer DEF SearchInvariant, RequestInProgress, Stocked
<1>2. /\ request.max \in Nat \ {0} /\ Probe \in Nat /\ Probe = request.max + 1
      /\ L \in Nat /\ L >= Probe /\ (request.strategy # "hybrid" => L = Probe)
  BY <1>1, LimitsLeaveAProbe
<1>3. lexical \in Seq(Matches) /\ vector \in Seq(Matches)
  BY DEF SearchInvariant, TypeOK
<1>4. /\ Len(lex) \in Nat /\ Len(vec) \in Nat
      /\ Cardinality(Ranked(lex)) = Len(lex) /\ (Ranked(lex) = {} <=> Len(lex) = 0)
      /\ Cardinality(Ranked(vec)) = Len(vec) /\ (Ranked(vec) = {} <=> Len(vec) = 0)
      /\ IsFiniteSet(Ranked(lex)) /\ IsFiniteSet(Ranked(vec))
  BY <1>1, RankingsAreSequences, RankedAreCounted, EmptySeq
<1>5. \A s \in Seq(ChunkIds) : s = <<>> <=> Len(s) = 0
  BY EmptySeq
<1>6. CASE request.strategy = "lexical"
  <2>1. lexical = Prefix(Read(lex), L)
    BY <1>6 DEF SearchInvariant, ReadsAreCuts
  <2>2. Len(lexical) = IF Len(lex) < L THEN Len(lex) ELSE L
    BY <1>1, <1>2, <2>1, ReadsKeepPlaces
  <2>3. Hits \in Seq(ChunkIds) /\ Len(Hits) = Len(lexical)
    BY <1>3, <1>6, ChunksOfMatches DEF Hits
  <2>4. Available = Ranked(lex)
    BY <1>6 DEF Available
  <2> HIDE DEF L
  <2> QED
    BY <1>2, <1>4, <1>5, <1>6, <2>2, <2>3, <2>4
<1>7. CASE request.strategy = "vector"
  <2>1. vector = Prefix(Read(vec), L)
    BY <1>0, <1>7
  <2>2. Len(vector) = IF Len(vec) < L THEN Len(vec) ELSE L
    BY <1>1, <1>2, <2>1, ReadsKeepPlaces
  <2>3. Hits \in Seq(ChunkIds) /\ Len(Hits) = Len(vector)
    BY <1>3, <1>7, ChunksOfMatches DEF Hits
  <2>4. Available = Ranked(vec)
    BY <1>1, <1>7 DEF Available
  <2> HIDE DEF L
  <2> QED
    BY <1>2, <1>4, <1>5, <1>7, <2>2, <2>3, <2>4
<1>8. CASE request.strategy = "hybrid"
  <2> DEFINE found == Found(lexical) \cup Found(vector)
  <2>1. lexical = Prefix(Read(lex), L) /\ vector = Prefix(Read(vec), L)
    BY <1>0, <1>8 DEF SearchInvariant, ReadsAreCuts
  <2>2. /\ IsFiniteSet(Found(lexical)) /\ Found(lexical) \subseteq Ranked(lex)
        /\ Cardinality(Found(lexical)) = IF Len(lex) < L THEN Len(lex) ELSE L
        /\ Len(lex) <= L => Found(lexical) = Ranked(lex)
    BY <1>1, <1>2, <2>1, ReadsKeepPlaces
  <2>3. /\ IsFiniteSet(Found(vector)) /\ Found(vector) \subseteq Ranked(vec)
        /\ Cardinality(Found(vector)) = IF Len(vec) < L THEN Len(vec) ELSE L
        /\ Len(vec) <= L => Found(vector) = Ranked(vec)
    BY <1>1, <1>2, <2>1, ReadsKeepPlaces
  <2>4. Available = Ranked(lex) \cup Ranked(vec)
    BY <1>1, <1>8 DEF Available
  <2>5. IsFiniteSet(Available) /\ IsFiniteSet(found) /\ found \in SUBSET Available
    BY <1>4, <2>2, <2>3, <2>4, FS_Union
  <2>6. /\ Cardinality(found) \in Nat /\ Cardinality(Available) \in Nat
        /\ Cardinality(found) <= Cardinality(Available)
    BY <2>5, FS_Subset, FS_CardinalityType
  <2>7. found = Available \/ Cardinality(found) >= L
    <3>1. CASE Len(lex) <= L /\ Len(vec) <= L
      BY <2>2, <2>3, <2>4, <3>1
    <3>2. CASE ~(Len(lex) <= L)
      <4>1. Cardinality(Found(lexical)) = L
        BY <1>2, <1>4, <2>2, <3>2
      <4>2. Found(lexical) \in SUBSET found
        OBVIOUS
      <4> QED
        BY <2>5, <4>1, <4>2, FS_Subset
    <3>3. CASE ~(Len(vec) <= L)
      <4>1. Cardinality(Found(vector)) = L
        BY <1>2, <1>4, <2>3, <3>3
      <4>2. Found(vector) \in SUBSET found
        OBVIOUS
      <4> QED
        BY <2>5, <4>1, <4>2, FS_Subset
    <3> QED
      BY <3>1, <3>2, <3>3
  <2>8. Hits = Prefix(Fused(lexical, vector), Probe)
    BY <1>8 DEF Hits, FuseRankings
  <2>9. Fused(lexical, vector) \in Seq(ChunkIds) /\ Len(Fused(lexical, vector)) = Cardinality(found)
    BY <1>3, FusionArranges
  <2>10. /\ Hits \in Seq(ChunkIds)
         /\ Len(Hits) = IF Cardinality(found) < Probe THEN Cardinality(found) ELSE Probe
    BY <1>2, <2>8, <2>9, PrefixIsCut
  <2>11. Available = {} <=> Cardinality(Available) = 0
    BY <2>5, FS_EmptySet
  <2> HIDE DEF L, found
  <2>12. Len(Hits) > request.max <=> Cardinality(Available) > request.max
    BY <1>2, <2>6, <2>7, <2>10
  <2>13. Hits = <<>> <=> Available = {}
    BY <1>2, <1>5, <2>6, <2>7, <2>10, <2>11
  <2> QED
    BY <2>12, <2>13
<1> QED
  BY <1>1, <1>6, <1>7, <1>8 DEF Requests, Strategies

\* A chunk ahead of another in one full ranking, and not behind it in the
\* other, is ahead in every list the components cut from them that has the
\* other.
LEMMA DominatingIsAhead ==
    ASSUME NEW r, Stocked(r), NEW n \in Nat, NEW a, NEW b, a # b,
           RankBelow(PlaceOf(b, r), PlaceOf(a, r)) \/ PlaceOf(b, r) = PlaceOf(a, r),
           RankIn(Prefix(Read(r), n), a) # 0
    PROVE  RankBelow(RankIn(Prefix(Read(r), n), b), RankIn(Prefix(Read(r), n), a))
<1>1. r \in Rankings
  BY DEF Stocked
<1>2. /\ PlaceOf(a, r) \in Nat /\ PlaceOf(b, r) \in Nat
      /\ PlaceOf(a, r) # 0 => r[PlaceOf(a, r)] = a
      /\ PlaceOf(b, r) # 0 => r[PlaceOf(b, r)] = b
  BY <1>1, PlacesInRankings
<1>3. \A c : RankIn(Prefix(Read(r), n), c) = IF PlaceOf(c, r) <= n THEN PlaceOf(c, r) ELSE 0
  BY ReadsKeepPlaces
<1>4. /\ RankIn(Prefix(Read(r), n), a) = PlaceOf(a, r)
      /\ PlaceOf(a, r) # 0 /\ PlaceOf(a, r) <= n
  BY <1>3
<1>5. RankBelow(PlaceOf(b, r), PlaceOf(a, r))
  BY <1>2, <1>4
<1>6. RankIn(Prefix(Read(r), n), b) = PlaceOf(b, r)
  BY <1>2, <1>3, <1>4, <1>5 DEF RankBelow
<1> QED
  BY <1>4, <1>5, <1>6

\* What the fusion makes of an undisturbed hybrid request.
LEMMA DominatingHitsComeFirst ==
    ASSUME SearchInvariant, pc = "answer", changes = began, request.strategy = "hybrid",
           NEW i \in DOMAIN Hits, NEW b \in ChunkIds, Dominates(b, Hits[i])
    PROVE  \E j \in DOMAIN Hits : j < i /\ Hits[j] = b
<1> DEFINE L == ComponentLimit
           lex == index.lexical
           fused == Fused(lexical, vector)
           a == Hits[i]
           candidate(c) == [chunk |-> c, lexicalRank |-> RankIn(lexical, c),
                            vectorRank |-> RankIn(vector, c)]
<1>0. PICK vec \in NearestOrders : vector = Prefix(Read(vec), L)
  BY VectorReadIsCut
<1>1. /\ Stocked(lex) /\ Stocked(vec) /\ index.vector \in Rankings
      /\ Ranked(vec) = Ranked(index.vector)
      /\ \A c, d : Nearer(d, c) => RankBelow(PlaceOf(d, vec), PlaceOf(c, vec))
      /\ request \in Requests /\ request.max \in 1..MaxPublic
      /\ lexical = Prefix(Read(lex), L) /\ vector = Prefix(Read(vec), L)
      /\ lexical \in Seq(Matches) /\ vector \in Seq(Matches)
  BY <1>0, StoredAreStocked, OrdersKeepNearer
     DEF SearchInvariant, RequestInProgress, ReadsAreCuts, TypeOK, Stocked
<1>2. Probe \in Nat /\ L \in Nat
  BY <1>1, LimitsLeaveAProbe
<1>3. /\ fused \in Seq(ChunkIds)
      /\ {fused[m] : m \in DOMAIN fused} = Found(lexical) \cup Found(vector)
      /\ \A x, y \in Candidates(lexical, vector) : Precedes(y, x) =>
            \A m \in DOMAIN fused : fused[m] = x.chunk =>
               \E j \in DOMAIN fused : j < m /\ fused[j] = y.chunk
  <2>1. lexical \in Seq(Matches) /\ vector \in Seq(Matches)
    BY <1>1
  <2>2. fused \in Seq(ChunkIds)
    BY <2>1, FusionArranges
  <2>3. {fused[m] : m \in DOMAIN fused} = Found(lexical) \cup Found(vector)
    BY <2>1, FusionArranges
  <2>4. \A x, y \in Candidates(lexical, vector) : Precedes(y, x) =>
            \A m \in DOMAIN fused : fused[m] = x.chunk =>
               \E j \in DOMAIN fused : j < m /\ fused[j] = y.chunk
    BY <2>1, FusionArranges
  <2> QED
    BY <2>2, <2>3, <2>4
<1>4. Hits = Prefix(fused, Probe)
  BY DEF Hits, FuseRankings
<1>5. /\ i \in DOMAIN fused /\ fused[i] = a
      /\ \A j \in DOMAIN fused : j < i => j \in DOMAIN Hits /\ Hits[j] = fused[j]
  <2>1. /\ DOMAIN Hits = 1..(IF Len(fused) < Probe THEN Len(fused) ELSE Probe)
        /\ \A j \in DOMAIN Hits : j \in DOMAIN fused /\ Hits[j] = fused[j]
    BY <1>2, <1>3, <1>4, PrefixIsCut
  <2>2. DOMAIN fused = 1..Len(fused) /\ Len(fused) \in Nat
    BY <1>3
  <2>3. \A j \in DOMAIN fused : j < i => j \in DOMAIN Hits
    BY <1>2, <2>1, <2>2
  <2> QED
    BY <2>1, <2>3
<1>6. a \in Found(lexical) \cup Found(vector) /\ a \in ChunkIds
  BY <1>1, <1>3, <1>5, FoundAreChunks
<1>7. a # b
  <2>1. PlaceOf(b, lex) \in Nat /\ PlaceOf(b, index.vector) \in Nat
    BY <1>1, PlacesInRankings DEF Stocked
  <2> QED
    BY <2>1 DEF Dominates, Nearer, RankBelow
<1>8. /\ RankBelow(PlaceOf(b, lex), PlaceOf(a, lex)) \/ PlaceOf(b, lex) = PlaceOf(a, lex)
      /\ RankBelow(PlaceOf(b, vec), PlaceOf(a, vec)) \/ PlaceOf(b, vec) = PlaceOf(a, vec)
  <2>1. Ranked(vec) \cap {a, b} = {} => PlaceOf(b, vec) = PlaceOf(a, vec)
    BY DEF PlaceOf
  <2>2. Nearer(b, a) => RankBelow(PlaceOf(b, vec), PlaceOf(a, vec))
    BY <1>1
  <2> HIDE DEF a
  <2> QED
    BY <1>1, <2>1, <2>2 DEF Dominates, a
<1>9. /\ RankIn(lexical, a) # 0 => RankBelow(RankIn(lexical, b), RankIn(lexical, a))
      /\ RankIn(vector, a) # 0 => RankBelow(RankIn(vector, b), RankIn(vector, a))
  BY <1>1, <1>2, <1>7, <1>8, DominatingIsAhead
<1>10. \A c : /\ RankIn(lexical, c) \in Nat /\ (c \in Found(lexical) <=> RankIn(lexical, c) # 0)
              /\ RankIn(vector, c) \in Nat /\ (c \in Found(vector) <=> RankIn(vector, c) # 0)
  BY <1>1, RankIsPosition
<1> HIDE DEF a, fused, L
<1>11. b \in Found(lexical) \cup Found(vector)
  BY <1>6, <1>9, <1>10 DEF RankBelow
<1>12. candidate(a) \in Candidates(lexical, vector) /\ candidate(b) \in Candidates(lexical, vector)
  BY <1>6, <1>11 DEF Candidates
<1>13. candidate(a) \in RankedCandidates /\ candidate(b) \in RankedCandidates
  BY <1>6, <1>10, <1>11 DEF RankedCandidates
<1>14. Precedes(candidate(b), candidate(a))
  BY <1>9, <1>13, AheadWhereverRanked
<1>15. \E j \in DOMAIN fused : j < i /\ fused[j] = b
  BY <1>3, <1>5, <1>12, <1>14
<1> QED
  BY <1>5, <1>15

\* The first hits read of a ranking are the ranking's first.
LEMMA CutsAreStarts ==
    ASSUME NEW r, Stocked(r), NEW n \in Nat, NEW max \in Nat, max <= n
    PROVE  LET m == Prefix(Read(r), n)
           IN  Prefix([i \in DOMAIN m |-> m[i].chunk], max) = Prefix(r, max)
<1> DEFINE m == Prefix(Read(r), n)
           hits == [i \in DOMAIN m |-> m[i].chunk]
           l == Len(r)
           least == IF l < max THEN l ELSE max
<1>1. r \in Seq(ChunkIds) /\ l \in Nat
  BY RankingsAreSequences DEF Stocked
<1>2. /\ m \in Seq(Matches) /\ Len(m) = (IF l < n THEN l ELSE n)
      /\ \A i \in DOMAIN m : i \in DOMAIN r /\ m[i].chunk = r[i]
  BY ReadsKeepPlaces
<1>3. hits \in Seq(ChunkIds) /\ Len(hits) = Len(m)
  BY <1>2, ChunksOfMatches
<1>4. \A i \in DOMAIN hits : hits[i] = r[i]
  BY <1>2
<1> HIDE DEF hits, m, l
<1>5. least \in Nat /\ (IF Len(hits) < max THEN Len(hits) ELSE max) = least
  BY <1>1, <1>2, <1>3
<1>6. /\ Prefix(hits, max) \in Seq(ChunkIds) /\ DOMAIN Prefix(hits, max) = 1..least
      /\ \A i \in 1..least : i \in DOMAIN hits /\ Prefix(hits, max)[i] = hits[i]
  <2> HIDE DEF least
  <2> QED
    BY <1>3, <1>5, PrefixIsCut
<1>7. /\ Prefix(r, max) \in Seq(ChunkIds) /\ DOMAIN Prefix(r, max) = 1..least
      /\ \A i \in 1..least : Prefix(r, max)[i] = r[i]
  BY <1>1, PrefixIsCut DEF l
<1>8. \A i \in 1..least : Prefix(hits, max)[i] = Prefix(r, max)[i]
  <2> HIDE DEF least
  <2> QED
    BY <1>4, <1>6, <1>7
<1>9. Prefix(hits, max) = Prefix(r, max)
  <2> DEFINE a == Prefix(hits, max)  b == Prefix(r, max)
  <2>1. a = [i \in DOMAIN a |-> a[i]] /\ b = [i \in DOMAIN b |-> b[i]]
    <3>1. a \in Seq(ChunkIds) /\ b \in Seq(ChunkIds)
      BY <1>6, <1>7
    <3> HIDE DEF a, b
    <3> QED
      BY <3>1
  <2> HIDE DEF a, b, least
  <2>2. DOMAIN a = DOMAIN b /\ \A i \in DOMAIN a : a[i] = b[i]
    BY <1>6, <1>7, <1>8 DEF a, b
  <2>3. a = b
    BY <2>1, <2>2
  <2> QED
    BY <2>3 DEF a, b
<1> QED
  BY <1>9 DEF hits, m

\* The results are the first hits, the status tells of the probe.
LEMMA ResultsAreFirstHits ==
    ASSUME NEW hits \in Seq(ChunkIds), NEW max \in Nat \ {0}
    PROVE  LET result == BuildResult(hits, max)
           IN  /\ result.status \in {"empty", "partial", "success"}
               /\ result.truncated \in BOOLEAN
               /\ result.status = "partial" <=> Len(hits) > max
               /\ result.status = "empty" <=> hits = <<>>
               /\ result.truncated <=> result.status = "partial"
               /\ result.results \in Seq(ChunkIds) /\ result.results = Prefix(hits, max)
               /\ result.status # "empty" => result.results # <<>>
               /\ \A i \in DOMAIN result.results :
                     i \in DOMAIN hits /\ result.results[i] = hits[i]
               /\ \A i \in DOMAIN result.results, j \in DOMAIN hits :
                     j < i => j \in DOMAIN result.results
<1>1. Len(hits) \in Nat /\ DOMAIN hits = 1..Len(hits) /\ (hits = <<>> <=> Len(hits) = 0)
  BY EmptySeq
<1> DEFINE kept == Prefix(hits, max)
<1>2. /\ kept \in Seq(ChunkIds)
      /\ DOMAIN kept = 1..(IF Len(hits) < max THEN Len(hits) ELSE max)
      /\ \A i \in DOMAIN kept : i \in DOMAIN hits /\ kept[i] = hits[i]
  BY PrefixIsCut
<1>3. ASSUME NEW i \in DOMAIN kept, NEW j \in DOMAIN hits, j < i PROVE j \in DOMAIN kept
  BY <1>1, <1>2, <1>3
<1>9. hits # <<>> => kept # <<>>
  <2>1. hits # <<>> => 1 \in DOMAIN kept
    BY <1>1, <1>2
  <2> HIDE DEF kept
  <2>2. kept = <<>> => DOMAIN kept = {}
    OBVIOUS
  <2> QED
    BY <2>1, <2>2
<1> HIDE DEF kept
<1>4. BuildResult(hits, max).results = kept
  BY DEF BuildResult, kept
<1>5. BuildResult(hits, max).status =
         IF hits = <<>> THEN "empty" ELSE IF Len(hits) > max THEN "partial" ELSE "success"
  BY DEF BuildResult
<1>6. /\ BuildResult(hits, max).results \in Seq(ChunkIds)
      /\ \A i \in DOMAIN BuildResult(hits, max).results :
            i \in DOMAIN hits /\ BuildResult(hits, max).results[i] = hits[i]
      /\ \A i \in DOMAIN BuildResult(hits, max).results, j \in DOMAIN hits :
            j < i => j \in DOMAIN BuildResult(hits, max).results
  BY <1>2, <1>3, <1>4
<1>7. /\ BuildResult(hits, max).truncated \in BOOLEAN
      /\ BuildResult(hits, max).truncated <=> Len(hits) > max
  <2>1. BuildResult(hits, max).truncated = (Len(hits) > max)
    BY Zenon DEF BuildResult
  <2>2. (Len(hits) > max) \in BOOLEAN
    OBVIOUS
  <2> QED
    BY <2>1, <2>2, Zenon
<1>8. /\ BuildResult(hits, max).status \in {"empty", "partial", "success"}
      /\ BuildResult(hits, max).status = "partial" <=> Len(hits) > max
      /\ BuildResult(hits, max).status = "empty" <=> hits = <<>>
  BY <1>1, <1>5
<1>10. /\ BuildResult(hits, max).results = Prefix(hits, max)
       /\ BuildResult(hits, max).status # "empty" => BuildResult(hits, max).results # <<>>
  BY <1>4, <1>8, <1>9 DEF kept
<1> QED
  BY <1>6, <1>7, <1>8, <1>10

----------------------------------------------------------------------------
(* The steps of a request.                                                 *)

LEMMA SearchInitEstablishes == Init => SearchInvariant
<1> SUFFICES ASSUME Init PROVE SearchInvariant
  OBVIOUS
<1>1. FirstVersion \in [ChunkIds -> Versions] /\ None \notin Versions
  BY SearchAssumption DEF FirstVersion
<1>2. PICK l \in Rankings, v \in Rankings, space \in Spaces \cup {None} :
         \E tied \in SUBSET (2..Len(v)) :
            /\ space = None => v = <<>>
            /\ TiesInOrder(v, tied)
            /\ index = [lexical |-> l, vector |-> v, tied |-> tied, version |-> FirstVersion,
                        space |-> space,
                        dimension |-> IF space = None THEN 0 ELSE SpaceDimension[space]]
  BY DEF Init
<1>3. index \in IndexRecords
  <2>1. PICK tied \in SUBSET (2..Len(v)) :
           index = [lexical |-> l, vector |-> v, tied |-> tied, version |-> FirstVersion,
                    space |-> space,
                    dimension |-> IF space = None THEN 0 ELSE SpaceDimension[space]]
    BY <1>2
  <2>2. Len(v) \in Nat /\ Cardinality(ChunkIds) \in Nat /\ Len(v) <= Cardinality(ChunkIds)
    <3>1. Cardinality(ChunkIds) \in Nat
      BY FusionAssumption, FS_CardinalityType
    <3>2. PICK n \in 0..Cardinality(ChunkIds) : v \in [1..n -> ChunkIds]
      BY DEF Rankings
    <3>3. Len(v) = n
      BY <3>1, <3>2, RankingsAreSequences
    <3> QED
      BY <3>1, <3>2, <3>3
  <2>3. tied \in SUBSET (2..Cardinality(ChunkIds))
    BY <2>1, <2>2
  <2> QED
    BY <1>1, <2>1, <2>3 DEF IndexRecords
<1>4. Ranked(l) \subseteq ChunkIds /\ Ranked(v) \subseteq ChunkIds
  BY RankingsAreSequences
<1>5. index.dimension = 0 => index.vector = <<>>
  BY <1>2, SearchAssumption
<1>6. IsIndex(index)
  BY <1>1, <1>2, <1>3, <1>4, <1>5 DEF IsIndex
<1>7. TypeOK
  BY <1>3, SearchAssumption, EmptySeq DEF Init, TypeOK, NoAnswer, Without
<1>8. /\ pc = "idle" /\ began = 0 /\ changes = 0 /\ ~Answered
  BY DEF Init, NoAnswer, Without, Answered
<1> QED
  BY <1>6, <1>7, <1>8 DEF SearchInvariant, RequestInProgress, ReadsAreCuts, VectorsWereReady,
     AnswersAreAsked, AnswersAreCuts, StatusIsHonest, DominatedComesLater

\* Nothing is claimed of a request that is not answered.
LEMMA UnansweredIsHonest ==
    ASSUME ~Answered
    PROVE  StatusIsHonest /\ DominatedComesLater /\ AnswersAreAsked /\ AnswersAreCuts
BY DEF StatusIsHonest, DominatedComesLater, AnswersAreAsked, AnswersAreCuts

LEMMA NearestAreStable ==
    ASSUME index' = index
    PROVE  NearestOrders' = NearestOrders /\ \A a, b : Nearer(b, a)' <=> Nearer(b, a)
<1>1. \A a, b : Nearer(b, a)' <=> Nearer(b, a)
  BY DEF Nearer
<1> QED
  BY <1>1 DEF NearestOrders

\* Until others commit, a read of the index returns the same.
LEMMA ReadsAreStable ==
    ASSUME index' = index, request' = request
    PROVE  /\ Read(index.lexical)' = Read(index.lexical)
           /\ \A r : Read(r)' = Read(r)
           /\ ComponentLimit' = ComponentLimit /\ Probe' = Probe
           /\ NearestOrders' = NearestOrders
           /\ \A a, b : Dominates(b, a)' <=> Dominates(b, a)
<1>1. NearestOrders' = NearestOrders /\ \A a, b : Nearer(b, a)' <=> Nearer(b, a)
  BY NearestAreStable
<1>2. \A a, b : Dominates(b, a)' <=> Dominates(b, a)
  BY <1>1 DEF Dominates
<1> QED
  BY <1>1, <1>2 DEF Read, ComponentLimit, CandidateLimit, Probe

\* A request begins: within bounds or not, with or without a provider.
LEMMA BeginKeeps ==
    ASSUME SearchInvariant, NEW strategy \in Strategies, NEW max \in Nat,
           Begin(strategy, max), requests' \in 0..MaxRequests
    PROVE  SearchInvariant'
<1>1. TypeOK'
  BY EmptySeq DEF SearchInvariant, TypeOK, Begin, Requests, NoAnswer, Without
<1>2. IsIndex(index)'
  BY DEF SearchInvariant, Begin, IsIndex
<1>3. ~Answered' /\ answer' = NoAnswer /\ request' \in Requests
  BY DEF Begin, Answered, NoAnswer, Without, Requests
<1>4. RequestInProgress'
  BY <1>1, <1>3 DEF SearchInvariant, TypeOK, RequestInProgress, Begin, NoAnswer, Without
<1>5. ReadsAreCuts' /\ VectorsWereReady'
  BY <1>3 DEF ReadsAreCuts, VectorsWereReady, Begin
<1> QED
  BY <1>1, <1>2, <1>3, <1>4, <1>5, UnansweredIsHonest, PTL DEF SearchInvariant

\* A request ends with an error, at whatever read.
LEMMA ErrorKeeps ==
    ASSUME SearchInvariant, NEW error \in Errors, End(Without(error)),
           UNCHANGED <<readVars, request, began>>
    PROVE  SearchInvariant'
<1>1. ~Answered'
  BY DEF End, Answered, Without, Errors
<1>2. TypeOK'
  BY EmptySeq DEF SearchInvariant, TypeOK, End, Without, readVars
<1>3. IsIndex(index)'
  BY DEF SearchInvariant, readVars, IsIndex
<1>4. RequestInProgress' /\ ReadsAreCuts' /\ VectorsWereReady'
  BY <1>1 DEF SearchInvariant, RequestInProgress, ReadsAreCuts, VectorsWereReady, End, readVars
<1> QED
  BY <1>1, <1>2, <1>3, <1>4, UnansweredIsHonest, PTL DEF SearchInvariant

\* Past its bounds check a request asks for a number that is allowed.
LEMMA AdmittedIsBounded ==
    ASSUME SearchInvariant, pc # "idle", ~Refused
    PROVE  request \in Requests /\ request.max \in 1..MaxPublic /\ ComponentLimit \in Nat
<1>1. request \in Requests /\ request.max \in Nat
  BY DEF SearchInvariant, RequestInProgress, Requests
<1>2. request.max \in 1..MaxPublic
  BY <1>1, SearchAssumption DEF Refused
<1> QED
  BY <1>1, <1>2, LimitsLeaveAProbe

LEMMA ReadLexicalKeeps ==
    ASSUME SearchInvariant, ReadLexical
    PROVE  SearchInvariant'
<1>1. request \in Requests /\ request.max \in 1..MaxPublic /\ ComponentLimit \in Nat
  BY AdmittedIsBounded DEF ReadLexical
<1>2. lexical' \in Seq(Matches)
  BY <1>1, StoredAreStocked, ReadsKeepPlaces DEF SearchInvariant, ReadLexical
<1>3. TypeOK'
  BY <1>2 DEF SearchInvariant, TypeOK, ReadLexical, readVars
<1>4. IsIndex(index)'
  BY DEF SearchInvariant, ReadLexical, readVars, IsIndex
<1>5. answer = NoAnswer /\ ~Answered'
  BY DEF SearchInvariant, RequestInProgress, ReadLexical, Answered, NoAnswer, Without
<1>6. RequestInProgress'
  BY <1>1, <1>5 DEF SearchInvariant, RequestInProgress, ReadLexical, readVars, NoAnswer, Without
<1>7. ReadsAreCuts'
  <2>1. lexical' = Prefix(Read(index.lexical)', ComponentLimit')
    BY ReadsAreStable DEF ReadLexical, readVars
  <2>2. request.strategy # "vector" /\ request' = request
    BY DEF SearchInvariant, RequestInProgress, ReadLexical
  <2>3. pc' = "answer" => request.strategy = "lexical"
    BY <1>1, <2>2 DEF ReadLexical, Requests, Strategies
  <2> QED
    BY <2>1, <2>2, <2>3 DEF ReadsAreCuts
<1>8. VectorsWereReady'
  <2>1. pc' \in {"vectorState", "answer"} /\ request' = request
    BY DEF ReadLexical
  <2>2. pc' = "answer" => request.strategy = "lexical"
    BY <1>1 DEF ReadLexical, Requests, Strategies, SearchInvariant, RequestInProgress
  <2> QED
    BY <1>5, <2>1, <2>2 DEF VectorsWereReady
<1> QED
  BY <1>3, <1>4, <1>5, <1>6, <1>7, <1>8, UnansweredIsHonest, PTL DEF SearchInvariant

LEMMA CheckVectorStateKeeps ==
    ASSUME SearchInvariant, CheckVectorState
    PROVE  SearchInvariant'
<1>1. request \in Requests /\ request.max \in 1..MaxPublic
  BY AdmittedIsBounded DEF CheckVectorState
<1>2. TypeOK' /\ IsIndex(index)'
  BY DEF SearchInvariant, TypeOK, CheckVectorState, readVars, IsIndex
<1>3. answer = NoAnswer /\ ~Answered'
  BY DEF SearchInvariant, RequestInProgress, CheckVectorState, Answered, NoAnswer, Without
<1>4. RequestInProgress'
  BY <1>1, <1>3 DEF SearchInvariant, RequestInProgress, CheckVectorState, readVars, NoAnswer, Without
<1>5. ReadsAreCuts'
  BY ReadsAreStable DEF SearchInvariant, ReadsAreCuts, CheckVectorState, readVars
<1>6. VectorsWereReady'
  BY <1>3 DEF VectorsWereReady, CheckVectorState, readVars
<1> QED
  BY <1>2, <1>3, <1>4, <1>5, <1>6, UnansweredIsHonest, PTL DEF SearchInvariant

LEMMA ReadVectorsKeeps ==
    ASSUME SearchInvariant, ReadVectors
    PROVE  SearchInvariant'
<1>1. request \in Requests /\ request.max \in 1..MaxPublic
  BY DEF SearchInvariant, RequestInProgress, ReadVectors
<1>0. PICK order \in NearestOrders : vector' = Prefix(Read(order), ComponentLimit)
  BY DEF ReadVectors
<1>2. vector' \in Seq(Matches)
  BY <1>0, <1>1, LimitsLeaveAProbe, OrdersKeepNearer, ReadsKeepPlaces DEF SearchInvariant
<1>3. TypeOK'
  BY <1>2 DEF SearchInvariant, TypeOK, ReadVectors, readVars, IndexRecords
<1>4. IsIndex(index)'
  BY DEF SearchInvariant, ReadVectors, readVars, IsIndex
<1>5. answer = NoAnswer /\ ~Answered'
  BY DEF SearchInvariant, RequestInProgress, ReadVectors, Answered, NoAnswer, Without
<1>6. RequestInProgress'
  BY <1>1, <1>5 DEF SearchInvariant, RequestInProgress, ReadVectors, readVars, NoAnswer, Without
<1>7. ReadsAreCuts'
  <2>1. /\ Read(order)' = Read(order) /\ order \in NearestOrders'
        /\ Read(index.lexical)' = Read(index.lexical) /\ ComponentLimit' = ComponentLimit
    BY ReadsAreStable DEF ReadVectors, readVars
  <2> QED
    BY <1>0, <2>1 DEF SearchInvariant, ReadsAreCuts, ReadVectors, readVars
<1>8. VectorsWereReady'
  BY <1>5 DEF SearchInvariant, VectorsWereReady, ReadVectors, readVars, TableTakesQuery
<1> QED
  BY <1>3, <1>4, <1>5, <1>6, <1>7, <1>8, UnansweredIsHonest, PTL DEF SearchInvariant

\* The answer: what is claimed of it holds because its reads were those of
\* the index it is compared with.
LEMMA AnswerKeeps ==
    ASSUME SearchInvariant, Answer
    PROVE  SearchInvariant'
<1> DEFINE hits == Hits
           max == request.max
           result == BuildResult(hits, max)
<1>1. /\ pc = "answer" /\ pc' = "idle" /\ answer' = result
      /\ lexical' = <<>> /\ vector' = <<>> /\ used' = None
      /\ index' = index /\ changes' = changes /\ session' = session
      /\ requests' = requests /\ request' = request /\ began' = began
  BY DEF Answer, End, readVars
<1>2. request \in Requests /\ max \in 1..MaxPublic /\ max \in Nat \ {0}
  BY <1>1, LimitsLeaveAProbe DEF SearchInvariant, RequestInProgress
<1>3. hits \in Seq(ChunkIds)
  BY <1>1, <1>2, HitsAreChunks DEF SearchInvariant
<1> HIDE DEF hits
<1>4. /\ result.status \in {"empty", "partial", "success"}
      /\ result.truncated \in BOOLEAN
      /\ result.status = "partial" <=> Len(hits) > max
      /\ result.status = "empty" <=> hits = <<>>
      /\ result.truncated <=> result.status = "partial"
      /\ result.results \in Seq(ChunkIds) /\ result.results = Prefix(hits, max)
      /\ result.status # "empty" => result.results # <<>>
      /\ \A i \in DOMAIN result.results :
            i \in DOMAIN hits /\ result.results[i] = hits[i]
      /\ \A i \in DOMAIN result.results, j \in DOMAIN hits :
            j < i => j \in DOMAIN result.results
  BY <1>2, <1>3, ResultsAreFirstHits
<1> HIDE DEF result, max
<1>5. TypeOK'
  BY <1>1, <1>4, EmptySeq DEF SearchInvariant, TypeOK
<1>6. IsIndex(index)' /\ RequestInProgress' /\ ReadsAreCuts'
  BY <1>1 DEF SearchInvariant, IsIndex, RequestInProgress, ReadsAreCuts
<1>7. VectorsWereReady'
  BY <1>1 DEF SearchInvariant, VectorsWereReady, TableTakesQuery
<1>8. AnswersAreAsked'
  BY <1>1, <1>2 DEF AnswersAreAsked, max
<1>9. StatusIsHonest'
  <2> SUFFICES ASSUME changes = began
               PROVE  /\ answer'.status = "partial" <=> Cardinality(Available') > request'.max
                      /\ answer'.status = "empty" <=> Available' = {}
                      /\ answer'.truncated <=> answer'.status = "partial"
    BY <1>1 DEF StatusIsHonest
  <2>1. Available' = Available
    BY <1>1 DEF Available
  <2>2. /\ Len(hits) > max <=> Cardinality(Available) > max
        /\ hits = <<>> <=> Available = {}
    BY <1>1, HitsTellAll DEF hits, max
  <2> QED
    BY <1>1, <1>4, <2>1, <2>2 DEF max
<1>10. DominatedComesLater'
  <2> SUFFICES ASSUME changes = began, request.strategy = "hybrid",
                      NEW i \in DOMAIN result.results, NEW b \in ChunkIds,
                      Dominates(b, result.results[i])
               PROVE  \E j \in DOMAIN result.results : j < i /\ result.results[j] = b
    BY <1>1, ReadsAreStable DEF DominatedComesLater
  <2>1. i \in DOMAIN hits /\ result.results[i] = hits[i]
    BY <1>4
  <2>2. PICK j \in DOMAIN hits : j < i /\ hits[j] = b
    BY <1>1, <2>1, DominatingHitsComeFirst DEF hits
  <2> QED
    BY <1>4, <2>2
<1>11. AnswersAreCuts'
  <2> SUFFICES ASSUME changes = began
               PROVE  /\ request.strategy = "lexical" => result.results = Prefix(index.lexical, max)
                      /\ request.strategy = "vector" =>
                            \E order \in NearestOrders : result.results = Prefix(order, max)
    BY <1>1, <1>4, ReadsAreStable DEF AnswersAreCuts, max
  <2>1. /\ Stocked(index.lexical)
        /\ Probe \in Nat /\ Probe = max + 1
        /\ request.strategy # "hybrid" => ComponentLimit = Probe
    BY <1>2, StoredAreStocked, LimitsLeaveAProbe DEF SearchInvariant, max
  <2>2. max \in Nat /\ max <= Probe
    BY <1>2, <2>1
  <2>3. CASE request.strategy = "lexical"
    <3>1. lexical = Prefix(Read(index.lexical), Probe)
      BY <1>1, <2>1, <2>3 DEF SearchInvariant, ReadsAreCuts
    <3>2. hits = [i \in DOMAIN lexical |-> lexical[i].chunk]
      BY <2>3 DEF hits, Hits
    <3>3. Prefix(hits, max) = Prefix(index.lexical, max)
      BY <2>1, <2>2, <3>1, <3>2, CutsAreStarts
    <3> QED
      BY <1>4, <2>3, <3>3
  <2>4. CASE request.strategy = "vector"
    <3>1. PICK order \in NearestOrders : vector = Prefix(Read(order), Probe)
      BY <1>1, <2>1, <2>4 DEF SearchInvariant, ReadsAreCuts
    <3>4. Stocked(order)
      BY OrdersKeepNearer DEF SearchInvariant
    <3>2. hits = [i \in DOMAIN vector |-> vector[i].chunk]
      BY <2>4 DEF hits, Hits
    <3>3. Prefix(hits, max) = Prefix(order, max)
      BY <2>1, <2>2, <3>1, <3>2, <3>4, CutsAreStarts
    <3> QED
      BY <1>4, <2>4, <3>3
  <2> QED
    BY <2>3, <2>4
<1> QED
  BY <1>5, <1>6, <1>7, <1>8, <1>9, <1>10, <1>11 DEF SearchInvariant

\* Once others have committed nothing is claimed of what was read before.
LEMMA OthersCommitKeeps ==
    ASSUME SearchInvariant, NEW new \in Changes, OthersCommit(new)
    PROVE  SearchInvariant'
<1>1. IsIndex(new) /\ new \in IndexRecords
  BY ChangesAssumption DEF IsIndex
<1>2. changes' # began' /\ began' <= changes' /\ changes' \in 0..MaxChanges
  BY SearchAssumption DEF SearchInvariant, TypeOK, RequestInProgress, OthersCommit
<1>3. TypeOK'
  BY <1>1, <1>2 DEF SearchInvariant, TypeOK, OthersCommit
<1>4. IsIndex(index)'
  BY <1>1 DEF OthersCommit, IsIndex
<1>5. RequestInProgress' /\ AnswersAreAsked'
  BY <1>2 DEF SearchInvariant, RequestInProgress, AnswersAreAsked, Answered, OthersCommit
<1>6. /\ ReadsAreCuts' /\ VectorsWereReady' /\ StatusIsHonest' /\ DominatedComesLater'
      /\ AnswersAreCuts'
  BY <1>2 DEF ReadsAreCuts, VectorsWereReady, StatusIsHonest, DominatedComesLater, AnswersAreCuts
<1> QED
  BY <1>3, <1>4, <1>5, <1>6 DEF SearchInvariant

LEMMA SearchStutterKeeps ==
    ASSUME SearchInvariant, UNCHANGED vars
    PROVE  SearchInvariant'
<1>1. ReadsAreCuts' /\ AnswersAreCuts' /\ DominatedComesLater'
  BY ReadsAreStable
     DEF SearchInvariant, ReadsAreCuts, AnswersAreCuts, DominatedComesLater, Answered, vars
<1> QED
  BY <1>1 DEF SearchInvariant, TypeOK, RequestInProgress, VectorsWereReady, AnswersAreAsked,
     StatusIsHonest, Answered, IsIndex, TableTakesQuery, Available, vars

LEMMA SearchStepKeeps ==
    ASSUME SearchInvariant, SearchStep
    PROVE  SearchInvariant'
<1>1. ASSUME Refuse PROVE SearchInvariant'
  BY <1>1, ErrorKeeps DEF Refuse, Errors
<1>2. ASSUME RejectVectorState PROVE SearchInvariant'
  BY <1>2, ErrorKeeps DEF RejectVectorState, Errors
<1>3. ASSUME RejectQuery PROVE SearchInvariant'
  BY <1>3, ErrorKeeps DEF RejectQuery, Errors
<1>4. ASSUME FailRead PROVE SearchInvariant'
  BY <1>4, ErrorKeeps DEF FailRead, Errors
<1>5. ASSUME FailFusion PROVE SearchInvariant'
  BY <1>5, ErrorKeeps DEF FailFusion, Errors
<1> QED
  BY <1>1, <1>2, <1>3, <1>4, <1>5, ReadLexicalKeeps, CheckVectorStateKeeps, ReadVectorsKeeps,
     AnswerKeeps DEF SearchStep

LEMMA SearchNextKeeps == SearchInvariant /\ [Next]_vars => SearchInvariant'
<1> SUFFICES ASSUME SearchInvariant, [Next]_vars PROVE SearchInvariant'
  OBVIOUS
<1>1. ASSUME NEW strategy \in Strategies, NEW max \in 0..MaxPublic + 1, Search(strategy, max)
      PROVE  SearchInvariant'
  <2>1. max \in Nat
    BY SearchAssumption
  <2>2. requests' \in 0..MaxRequests
    BY <1>1, SearchAssumption DEF Search, SearchInvariant, TypeOK
  <2> QED
    BY <1>1, <2>1, <2>2, BeginKeeps DEF Search
<1> QED
  BY <1>1, SearchStepKeeps, OthersCommitKeeps, SearchStutterKeeps DEF Next

----------------------------------------------------------------------------
(* Searches: theorems.                                                     *)

\* Every reachable state of a process that answers requests while others
\* commit satisfies the invariant.
THEOREM SearchInvariance == Spec => []SearchInvariant
BY SearchInitEstablishes, SearchNextKeeps, PTL DEF Spec

\* An answer no commit fell into says whether there is more than it shows,
\* and whether there is anything, of the whole index: the candidate limits
\* never hide the difference.
THEOREM StatusesAreHonest == Spec => []StatusIsHonest
<1>1. SearchInvariant => StatusIsHonest
  BY DEF SearchInvariant
<1> QED
  BY SearchInvariance, <1>1, PTL

\* A hybrid answer no commit fell into shows every chunk after those that
\* both full rankings put at least as high, one of them higher.
THEOREM DominatedAreLater == Spec => []DominatedComesLater
<1>1. SearchInvariant => DominatedComesLater
  BY DEF SearchInvariant
<1> QED
  BY SearchInvariance, <1>1, PTL

----------------------------------------------------------------------------
(* The invariant of an evaluation.                                         *)

\* The queries of the second strategy begin after those of the first.
AskedVectors == Len(scores) > Len(Golden)

\* Where an evaluation is, told from what it has done.
PhaseIsTold ==
    /\ since <= changes
    /\ phase \in {"none", "resolving"} => scores = <<>> /\ ~asked
    /\ phase = "none" => resolved = <<0, 0>>
    /\ phase = "resolving" =>
          resolved[1] < Len(Golden) /\ resolved[2] < Len(Golden[resolved[1] + 1].relevant)
    /\ phase \in {"evaluating", "reported"} => resolved = <<Len(Golden), 0>>
    /\ phase = "evaluating" => Len(scores) < Len(Plan)
    /\ phase = "reported" => Len(scores) = Len(Plan)

\* The request an evaluation waits for is its own, and began after it.
AskedIsCurrent ==
    phase = "evaluating" /\ asked =>
        /\ request = [strategy |-> Current.strategy, max |-> k]
        /\ since <= began

\* The references looked up are stored.
ResolvedAreStored ==
    changes = since /\ phase \in {"resolving", "evaluating", "reported"} =>
        /\ \A q \in 1..resolved[1] : \A c \in Relevant(q) : Resolves(c)
        /\ \A n \in 1..resolved[2] : Resolves(Golden[resolved[1] + 1].relevant[n])

\* A vector search has been answered only by an index that was there.
VectorsWereThere ==
    changes = since /\ AskedVectors => index.space = session /\ TableTakesQuery

\* What the first `cutoff' chunks of a ranking are worth for a query.
RecallAt(cutoff, ranking, q) ==
    <<Cardinality(Relevant(q) \cap Ranked(Prefix(ranking, cutoff))), Cardinality(Relevant(q))>>
ReciprocalAt(cutoff, ranking, q) ==
    LET places == {PlaceOf(c, Prefix(ranking, cutoff)) : c \in Relevant(q)} \ {0}
    IN  IF places = {} THEN <<0, 1>> ELSE <<1, Min(places)>>

\* A score says that of the start of a ranking.
TellsOf(score, cutoff, ranking, q) ==
    /\ RecallOf(score, q) = RecallAt(cutoff, ranking, q)
    /\ ReciprocalOf(score) = ReciprocalAt(cutoff, ranking, q)

\* The chunks that are first in both rankings, and nearer than every other.
FirstInBoth ==
    {c \in ChunkIds : /\ PlaceOf(c, index.lexical) = 1
                      /\ PlaceOf(c, index.vector) = 1 /\ 2 \notin index.tied}

\* What the score of a query under a strategy says of the two rankings, of
\* which the vector one may have any of some orders.
Tells(score, entry, cutoff, byWords, orders, first) ==
    /\ entry.strategy = "lexical" => TellsOf(score, cutoff, byWords, entry.query)
    /\ entry.strategy = "vector" => \E order \in orders : TellsOf(score, cutoff, order, entry.query)
    /\ entry.strategy = "hybrid" =>
          \A c \in Relevant(entry.query) : c \in first => score.rank = 1

\* Unless others have committed, the scores so far measure the index.
ScoresMeasure ==
    changes = since =>
        \A n \in DOMAIN scores :
            Tells(scores[n], Plan[n], k, index.lexical, NearestOrders, FirstInBoth)

EvaluationInvariant ==
    /\ SearchInvariant
    /\ EvaluationTypeOK
    /\ PhaseIsTold
    /\ AskedIsCurrent
    /\ ResolvedAreStored
    /\ VectorsWereThere
    /\ ScoresMeasure

----------------------------------------------------------------------------
(* The dataset and the plan.                                               *)

LEMMA DatasetShape ==
    /\ Len(Golden) \in Nat \ {0}
    /\ DOMAIN Golden = 1..Len(Golden)
    /\ \A q \in DOMAIN Golden :
          /\ Golden[q].relevant \in Rankings /\ Golden[q].relevant # <<>>
          /\ Len(Golden[q].relevant) \in Nat \ {0}
          /\ DOMAIN Golden[q].relevant = 1..Len(Golden[q].relevant)
          /\ Relevant(q) \subseteq ChunkIds
<1>1. Len(Golden) \in Nat \ {0} /\ DOMAIN Golden = 1..Len(Golden)
  BY GoldenAssumption, EmptySeq
<1>2. ASSUME NEW q \in DOMAIN Golden
      PROVE  /\ Golden[q].relevant \in Rankings /\ Golden[q].relevant # <<>>
             /\ Len(Golden[q].relevant) \in Nat \ {0}
             /\ DOMAIN Golden[q].relevant = 1..Len(Golden[q].relevant)
             /\ Relevant(q) \subseteq ChunkIds
  <2>1. Golden[q] \in [relevant : Rankings \ {<<>>}, category : Categories]
    BY <1>1, GoldenAssumption, ElementOfSeq
  <2>2. Golden[q].relevant \in Rankings /\ Golden[q].relevant # <<>>
    BY <2>1
  <2>3. Golden[q].relevant \in Seq(ChunkIds) /\ Relevant(q) \subseteq ChunkIds
    BY <2>2, RankingsAreSequences DEF Relevant
  <2> QED
    BY <2>2, <2>3, EmptySeq
<1> QED
  BY <1>1, <1>2

LEMMA QuotientsAndRemainders ==
    ASSUME NEW m \in Nat, NEW n \in Nat \ {0}
    PROVE  /\ m \div n \in Nat /\ m % n \in 0..(n - 1)
           /\ m < 3 * n => m \div n \in 0..2
           /\ m = n => m \div n = 1
<1>1. m \div n \in Nat /\ m % n \in 0..(n - 1) /\ m = n * (m \div n) + (m % n)
  OBVIOUS
<1> DEFINE q == m \div n  r == m % n
<1>2. q \in Nat /\ r \in 0..(n - 1) /\ m = n * q + r
  BY <1>1
<1> HIDE DEF q, r
<1>3. m < 3 * n => q <= 2
  <2> SUFFICES ASSUME m < 3 * n, q >= 3 PROVE FALSE
    BY <1>2
  <2>1. n * q >= n * 3
    BY <1>2
  <2> QED
    BY <1>2, <2>1
<1>4. m = n => q = 1
  <2> SUFFICES ASSUME m = n PROVE q = 1
    OBVIOUS
  <2>1. q # 0
    BY <1>2
  <2>2. q < 2
    <3> SUFFICES ASSUME q >= 2 PROVE FALSE
      BY <1>2
    <3>1. n * q >= n * 2
      BY <1>2
    <3> QED
      BY <1>2, <3>1
  <2> QED
    BY <1>2, <2>1, <2>2
<1> QED
  BY <1>2, <1>3, <1>4 DEF q, r

\* Every search of the plan is of a strategy and a query there are, and the
\* first after those of the first strategy is a vector search.
LEMMA PlanShape ==
    /\ Len(Plan) = 3 * Len(Golden) /\ Len(Plan) \in Nat
    /\ \A n \in 0..(Len(Plan) - 1) :
          /\ Plan[n + 1].strategy \in Strategies
          /\ Plan[n + 1].query \in DOMAIN Golden
          /\ n = Len(Golden) => Plan[n + 1].strategy = "vector"
<1> DEFINE g == Len(Golden)
           entry(n) == [strategy |-> DefaultStrategies[((n - 1) \div g) + 1],
                        query    |-> ((n - 1) % g) + 1]
<1>1. g \in Nat \ {0} /\ DOMAIN Golden = 1..g
  BY DatasetShape
<1>2. Len(DefaultStrategies) = 3
  BY DEF DefaultStrategies
<1>3. Plan = [n \in 1..(3 * g) |-> entry(n)]
  BY <1>2 DEF Plan
<1> HIDE DEF g
<1>4. Len(Plan) = 3 * g /\ Len(Plan) \in Nat
  BY <1>1, <1>3
<1>5. ASSUME NEW n \in 0..(Len(Plan) - 1)
      PROVE  /\ Plan[n + 1].strategy \in Strategies
             /\ Plan[n + 1].query \in DOMAIN Golden
             /\ n = g => Plan[n + 1].strategy = "vector"
  <2>1. n \in Nat /\ n < 3 * g /\ n + 1 \in 1..(3 * g) /\ (n + 1) - 1 = n
    BY <1>1, <1>4
  <2>2. /\ Plan[n + 1].strategy = DefaultStrategies[(n \div g) + 1]
        /\ Plan[n + 1].query = (n % g) + 1
    BY <1>3, <2>1
  <2>3. n \div g \in 0..2 /\ n % g \in 0..(g - 1) /\ (n = g => n \div g = 1)
    BY <1>1, <2>1, QuotientsAndRemainders
  <2>4. \A i \in 0..2 : DefaultStrategies[i + 1] \in Strategies
    BY DEF DefaultStrategies, Strategies
  <2>5. DefaultStrategies[2] = "vector"
    BY DEF DefaultStrategies
  <2>6. Plan[n + 1].query \in 1..g
    BY <1>1, <2>2, <2>3
  <2> QED
    BY <1>1, <2>2, <2>3, <2>4, <2>5, <2>6
<1> QED
  BY <1>4, <1>5 DEF g

LEMMA QuotientIsUnique ==
    ASSUME NEW m \in Nat, NEW n \in Nat \ {0}, NEW a \in Nat, NEW r \in 0..(n - 1),
           m = n * a + r
    PROVE  m \div n = a /\ m % n = r
<1> DEFINE b == m \div n  s == m % n
<1>1. b \in Nat /\ s \in 0..(n - 1) /\ m = n * b + s
  OBVIOUS
<1> HIDE DEF b, s
<1>2. \A x, y \in Nat : x < y => n * x + n <= n * y
  <2> SUFFICES ASSUME NEW x \in Nat, NEW y \in Nat, x < y PROVE n * x + n <= n * y
    OBVIOUS
  <2> DEFINE d == y - (x + 1)
  <2>1. d \in Nat /\ y = x + 1 + d
    OBVIOUS
  <2> HIDE DEF d
  <2>2. n * y = n * x + n + n * d /\ n * d \in Nat /\ n * x \in Nat
    BY <2>1
  <2> QED
    BY <2>2
<1>3. n * a \in Nat /\ n * b \in Nat
  BY <1>1
<1>4. ~(a < b)
  BY <1>1, <1>2, <1>3
<1>5. ~(b < a)
  BY <1>1, <1>2, <1>3
<1>6. a = b
  BY <1>1, <1>4, <1>5
<1> QED
  BY <1>1, <1>3, <1>6 DEF b, s

\* Where the plan has a query under a strategy.
LEMMA PlanOrder ==
    ASSUME NEW n \in 1..3, NEW q \in DOMAIN Golden
    PROVE  /\ (n - 1) * Len(Golden) + q \in 1..Len(Plan)
           /\ Plan[(n - 1) * Len(Golden) + q].strategy = DefaultStrategies[n]
           /\ Plan[(n - 1) * Len(Golden) + q].query = q
<1> DEFINE g == Len(Golden)
           i == (n - 1) * g + q
<1>1. g \in Nat \ {0} /\ DOMAIN Golden = 1..g /\ Len(Plan) = 3 * g
  BY DatasetShape, PlanShape
<1>2. Plan = [j \in 1..(3 * g) |-> [strategy |-> DefaultStrategies[((j - 1) \div g) + 1],
                                    query    |-> ((j - 1) % g) + 1]]
  BY DEF Plan, DefaultStrategies
<1> HIDE DEF g
<1>3. n - 1 \in 0..2 /\ n - 1 \in Nat /\ q \in 1..g /\ q - 1 \in 0..(g - 1)
  BY <1>1
<1>4. i \in 1..(3 * g) /\ i - 1 = g * (n - 1) + (q - 1) /\ i - 1 \in Nat
  <2>1. CASE n = 1
    BY <1>1, <1>3, <2>1
  <2>2. CASE n = 2
    BY <1>1, <1>3, <2>2
  <2>3. CASE n = 3
    BY <1>1, <1>3, <2>3
  <2> QED
    BY <2>1, <2>2, <2>3
<1> HIDE DEF i
<1>5. (i - 1) \div g = n - 1 /\ (i - 1) % g = q - 1
  BY <1>1, <1>3, <1>4, QuotientIsUnique
<1>6. ((i - 1) \div g) + 1 = n /\ ((i - 1) % g) + 1 = q
  BY <1>3, <1>5
<1>7. Plan[i].strategy = DefaultStrategies[n] /\ Plan[i].query = q
  BY <1>2, <1>4, <1>6
<1> QED
  BY <1>1, <1>4, <1>7 DEF g, i

----------------------------------------------------------------------------
(* Scores are numbers.                                                     *)

LEMMA ScoresAreNumbers ==
    ASSUME NEW results \in Seq(ChunkIds), NEW relevant, k \in Nat
    PROVE  FoundAtK(results, relevant) \in Nat /\ FirstRank(results, relevant) \in Nat
<1>1. DOMAIN results = 1..Len(results) /\ Len(results) \in Nat
  OBVIOUS
<1>2. FoundAtK(results, relevant) \in Nat
  <2> DEFINE kept == {i \in DOMAIN Prefix(results, k) : results[i] \in relevant}
  <2>1. kept \in SUBSET (1..Len(results))
    BY <1>1, PrefixIsCut
  <2>2. IsFiniteSet(1..Len(results))
    BY <1>1, FS_Interval
  <2>3. IsFiniteSet(kept)
    BY <2>1, <2>2, FS_Subset
  <2> QED
    BY <2>3, FS_CardinalityType DEF FoundAtK
<1>3. FirstRank(results, relevant) \in Nat
  <2> DEFINE hits == {i \in DOMAIN results : results[i] \in relevant}
  <2>1. CASE hits = {}
    BY <2>1 DEF FirstRank
  <2>2. CASE hits # {}
    <3>1. hits \subseteq Nat
      BY <1>1
    <3>2. \E i \in hits : \A j \in hits : i <= j
      BY <2>2, <3>1, LeastNumber
    <3>3. FirstRank(results, relevant) \in hits
      BY <2>2, <3>2 DEF FirstRank
    <3> QED
      BY <3>1, <3>3
  <2> QED
    BY <2>1, <2>2
<1> QED
  BY <1>2, <1>3

----------------------------------------------------------------------------
(* Scores measure rankings.                                                *)

Fractions == Nat \X Nat

\* The start of a ranking is one.
LEMMA PrefixOfRanking ==
    ASSUME NEW r \in Rankings, NEW n \in Nat
    PROVE  /\ Prefix(r, n) \in Rankings
           /\ DOMAIN Prefix(r, n) = 1..(IF Len(r) < n THEN Len(r) ELSE n)
           /\ \A i \in DOMAIN Prefix(r, n) : i \in DOMAIN r /\ Prefix(r, n)[i] = r[i]
<1> DEFINE p == Prefix(r, n)
           m == IF Len(r) < n THEN Len(r) ELSE n
<1>1. /\ r \in Seq(ChunkIds) /\ Len(r) \in Nat /\ DOMAIN r = 1..Len(r)
      /\ \A i, j \in DOMAIN r : r[i] = r[j] => i = j
  BY RankingsAreSequences
<1>2. /\ p \in Seq(ChunkIds) /\ DOMAIN p = 1..m
      /\ \A i \in DOMAIN p : i \in DOMAIN r /\ p[i] = r[i]
  BY <1>1, PrefixIsCut
<1>3. Len(r) \in 0..Cardinality(ChunkIds)
  <2>1. PICK l \in 0..Cardinality(ChunkIds) : r \in [1..l -> ChunkIds]
    BY DEF Rankings
  <2>2. Len(r) = l
    BY <2>1
  <2> QED
    BY <2>1, <2>2
<1>4. m \in 0..Cardinality(ChunkIds)
  <2> DEFINE l == Len(r)  size == Cardinality(ChunkIds)
  <2>1. l \in 0..size /\ size \in Nat
    BY <1>3, FusionAssumption, FS_CardinalityType
  <2>2. m = IF l < n THEN l ELSE n
    OBVIOUS
  <2> HIDE DEF l, m, size
  <2>3. m \in 0..size
    BY <2>1, <2>2
  <2> QED
    BY <2>3 DEF size
<1>5. p \in [1..m -> ChunkIds]
  <2>1. p \in [1..Len(p) -> ChunkIds]
    <3> HIDE DEF p
    <3> QED
      BY <1>2
  <2>2. p \in [DOMAIN p -> ChunkIds]
    <3> HIDE DEF p
    <3> QED
      BY <2>1
  <2> HIDE DEF p, m
  <2> QED
    BY <1>2, <2>2
<1>6. \A i, j \in 1..m : p[i] = p[j] => i = j
  <2> HIDE DEF p, m
  <2> QED
    BY <1>1, <1>2
<1>7. p \in {x \in [1..m -> ChunkIds] : \A i, j \in 1..m : x[i] = x[j] => i = j}
  <2> HIDE DEF p, m
  <2> QED
    BY <1>5, <1>6
<1>8. p \in Rankings
  <2> HIDE DEF p, m
  <2> QED
    BY <1>4, <1>7 DEF Rankings
<1> QED
  BY <1>2, <1>8

\* What a score says of results that are the first k chunks of a ranking.
LEMMA ScoreMeasures ==
    ASSUME NEW r \in Rankings, NEW q \in DOMAIN Golden, k \in Nat
    PROVE  LET score == [found |-> FoundAtK(Prefix(r, k), Relevant(q)),
                         rank  |-> FirstRank(Prefix(r, k), Relevant(q))]
           IN  /\ RecallOf(score, q) = TrueRecall(r, q)
               /\ ReciprocalOf(score) = TrueReciprocal(r, q)
<1> DEFINE p == Prefix(r, k)
           relevant == Relevant(q)
           hits == {i \in DOMAIN p : p[i] \in relevant}
           score == [found |-> FoundAtK(p, relevant), rank |-> FirstRank(p, relevant)]
<1>1. /\ p \in Rankings /\ Len(r) \in Nat
      /\ DOMAIN p = 1..(IF Len(r) < k THEN Len(r) ELSE k)
  <2>1. p \in Rankings /\ DOMAIN p = 1..(IF Len(r) < k THEN Len(r) ELSE k)
    BY PrefixOfRanking
  <2>2. r \in Seq(ChunkIds)
    BY RankingsAreSequences
  <2> QED
    BY <2>1, <2>2
<1> HIDE DEF p
<1>2. /\ p \in Seq(ChunkIds) /\ Len(p) \in Nat /\ DOMAIN p = 1..Len(p)
      /\ \A i, j \in DOMAIN p : p[i] = p[j] => i = j
      /\ IsFiniteSet(Ranked(p))
  BY <1>1, RankingsAreSequences
<1>3. Len(p) <= k
  <2> DEFINE m == IF Len(r) < k THEN Len(r) ELSE k
  <2>1. m \in Nat /\ m <= k
    BY <1>1
  <2> HIDE DEF m
  <2> QED
    BY <1>1, <1>2, <2>1
<1>4. DOMAIN Prefix(p, k) = DOMAIN p
  <2>1. DOMAIN Prefix(p, k) = 1..(IF Len(p) < k THEN Len(p) ELSE k)
    BY <1>1, PrefixOfRanking
  <2>2. (IF Len(p) < k THEN Len(p) ELSE k) = Len(p)
    <3> DEFINE m == Len(p)
    <3>1. m \in Nat /\ m <= k
      BY <1>2, <1>3
    <3> HIDE DEF m
    <3>2. (IF m < k THEN m ELSE k) = m
      BY <3>1
    <3> QED
      BY <3>2 DEF m
  <2> QED
    BY <1>2, <2>1, <2>2
<1>5. FoundAtK(p, relevant) = Cardinality(hits)
  BY <1>4 DEF FoundAtK
<1>6. Cardinality(hits) = Cardinality(relevant \cap Ranked(p))
  <2> DEFINE at == [i \in hits |-> p[i]]
  <2>1. at \in Bijection(hits, relevant \cap Ranked(p))
    <3>1. at \in [hits -> relevant \cap Ranked(p)]
      BY DEF Ranked
    <3>2. \A i, j \in hits : at[i] = at[j] => i = j
      BY <1>2
    <3>3. \A c \in relevant \cap Ranked(p) : \E i \in hits : at[i] = c
      BY DEF Ranked
    <3> QED
      BY <3>1, <3>2, <3>3 DEF Bijection, Injection, Surjection, IsInjective
  <2>2. IsFiniteSet(hits)
    <3>1. IsFiniteSet(1..Len(p))
      BY <1>2, FS_Interval
    <3>2. hits \in SUBSET (1..Len(p))
      BY <1>2
    <3> QED
      BY <3>1, <3>2, FS_Subset
  <2> HIDE DEF hits
  <2> QED
    BY <2>1, <2>2, FS_Bijection DEF ExistsBijection
<1>7. RecallOf(score, q) = TrueRecall(r, q)
  BY <1>5, <1>6 DEF RecallOf, TrueRecall, p
<1> DEFINE places == {PlaceOf(c, p) : c \in relevant} \ {0}
<1>8. places = hits
  <2>1. ASSUME NEW c \in relevant, PlaceOf(c, p) # 0 PROVE PlaceOf(c, p) \in hits
    BY <1>1, <2>1, PlacesInRankings
  <2>2. ASSUME NEW i \in hits PROVE i \in places
    <3>1. PlaceOf(p[i], p) = i /\ i # 0 /\ p[i] \in relevant
      BY <1>1, <1>2, PlacesInRankings
    <3> QED
      BY <3>1
  <2> QED
    BY <2>1, <2>2
<1>9. TrueReciprocal(r, q) = IF hits = {} THEN <<0, 1>> ELSE <<1, Min(hits)>>
  <2>1. TrueReciprocal(r, q) = IF places = {} THEN <<0, 1>> ELSE <<1, Min(places)>>
    BY DEF TrueReciprocal, p
  <2> HIDE DEF places, hits
  <2> QED
    BY <1>8, <2>1
<1>10. FirstRank(p, relevant) = IF hits = {} THEN 0 ELSE Min(hits)
  BY DEF FirstRank, Min
<1>11. hits # {} => Min(hits) \in hits /\ Min(hits) # 0
  <2> SUFFICES ASSUME hits # {} PROVE Min(hits) \in hits
    BY <1>2
  <2>1. hits \subseteq Nat
    BY <1>2
  <2> HIDE DEF hits
  <2>2. \E i \in hits : \A j \in hits : i <= j
    BY <2>1, LeastNumber
  <2> QED
    BY <2>2 DEF Min
<1>12. ReciprocalOf(score) = TrueReciprocal(r, q)
  <2>1. score.rank = IF hits = {} THEN 0 ELSE Min(hits)
    BY <1>10
  <2> HIDE DEF hits, score
  <2> QED
    BY <1>9, <1>11, <2>1 DEF ReciprocalOf
<1> QED
  BY <1>7, <1>12 DEF p

\* The evaluation's cutoff is the one its report is judged by.
LEMMA CutoffOfEvaluation ==
    ASSUME NEW r, NEW q
    PROVE  TrueRecall(r, q) = RecallAt(k, r, q) /\ TrueReciprocal(r, q) = ReciprocalAt(k, r, q)
BY DEF TrueRecall, TrueReciprocal, RecallAt, ReciprocalAt

\* What is measured is a fraction.
LEMMA MeasuresAreFractions ==
    ASSUME NEW r \in Rankings, NEW q \in DOMAIN Golden, k \in Nat
    PROVE  TrueRecall(r, q) \in Fractions /\ TrueReciprocal(r, q) \in Fractions
<1> DEFINE p == Prefix(r, k)
           places == {PlaceOf(c, p) : c \in Relevant(q)} \ {0}
<1>1. p \in Rankings
  BY PrefixOfRanking
<1>2. IsFiniteSet(Relevant(q)) /\ Cardinality(Relevant(q)) \in Nat
  <2>1. Golden[q].relevant \in Rankings
    BY DatasetShape
  <2>2. IsFiniteSet(Relevant(q))
    BY <2>1, RankingsAreSequences DEF Relevant
  <2> QED
    BY <2>2, FS_CardinalityType
<1>3. Cardinality(Relevant(q) \cap Ranked(p)) \in Nat
  <2>1. Relevant(q) \cap Ranked(p) \in SUBSET Relevant(q)
    OBVIOUS
  <2> QED
    BY <1>2, <2>1, FS_Subset, FS_CardinalityType
<1>4. TrueRecall(r, q) \in Fractions
  BY <1>2, <1>3 DEF TrueRecall, Fractions
<1>5. places \subseteq Nat
  BY <1>1, PlacesInRankings
<1>6. places # {} => Min(places) \in Nat
  <2> HIDE DEF places
  <2> SUFFICES ASSUME places # {} PROVE Min(places) \in places
    BY <1>5
  <2>1. \E i \in places : \A j \in places : i <= j
    BY <1>5, LeastNumber
  <2> QED
    BY <2>1 DEF Min
<1>7. TrueReciprocal(r, q) = IF places = {} THEN <<0, 1>> ELSE <<1, Min(places)>>
  BY DEF TrueReciprocal
<1>8. TrueReciprocal(r, q) \in Fractions
  <2> HIDE DEF places
  <2> QED
    BY <1>6, <1>7 DEF Fractions
<1> QED
  BY <1>4, <1>8

----------------------------------------------------------------------------
(* Means.                                                                  *)

\* Plus as a function, for the lemmas about folds.
Adds == [p \in Fractions \X Fractions |-> Plus(p[1], p[2])]

LEMMA PlusAdds ==
    /\ Adds \in [Fractions \X Fractions -> Fractions]
    /\ Commutes(Adds, Fractions, Fractions)
    /\ \A a, b \in Fractions : Adds[<<a, b>>] = Plus(a, b) /\ Plus(a, b) \in Fractions
<1>1. ASSUME NEW a \in Fractions, NEW b \in Fractions
      PROVE  /\ Plus(a, b) \in Fractions
             /\ Plus(a, b)[1] = a[1] * b[2] + b[1] * a[2] /\ Plus(a, b)[2] = a[2] * b[2]
  <2>1. a[1] \in Nat /\ a[2] \in Nat /\ b[1] \in Nat /\ b[2] \in Nat
    BY DEF Fractions
  <2>2. a[1] * b[2] + b[1] * a[2] \in Nat /\ a[2] * b[2] \in Nat
    BY <2>1
  <2> QED
    BY <2>2 DEF Plus, Fractions
<1>2. ASSUME NEW a \in Fractions, NEW b \in Fractions
      PROVE  Adds[<<a, b>>] = Plus(a, b)
  <2>1. <<a, b>> \in Fractions \X Fractions
    OBVIOUS
  <2> QED
    BY <2>1 DEF Adds
<1>3. Adds \in [Fractions \X Fractions -> Fractions]
  <2>1. ASSUME NEW p \in Fractions \X Fractions PROVE Plus(p[1], p[2]) \in Fractions
    <3>1. p[1] \in Fractions /\ p[2] \in Fractions
      OBVIOUS
    <3> QED
      BY <1>1, <3>1
  <2> HIDE DEF Fractions
  <2> QED
    BY <2>1 DEF Adds
<1>4. ASSUME NEW a \in Fractions, NEW x \in Fractions, NEW y \in Fractions
      PROVE  Adds[<<Adds[<<a, x>>], y>>] = Adds[<<Adds[<<a, y>>], x>>]
  <2>1. Adds[<<Adds[<<a, x>>], y>>] = Plus(Plus(a, x), y)
    BY <1>1, <1>2
  <2>2. Adds[<<Adds[<<a, y>>], x>>] = Plus(Plus(a, y), x)
    BY <1>1, <1>2
  <2>3. Plus(Plus(a, x), y) = Plus(Plus(a, y), x)
    <3> DEFINE a1 == a[1]  a2 == a[2]  x1 == x[1]  x2 == x[2]  y1 == y[1]  y2 == y[2]
    <3>1. a1 \in Nat /\ a2 \in Nat /\ x1 \in Nat /\ x2 \in Nat /\ y1 \in Nat /\ y2 \in Nat
      BY DEF Fractions
    <3>2. /\ Plus(Plus(a, x), y) = <<(a1 * x2 + x1 * a2) * y2 + y1 * (a2 * x2), (a2 * x2) * y2>>
          /\ Plus(Plus(a, y), x) = <<(a1 * y2 + y1 * a2) * x2 + x1 * (a2 * y2), (a2 * y2) * x2>>
      BY DEF Plus
    <3> HIDE DEF a1, a2, x1, x2, y1, y2
    <3>3. (a1 * x2 + x1 * a2) * y2 + y1 * (a2 * x2) = (a1 * y2 + y1 * a2) * x2 + x1 * (a2 * y2)
      BY <3>1
    <3>4. (a2 * x2) * y2 = (a2 * y2) * x2
      BY <3>1
    <3> QED
      BY <3>2, <3>3, <3>4
  <2> QED
    BY <2>1, <2>2, <2>3
<1>5. Commutes(Adds, Fractions, Fractions)
  BY <1>4 DEF Commutes
<1> QED
  BY <1>1, <1>2, <1>3, <1>5

\* The sum of a sequence, step by step.
LEMMA SumSteps ==
    ASSUME NEW m \in Nat, NEW s \in [1..m -> Fractions]
    PROVE  \E r : /\ r[0] = <<0, 1>> /\ r[m] = FoldLeft(Plus, <<0, 1>>, s)
                  /\ \A i \in 1..m : r[i] = Adds[<<r[i - 1], s[i]>>]
<1> DEFINE zero == <<0, 1>>
           Solves(f) == f = [S \in SUBSET (1..m) |->
                               IF S = {} THEN zero ELSE Plus(f[S \ {Max(S)}], s[Max(S)])]
<1>1. zero \in Fractions
  BY DEF Fractions
<1>2. /\ Adds \in [Fractions \X Fractions -> Fractions]
      /\ \A a, b \in Fractions : Adds[<<a, b>>] = Plus(a, b) /\ Plus(a, b) \in Fractions
  BY PlusAdds
<1>3. PICK f \in [SUBSET (1..m) -> Fractions] : Folds(f, Adds, zero, s)
  <2> HIDE DEF zero
  <2> QED
    BY <1>1, <1>2, FoldExists
<1>4. \E g : Solves(g)
  <2>1. ASSUME NEW S \in SUBSET (1..m)
        PROVE  f[S] = IF S = {} THEN zero ELSE Plus(f[S \ {Max(S)}], s[Max(S)])
    <3>1. S # {} => Max(S) \in 1..m
      BY MaxOfRange
    <3>2. S # {} => f[S \ {Max(S)}] \in Fractions /\ s[Max(S)] \in Fractions
      BY <3>1
    <3>3. f[S] = IF S = {} THEN zero ELSE Adds[<<f[S \ {Max(S)}], s[Max(S)]>>]
      BY <1>3 DEF Folds
    <3> HIDE DEF zero
    <3> QED
      BY <1>2, <3>2, <3>3
  <2>2. Solves(f)
    BY <2>1
  <2> HIDE DEF Solves
  <2> QED
    BY <2>2
<1> DEFINE c == CHOOSE g : Solves(g)
<1>5. FoldLeft(Plus, zero, s) = c[1..m]
  BY DEF FoldLeft, MapThenFoldSet
<1>6. Solves(c)
  <2> HIDE DEF Solves
  <2> QED
    BY <1>4
<1> HIDE DEF c
<1>7. \A S \in SUBSET (1..m) :
         c[S] = IF S = {} THEN zero ELSE Plus(c[S \ {Max(S)}], s[Max(S)])
  BY <1>6
<1> DEFINE r == [i \in 0..m |-> c[1..i]]
<1> HIDE DEF Solves, zero
<1>8. r[0] = zero /\ r[m] = c[1..m]
  <2>1. 1..0 = {} /\ 1..0 \in SUBSET (1..m) /\ 0 \in 0..m /\ m \in 0..m
    OBVIOUS
  <2> QED
    BY <1>7, <2>1
<1>9. ASSUME NEW i \in 1..m PROVE r[i] = Plus(r[i - 1], s[i])
  <2>1. i \in Nat \ {0} /\ i - 1 \in 0..m /\ i \in 0..m /\ 1..i \in SUBSET (1..m)
    OBVIOUS
  <2>2. Max(1..i) = i /\ (1..i) \ {Max(1..i)} = 1..(i - 1) /\ 1..i # {}
    BY <2>1, MaxOfInterval
  <2> QED
    BY <1>7, <2>1, <2>2
<1> HIDE DEF r
<1>10. Unfolds(r, Adds, Fractions, zero, s)
  <2>1. \A i \in DOMAIN s : r[i - 1] \in Fractions => r[i] = Adds[<<r[i - 1], s[i]>>]
    BY <1>2, <1>9
  <2> QED
    BY <1>8, <2>1 DEF Unfolds
<1>11. \A i \in 0..m : r[i] \in Fractions
  BY <1>1, <1>2, <1>10, FoldStays
<1>12. \A i \in 1..m : r[i] = Adds[<<r[i - 1], s[i]>>]
  <2>1. \A i \in 1..m : i - 1 \in 0..m
    OBVIOUS
  <2> QED
    BY <1>2, <1>9, <1>11, <2>1
<1>13. r[0] = zero /\ r[m] = FoldLeft(Plus, zero, s)
  BY <1>5, <1>8
<1> QED
  BY <1>12, <1>13 DEF zero

\* The sum over a set, by its subsets.
LEMMA SumOverSets ==
    ASSUME NEW D, IsFiniteSet(D), NEW F \in [D -> Fractions]
    PROVE  \E f \in [SUBSET D -> Fractions] : \E choice :
              /\ Chooses(choice, D) /\ SetFolds(f, Adds, <<0, 1>>, F, choice, D)
              /\ f[D] = SumOver(F)
<1> DEFINE zero == <<0, 1>>
           choice == [s \in SUBSET D |-> CHOOSE x \in s : TRUE]
           Solves(f) == f = [s \in SUBSET D |->
                               IF s = {} THEN zero
                               ELSE Plus(f[s \ {CHOOSE x \in s : TRUE}], F[CHOOSE x \in s : TRUE])]
<1>1. zero \in Fractions
  BY DEF Fractions
<1>2. /\ Adds \in [Fractions \X Fractions -> Fractions]
      /\ \A a, b \in Fractions : Adds[<<a, b>>] = Plus(a, b) /\ Plus(a, b) \in Fractions
  BY PlusAdds
<1>3. Chooses(choice, D)
  BY DEF Chooses
<1>4. PICK f \in [SUBSET D -> Fractions] : SetFolds(f, Adds, zero, F, choice, D)
  <2> HIDE DEF zero, choice
  <2> QED
    BY <1>1, <1>2, <1>3, SetFoldExists
<1>5. Solves(f)
  <2>1. ASSUME NEW s \in SUBSET D
        PROVE  f[s] = IF s = {} THEN zero
                      ELSE Plus(f[s \ {CHOOSE x \in s : TRUE}], F[CHOOSE x \in s : TRUE])
    <3>1. choice[s] = CHOOSE x \in s : TRUE
      OBVIOUS
    <3>2. f[s] = IF s = {} THEN zero ELSE Adds[<<f[s \ {choice[s]}], F[choice[s]]>>]
      BY <1>4 DEF SetFolds
    <3>3. s # {} => choice[s] \in s
      BY <1>3 DEF Chooses
    <3>4. s # {} => f[s \ {choice[s]}] \in Fractions /\ F[choice[s]] \in Fractions
      <4> HIDE DEF choice
      <4> QED
        BY <3>3
    <3>5. f[s] = IF s = {} THEN zero ELSE Plus(f[s \ {choice[s]}], F[choice[s]])
      <4> HIDE DEF choice, zero
      <4> QED
        BY <1>2, <3>2, <3>4
    <3> HIDE DEF choice, zero
    <3> QED
      BY <3>1, <3>5
  <2> QED
    BY <2>1
<1>6. \E g : Solves(g)
  <2> HIDE DEF Solves
  <2> QED
    BY <1>5
<1> DEFINE c == CHOOSE g : Solves(g)
<1>7. SumOver(F) = c[D]
  BY DEF SumOver, FoldFunction, FoldFunctionOnSet, MapThenFoldSet
<1>8. Solves(c)
  <2> HIDE DEF Solves
  <2> QED
    BY <1>6
<1> HIDE DEF c
<1>9. /\ DOMAIN c = SUBSET D
      /\ \A s \in SUBSET D :
            c[s] = IF s = {} THEN zero
                   ELSE Plus(c[s \ {CHOOSE x \in s : TRUE}], F[CHOOSE x \in s : TRUE])
      /\ c = [s \in SUBSET D |-> c[s]]
  BY <1>8
<1>10. \A s \in SUBSET D : choice[s] = CHOOSE x \in s : TRUE
  OBVIOUS
<1> HIDE DEF Solves, choice, zero
<1>11. \A s \in SUBSET D :
          c[s] = IF s = {} THEN zero ELSE Plus(c[s \ {choice[s]}], F[choice[s]])
  BY <1>9, <1>10
<1>12. SetUnfolds(c, Adds, Fractions, zero, F, choice, D)
  <2>1. c[{}] = zero
    BY <1>11
  <2>2. ASSUME NEW s \in SUBSET D, s # {}, c[s \ {choice[s]}] \in Fractions
        PROVE  c[s] = Adds[<<c[s \ {choice[s]}], F[choice[s]]>>]
    <3>1. F[choice[s]] \in Fractions
      BY <1>3, <2>2 DEF Chooses
    <3> QED
      BY <1>2, <1>11, <2>2, <3>1
  <2> QED
    BY <2>1, <2>2 DEF SetUnfolds
<1>13. \A s \in SUBSET D : c[s] \in Fractions
  BY <1>1, <1>2, <1>3, <1>12, SetFoldStays
<1>14. c \in [SUBSET D -> Fractions]
  BY <1>9, <1>13
<1>15. SetFolds(c, Adds, zero, F, choice, D)
  <2>1. ASSUME NEW s \in SUBSET D
        PROVE  c[s] = IF s = {} THEN zero ELSE Adds[<<c[s \ {choice[s]}], F[choice[s]]>>]
    BY <1>12, <1>13 DEF SetUnfolds
  <2> QED
    BY <2>1 DEF SetFolds
<1> QED
  BY <1>3, <1>7, <1>14, <1>15 DEF zero

\* The sum of a sequence is that over the set it enumerates.
LEMMA SumsAgree ==
    ASSUME NEW n \in Nat, NEW D, NEW c, Enumerates(c, n, D), NEW F \in [D -> Fractions]
    PROVE  /\ IsFiniteSet(D) /\ Cardinality(D) = n
           /\ FoldLeft(Plus, <<0, 1>>, [i \in 1..n |-> F[c[i]]]) = SumOver(F)
           /\ SumOver(F) \in Fractions
<1> DEFINE s == [i \in 1..n |-> F[c[i]]]
           zero == <<0, 1>>
<1>1. /\ c \in [1..n -> D] /\ D = {c[i] : i \in 1..n}
      /\ \A i, j \in 1..n : c[i] = c[j] => i = j
  BY DEF Enumerates
<1>2. IsFiniteSet(D) /\ Cardinality(D) = n
  <2>1. c \in Bijection(1..n, D)
    BY <1>1 DEF Bijection, Injection, Surjection, IsInjective
  <2>2. IsFiniteSet(1..n) /\ Cardinality(1..n) = n
    BY FS_Interval
  <2> QED
    BY <2>1, <2>2, FS_Bijection DEF ExistsBijection
<1>3. s \in [1..n -> Fractions]
  BY <1>1
<1>4. PICK r : /\ r[0] = zero /\ r[n] = FoldLeft(Plus, zero, s)
               /\ \A i \in 1..n : r[i] = Adds[<<r[i - 1], s[i]>>]
  BY <1>3, SumSteps
<1>5. PICK f \in [SUBSET D -> Fractions] : \E choice :
         Chooses(choice, D) /\ SetFolds(f, Adds, zero, F, choice, D) /\ f[D] = SumOver(F)
  BY <1>2, SumOverSets
<1>10. PICK choice :
         Chooses(choice, D) /\ SetFolds(f, Adds, zero, F, choice, D) /\ f[D] = SumOver(F)
  BY <1>5
<1>6. zero \in Fractions
  BY DEF Fractions
<1>7. PartialResults(r, Adds, zero, F, c, n)
  <2>1. \A i \in 1..n : r[i] = Adds[<<r[i - 1], F[c[i]]>>]
    BY <1>4
  <2> HIDE DEF zero
  <2> QED
    BY <1>4, <2>1 DEF PartialResults
<1> HIDE DEF s, zero
<1>8. r[n] = f[D]
  <2>1. /\ Adds \in [Fractions \X Fractions -> Fractions]
        /\ Commutes(Adds, Fractions, Fractions)
    BY PlusAdds
  <2>2. IsSetFold(f, Adds, Fractions, Fractions, zero, F, choice, D)
    BY <1>2, <1>6, <1>10, <2>1 DEF IsSetFold
  <2> QED
    BY <1>7, <2>2, FoldEnumerated
<1>9. f[D] \in Fractions
  BY <1>5
<1> QED
  BY <1>1, <1>2, <1>4, <1>5, <1>8, <1>9 DEF s, zero

\* So are the means.
LEMMA MeansAgree ==
    ASSUME NEW n \in Nat, NEW D, NEW c, Enumerates(c, n, D), NEW F \in [D -> Fractions]
    PROVE  IsMeanOf(Mean([i \in 1..n |-> F[c[i]]]), F)
<1> DEFINE s == [i \in 1..n |-> F[c[i]]]
           sum == SumOver(F)
<1>1. /\ Cardinality(D) = n /\ FoldLeft(Plus, <<0, 1>>, s) = sum
      /\ sum \in Fractions
  BY SumsAgree
<1>2. DOMAIN F = D
  OBVIOUS
<1>3. Len(s) = n /\ (s = <<>> <=> n = 0)
  <2>1. s \in Seq(Fractions) /\ Len(s) = n
    BY DEF Enumerates
  <2> QED
    BY <2>1, EmptySeq
<1> HIDE DEF s
<1>4. CASE n = 0
  <2>1. Mean(s) = <<0, 1>>
    BY <1>3, <1>4 DEF Mean
  <2>2. D = {}
    BY <1>4 DEF Enumerates
  <2>3. sum = <<0, 1>>
    <3>1. sum = FoldLeft(Plus, <<0, 1>>, s)
      BY <1>1
    <3>2. PICK r : /\ r[0] = <<0, 1>> /\ r[n] = FoldLeft(Plus, <<0, 1>>, s)
                   /\ \A i \in 1..n : r[i] = Adds[<<r[i - 1], s[i]>>]
      <4>1. s \in [1..n -> Fractions]
        BY DEF Enumerates, s
      <4> QED
        BY <4>1, SumSteps
    <3> QED
      BY <1>4, <3>1, <3>2
  <2> HIDE DEF sum
  <2> QED
    BY <1>1, <1>2, <1>4, <2>1, <2>3 DEF IsMeanOf, SameFraction, sum, s
<1>5. CASE n # 0
  <2>1. Mean(s) = <<sum[1], sum[2] * n>>
    BY <1>1, <1>3, <1>5 DEF Mean
  <2>2. sum[1] \in Nat /\ sum[2] \in Nat
    BY <1>1 DEF Fractions
  <2>3. IsMeanOf(Mean(s), F) <=> (sum[1] * n) * sum[2] = sum[1] * (sum[2] * n)
    BY <1>1, <1>2, <2>1 DEF IsMeanOf, SameFraction
  <2> HIDE DEF sum
  <2>4. (sum[1] * n) * sum[2] = sum[1] * (sum[2] * n)
    BY <2>2
  <2> QED
    BY <2>3, <2>4 DEF s
<1> QED
  BY <1>4, <1>5 DEF s

\* The queries of a category, each once.
LEMMA QueriesEnumerate ==
    ASSUME NEW category
    PROVE  /\ QueriesIn(category) \in Seq(DOMAIN Golden)
           /\ Enumerates(QueriesIn(category), Len(QueriesIn(category)),
                         {q \in DOMAIN Golden : Golden[q].category = category})
<1> DEFINE g == Len(Golden)
           s == [i \in 1..g |-> i]
           A == Seq(1..g)
           next(queries, q) == IF Golden[q].category = category THEN Append(queries, q) ELSE queries
           G == [p \in A \X (1..g) |-> next(p[1], p[2])]
           Solves(f) == f = [S \in SUBSET (1..g) |->
                               IF S = {} THEN <<>> ELSE next(f[S \ {Max(S)}], s[Max(S)])]
<1>1. g \in Nat /\ DOMAIN Golden = 1..g
  BY DatasetShape
<1>2. s \in [1..g -> 1..g] /\ DOMAIN s = 1..g
  OBVIOUS
<1>3. <<>> \in A
  OBVIOUS
<1>4. ASSUME NEW queries \in A, NEW q \in 1..g PROVE next(queries, q) \in A
  <2> HIDE DEF g
  <2>1. Append(queries, q) \in A
    OBVIOUS
  <2> HIDE DEF A
  <2> QED
    BY <2>1
<1>5. G \in [A \X (1..g) -> A]
  <2> HIDE DEF A, next, g
  <2> QED
    BY <1>4
<1>6. ASSUME NEW queries \in A, NEW q \in 1..g PROVE G[<<queries, q>>] = next(queries, q)
  <2> HIDE DEF A, next, g
  <2> QED
    OBVIOUS
<1>7. PICK f \in [SUBSET (1..g) -> A] : Folds(f, G, <<>>, s)
  <2> HIDE DEF A, G, g, s
  <2> QED
    BY <1>1, <1>2, <1>3, <1>5, FoldExists
<1>8. \E h : Solves(h)
  <2>1. ASSUME NEW S \in SUBSET (1..g)
        PROVE  f[S] = IF S = {} THEN <<>> ELSE next(f[S \ {Max(S)}], s[Max(S)])
    <3> HIDE DEF A, G, g, s, next
    <3>1. S # {} => Max(S) \in 1..g
      BY <1>1, MaxOfRange
    <3>2. S # {} => f[S \ {Max(S)}] \in A /\ s[Max(S)] \in 1..g
      BY <1>2, <3>1
    <3>3. f[S] = IF S = {} THEN <<>> ELSE G[<<f[S \ {Max(S)}], s[Max(S)]>>]
      BY <1>2, <1>7 DEF Folds
    <3> QED
      BY <1>6, <3>2, <3>3
  <2>2. Solves(f)
    <3> HIDE DEF A, g, s, next
    <3> QED
      BY <2>1
  <2> HIDE DEF Solves
  <2> QED
    BY <2>2
<1> DEFINE c == CHOOSE h : Solves(h)
<1>9. QueriesIn(category) = c[1..g]
  BY <1>1 DEF QueriesIn, FoldLeftDomain, FoldLeft, MapThenFoldSet
<1>10. Solves(c)
  <2> HIDE DEF Solves
  <2> QED
    BY <1>8
<1> HIDE DEF c, g
<1>11. \A S \in SUBSET (1..g) :
          c[S] = IF S = {} THEN <<>> ELSE next(c[S \ {Max(S)}], s[Max(S)])
  <2> HIDE DEF s, next
  <2> QED
    BY <1>10
<1> HIDE DEF Solves
<1> DEFINE Of(i) == {q \in 1..i : Golden[q].category = category}
           Listed(i) == c[1..i] \in A /\ Enumerates(c[1..i], Len(c[1..i]), Of(i))
           S == {i \in 0..g : Listed(i)}
<1>12. 0 \in S
  <2>1. 1..0 = {} /\ 1..0 \in SUBSET (1..g)
    OBVIOUS
  <2>2. c[1..0] = <<>>
    BY <1>11, <2>1
  <2>3. Enumerates(<<>>, Len(<<>>), Of(0))
    BY DEF Enumerates
  <2>4. Listed(0)
    BY <1>3, <2>2, <2>3
  <2> HIDE DEF Listed
  <2> QED
    BY <1>1, <2>4
<1>13. ASSUME NEW i \in 0..(g - 1), i \in S PROVE i + 1 \in S
  <2> DEFINE before == c[1..i]
             q == i + 1
  <2>1. i \in Nat /\ q \in 1..g /\ q \in Nat \ {0} /\ q - 1 = i /\ q \in 0..g
        /\ 1..q \in SUBSET (1..g)
    BY <1>1
  <2>2. Max(1..q) = q /\ (1..q) \ {Max(1..q)} = 1..(q - 1) /\ 1..q # {}
    BY <2>1, MaxOfInterval
  <2>3. s[q] = q
    BY <2>1
  <2>4. c[1..q] = next(before, q)
    <3>1. c[1..q] = next(c[(1..q) \ {Max(1..q)}], s[Max(1..q)])
      <4> HIDE DEF q, s, next
      <4> QED
        BY <1>11, <2>1, <2>2
    <3> HIDE DEF q, s, next
    <3> QED
      BY <2>1, <2>2, <2>3, <3>1
  <2>5. Listed(i)
    BY <1>13
  <2>6. Listed(q)
    <3>1. CASE Golden[q].category = category
      <4>1. Of(q) = Of(i) \cup {q} /\ q \notin Of(i)
        BY <2>1, <3>1
      <4>2. c[1..q] = Append(before, q)
        BY <2>4, <3>1
      <4>3. before \in Seq(1..g) /\ Enumerates(before, Len(before), Of(i))
        BY <2>5
      <4> HIDE DEF Of, before, q
      <4>4. /\ Append(before, q) \in Seq(1..g)
            /\ Enumerates(Append(before, q), Len(Append(before, q)), Of(i) \cup {q})
        BY <2>1, <4>1, <4>3, EnumerationGrows
      <4> QED
        BY <4>1, <4>2, <4>4
    <3>2. CASE Golden[q].category # category
      <4>1. Of(q) = Of(i)
        BY <2>1, <3>2
      <4>2. c[1..q] = before
        BY <2>4, <3>2
      <4> HIDE DEF Of, q
      <4> QED
        BY <2>5, <4>1, <4>2
    <3> QED
      BY <3>1, <3>2
  <2> HIDE DEF Listed
  <2> QED
    BY <2>1, <2>6
<1>14. Listed(g)
  <2>1. \A i \in 0..g : i \in S
    <3> HIDE DEF S
    <3> QED
      BY <1>1, <1>12, <1>13, CountingTo
  <2> HIDE DEF Listed
  <2> QED
    BY <1>1, <2>1
<1>15. Of(g) = {q \in DOMAIN Golden : Golden[q].category = category}
  BY <1>1
<1> QED
  BY <1>1, <1>9, <1>14, <1>15

\* All queries, each once.
LEMMA AllQueriesEnumerate ==
    /\ Enumerates([q \in DOMAIN Golden |-> q], Len(Golden), DOMAIN Golden)
    /\ Len(Golden) \in Nat /\ DOMAIN Golden = 1..Len(Golden)
BY DatasetShape DEF Enumerates

\* The figures of a category, and of all queries, are means of the values by
\* query, whatever order the queries are listed in.
LEMMA MeanOfCategory ==
    ASSUME NEW F \in [DOMAIN Golden -> Fractions], NEW category
    PROVE  LET queries == QueriesIn(category)
           IN  IsMeanOf(Mean([i \in DOMAIN queries |-> F[queries[i]]]),
                        Restrict(F, {q \in DOMAIN Golden : Golden[q].category = category}))
<1> DEFINE queries == QueriesIn(category)
           n == Len(queries)
           D == {q \in DOMAIN Golden : Golden[q].category = category}
           R == Restrict(F, D)
<1>1. queries \in Seq(DOMAIN Golden) /\ Enumerates(queries, n, D)
  BY QueriesEnumerate
<1>2. n \in Nat /\ DOMAIN queries = 1..n
  <2> HIDE DEF queries
  <2> QED
    BY <1>1
<1>3. R \in [D -> Fractions]
  BY DEF Restrict
<1>4. \A i \in 1..n : queries[i] \in D
  BY <1>1 DEF Enumerates
<1>5. \A q \in D : R[q] = F[q]
  BY DEF Restrict
<1> HIDE DEF queries, n, D, R
<1>6. [i \in DOMAIN queries |-> F[queries[i]]] = [i \in 1..n |-> R[queries[i]]]
  BY <1>2, <1>4, <1>5
<1>7. IsMeanOf(Mean([i \in 1..n |-> R[queries[i]]]), R)
  BY <1>1, <1>2, <1>3, MeansAgree
<1>8. IsMeanOf(Mean([i \in DOMAIN queries |-> F[queries[i]]]), R)
  BY <1>6, <1>7
<1> QED
  BY <1>8 DEF queries, R, D

LEMMA MeanOfAll ==
    ASSUME NEW F \in [DOMAIN Golden -> Fractions]
    PROVE  IsMeanOf(Mean(F), F)
<1> DEFINE D == DOMAIN Golden
           g == Len(Golden)
           c == [q \in D |-> q]
<1>1. g \in Nat /\ D = 1..g /\ Enumerates(c, g, D)
  BY AllQueriesEnumerate
<1>2. F = [i \in 1..g |-> F[c[i]]]
  BY <1>1
<1>3. F \in [D -> Fractions]
  OBVIOUS
<1> HIDE DEF c, D, g
<1>4. IsMeanOf(Mean([i \in 1..g |-> F[c[i]]]), F)
  BY <1>1, <1>3, MeansAgree
<1> QED
  BY <1>2, <1>4

\* What a report says of a strategy whose scores measure a ranking.
Measures(report, recall, reciprocal) ==
    /\ IsMeanOf(report.recall, recall)
    /\ IsMeanOf(report.mrr, reciprocal)
    /\ \A c \in Categories :
          LET queries == {q \in DOMAIN Golden : Golden[q].category = c}
          IN  /\ IsMeanOf(report.breakdown[c].recall, Restrict(recall, queries))
              /\ IsMeanOf(report.breakdown[c].mrr, Restrict(reciprocal, queries))

LEMMA ReportsAreMeans ==
    ASSUME NEW score, NEW recall \in [DOMAIN Golden -> Fractions],
           NEW reciprocal \in [DOMAIN Golden -> Fractions],
           \A q \in DOMAIN Golden : RecallOf(score[q], q) = recall[q]
                                    /\ ReciprocalOf(score[q]) = reciprocal[q]
    PROVE  Measures(StrategyEvaluation(score), recall, reciprocal)
<1> DEFINE report == StrategyEvaluation(score)
<1>1. /\ report.recall = Mean([q \in DOMAIN Golden |-> RecallOf(score[q], q)])
      /\ report.mrr = Mean([q \in DOMAIN Golden |-> ReciprocalOf(score[q])])
      /\ \A c \in Categories : report.breakdown[c] = Breakdown(score, c)
  BY DEF StrategyEvaluation
<1>2. /\ [q \in DOMAIN Golden |-> RecallOf(score[q], q)] = recall
      /\ [q \in DOMAIN Golden |-> ReciprocalOf(score[q])] = reciprocal
  OBVIOUS
<1>3. IsMeanOf(report.recall, recall) /\ IsMeanOf(report.mrr, reciprocal)
  <2>1. report.recall = Mean(recall) /\ report.mrr = Mean(reciprocal)
    BY <1>1, <1>2
  <2> HIDE DEF report
  <2> QED
    BY <2>1, MeanOfAll
<1>4. ASSUME NEW c \in Categories
      PROVE  LET queries == {q \in DOMAIN Golden : Golden[q].category = c}
             IN  /\ IsMeanOf(report.breakdown[c].recall, Restrict(recall, queries))
                 /\ IsMeanOf(report.breakdown[c].mrr, Restrict(reciprocal, queries))
  <2> DEFINE queries == QueriesIn(c)
             D == {q \in DOMAIN Golden : Golden[q].category = c}
  <2>1. \A i \in DOMAIN queries : queries[i] \in DOMAIN Golden
    <3>1. queries \in Seq(DOMAIN Golden)
      BY QueriesEnumerate
    <3> HIDE DEF queries
    <3> QED
      BY <3>1
  <2>2. /\ report.breakdown[c].recall =
              Mean([i \in DOMAIN queries |-> RecallOf(score[queries[i]], queries[i])])
        /\ report.breakdown[c].mrr =
              Mean([i \in DOMAIN queries |-> ReciprocalOf(score[queries[i]])])
    <3> DEFINE a == Mean([i \in DOMAIN queries |-> RecallOf(score[queries[i]], queries[i])])
               b == Mean([i \in DOMAIN queries |-> ReciprocalOf(score[queries[i]])])
    <3>1. Breakdown(score, c) = [recall |-> a, mrr |-> b]
      BY DEF Breakdown
    <3>2. report.breakdown[c] = Breakdown(score, c)
      <4> HIDE DEF report
      <4> QED
        BY <1>1
    <3> HIDE DEF a, b, report, queries
    <3>3. report.breakdown[c].recall = a /\ report.breakdown[c].mrr = b
      BY <3>1, <3>2
    <3> QED
      BY <3>3 DEF a, b
  <2> HIDE DEF report
  <2>3. /\ [i \in DOMAIN queries |-> RecallOf(score[queries[i]], queries[i])]
              = [i \in DOMAIN queries |-> recall[queries[i]]]
        /\ [i \in DOMAIN queries |-> ReciprocalOf(score[queries[i]])]
              = [i \in DOMAIN queries |-> reciprocal[queries[i]]]
    <3> HIDE DEF queries
    <3> QED
      BY <2>1
  <2>4. IsMeanOf(Mean([i \in DOMAIN queries |-> recall[queries[i]]]), Restrict(recall, D))
    BY MeanOfCategory
  <2>5. IsMeanOf(Mean([i \in DOMAIN queries |-> reciprocal[queries[i]]]), Restrict(reciprocal, D))
    BY MeanOfCategory
  <2> HIDE DEF queries
  <2>6. /\ IsMeanOf(report.breakdown[c].recall, Restrict(recall, D))
        /\ IsMeanOf(report.breakdown[c].mrr, Restrict(reciprocal, D))
    <3> HIDE DEF D
    <3> QED
      BY <2>2, <2>3, <2>4, <2>5
  <2> QED
    BY <2>6
<1> QED
  BY <1>3, <1>4 DEF Measures

----------------------------------------------------------------------------
(* The steps of an evaluation.                                             *)

LEMMA NoScoresMeasure == scores = <<>> => ScoresMeasure
<1>1. DOMAIN <<>> = {}
  OBVIOUS
<1> QED
  BY <1>1 DEF ScoresMeasure

\* Scores that are kept still measure the index, unless it has changed.
LEMMA ScoresStay ==
    ASSUME ScoresMeasure, scores' = scores, since' = since, k' = k,
           changes' = since' => changes = since /\ index' = index
    PROVE  ScoresMeasure'
<1> SUFFICES ASSUME changes' = since' PROVE ScoresMeasure'
  BY DEF ScoresMeasure
<1>1. index' = index /\ changes = since
  OBVIOUS
<1>2. FirstInBoth' = FirstInBoth
  BY <1>1 DEF FirstInBoth
<1>3. NearestOrders' = NearestOrders
  BY <1>1, NearestAreStable
<1> QED
  BY <1>1, <1>2, <1>3 DEF ScoresMeasure

LEMMA EvaluationInitEstablishes == EvaluationInit => EvaluationInvariant
<1> SUFFICES ASSUME EvaluationInit PROVE EvaluationInvariant
  OBVIOUS
<1>1. SearchInvariant /\ changes = 0
  BY SearchInitEstablishes DEF EvaluationInit, Init
<1>2. /\ phase = "none" /\ since = 0 /\ resolved = <<0, 0>> /\ asked = FALSE /\ scores = <<>>
      /\ k \in Cutoffs
  BY DEF EvaluationInit
<1>3. Len(Golden) \in Nat /\ Len(Plan) \in Nat
  BY DatasetShape, PlanShape
<1>4. EvaluationTypeOK
  <2>1. scores \in Seq([found : Nat, rank : Nat]) /\ Len(scores) = 0
    BY <1>2, EmptySeq
  <2>2. resolved \in (0..Len(Golden)) \X Nat
    BY <1>2, <1>3
  <2>3. Len(scores) <= Len(Plan)
    BY <1>3, <2>1
  <2>4. since \in 0..MaxChanges
    BY <1>2, SearchAssumption
  <2>5. asked \in BOOLEAN
    BY <1>2, Zenon
  <2>6. phase \in {"none", "resolving", "evaluating", "reported", "failed"}
    BY <1>2
  <2>7. TypeOK /\ k \in Cutoffs
    BY <1>1, <1>2 DEF SearchInvariant
  <2> QED
    BY <2>1, <2>2, <2>3, <2>4, <2>5, <2>6, <2>7 DEF EvaluationTypeOK
<1>5. PhaseIsTold /\ AskedIsCurrent /\ ResolvedAreStored
  BY <1>1, <1>2 DEF PhaseIsTold, AskedIsCurrent, ResolvedAreStored
<1>6. VectorsWereThere
  BY <1>2, <1>3 DEF VectorsWereThere, AskedVectors
<1>7. ScoresMeasure
  BY <1>2, NoScoresMeasure
<1> QED
  BY <1>1, <1>4, <1>5, <1>6, <1>7 DEF EvaluationInvariant

\* A step of a search leaves the index alone, or counts as a commit; the
\* request changes only when the next one comes.
LEMMA SearchesChangeLittle ==
    ASSUME SearchInvariant, [Next]_vars
    PROVE  /\ session' = session
           /\ \/ changes' = changes /\ index' = index
              \/ changes' = changes + 1
           /\ requests' = requests => request' = request /\ began' = began
<1>1. ASSUME SearchStep
      PROVE  /\ session' = session /\ changes' = changes /\ index' = index
             /\ request' = request /\ began' = began
  BY <1>1 DEF SearchStep, Refuse, ReadLexical, CheckVectorState, RejectVectorState,
     ReadVectors, RejectQuery, FailRead, Answer, FailFusion, readVars
<1>2. ASSUME NEW strategy, NEW max, Search(strategy, max)
      PROVE  /\ session' = session /\ changes' = changes /\ index' = index
             /\ requests' # requests
  BY <1>2 DEF Search, Begin, SearchInvariant, TypeOK
<1>3. ASSUME NEW new, OthersCommit(new)
      PROVE  /\ session' = session /\ changes' = changes + 1
             /\ request' = request /\ began' = began
  BY <1>3 DEF OthersCommit
<1> QED
  BY <1>1, <1>2, <1>3 DEF Next, vars

LEMMA SearchingKeeps ==
    ASSUME EvaluationInvariant, [Next]_vars, UNCHANGED evaluationVars,
           phase = "none" \/ requests' = requests
    PROVE  EvaluationInvariant'
<1>1. SearchInvariant'
  BY SearchNextKeeps DEF EvaluationInvariant
<1>2. /\ phase' = phase /\ k' = k /\ since' = since /\ resolved' = resolved
      /\ asked' = asked /\ scores' = scores
  BY DEF evaluationVars
<1>3. /\ session' = session
      /\ \/ changes' = changes /\ index' = index
         \/ changes' = changes + 1
      /\ requests' = requests => request' = request /\ began' = began
  BY SearchesChangeLittle DEF EvaluationInvariant
<1>4. since \in Nat /\ changes \in Nat /\ since <= changes
  BY SearchAssumption DEF EvaluationInvariant, EvaluationTypeOK, TypeOK, PhaseIsTold
<1>5. EvaluationTypeOK'
  BY <1>1, <1>2 DEF EvaluationInvariant, EvaluationTypeOK, SearchInvariant
<1>6. PhaseIsTold'
  BY <1>2, <1>3, <1>4 DEF EvaluationInvariant, PhaseIsTold
<1>7. AskedIsCurrent'
  BY <1>2, <1>3 DEF EvaluationInvariant, AskedIsCurrent, Current
<1>8. ResolvedAreStored' /\ VectorsWereThere'
  BY <1>2, <1>3, <1>4 DEF EvaluationInvariant, ResolvedAreStored, VectorsWereThere,
     AskedVectors, Resolves, TableTakesQuery
<1>9. ScoresMeasure'
  <2>1. changes' = since' => changes = since /\ index' = index
    BY <1>2, <1>3, <1>4
  <2> QED
    BY <1>2, <2>1, ScoresStay DEF EvaluationInvariant
<1> QED
  BY <1>1, <1>5, <1>6, <1>7, <1>8, <1>9 DEF EvaluationInvariant

\* What the searches know when an evaluation only moves on.
LEMMA SearchUndisturbed ==
    ASSUME EvaluationInvariant, UNCHANGED vars
    PROVE  SearchInvariant' /\ TypeOK' /\ (VectorsWereThere /\ scores' = scores /\ since' = since
                                             => VectorsWereThere')
<1>1. SearchInvariant'
  BY SearchNextKeeps DEF EvaluationInvariant
<1> QED
  BY <1>1 DEF SearchInvariant, VectorsWereThere, AskedVectors, TableTakesQuery, vars

LEMMA StartEvaluationKeeps ==
    ASSUME EvaluationInvariant, StartEvaluation
    PROVE  EvaluationInvariant'
<1>1. SearchInvariant' /\ TypeOK'
  BY SearchUndisturbed DEF StartEvaluation
<1>2. /\ phase = "none" /\ phase' = "resolving" /\ since' = changes
      /\ k' = k /\ resolved' = resolved /\ asked' = asked /\ scores' = scores
      /\ changes' = changes
      /\ scores = <<>> /\ ~asked /\ resolved = <<0, 0>>
  BY DEF EvaluationInvariant, PhaseIsTold, StartEvaluation, vars
<1>3. /\ Len(Golden) \in Nat \ {0} /\ 1 \in DOMAIN Golden
      /\ Len(Golden[1].relevant) \in Nat \ {0}
  BY DatasetShape
<1>4. changes \in 0..MaxChanges
  BY DEF EvaluationInvariant, EvaluationTypeOK, TypeOK
<1>5. EvaluationTypeOK'
  BY <1>1, <1>2, <1>4 DEF EvaluationInvariant, EvaluationTypeOK
<1>6. PhaseIsTold'
  BY <1>2, <1>3, <1>4 DEF PhaseIsTold
<1>7. AskedIsCurrent' /\ ResolvedAreStored'
  BY <1>2 DEF AskedIsCurrent, ResolvedAreStored
<1>8. VectorsWereThere'
  BY <1>2, <1>3, EmptySeq DEF VectorsWereThere, AskedVectors
<1>9. ScoresMeasure'
  <2>1. scores' = <<>> /\ DOMAIN <<>> = {}
    BY <1>2
  <2> QED
    BY <2>1 DEF ScoresMeasure
<1> QED
  BY <1>1, <1>5, <1>6, <1>7, <1>8, <1>9 DEF EvaluationInvariant

\* An evaluation fails: nothing more is claimed of it.
LEMMA FailureKeeps ==
    ASSUME EvaluationInvariant, phase' = "failed",
           UNCHANGED <<vars, k, since, resolved, asked, scores>>
    PROVE  EvaluationInvariant'
<1>1. SearchInvariant' /\ TypeOK' /\ VectorsWereThere' /\ changes' = changes
  BY SearchUndisturbed DEF EvaluationInvariant, vars
<1>2. EvaluationTypeOK'
  BY <1>1 DEF EvaluationInvariant, EvaluationTypeOK
<1>3. PhaseIsTold' /\ AskedIsCurrent' /\ ResolvedAreStored'
  BY <1>1 DEF EvaluationInvariant, PhaseIsTold, AskedIsCurrent, ResolvedAreStored
<1>4. ScoresMeasure'
  <2>1. index' = index
    BY DEF vars
  <2> QED
    BY <1>1, <2>1, ScoresStay DEF EvaluationInvariant
<1> QED
  BY <1>1, <1>2, <1>3, <1>4 DEF EvaluationInvariant

\* The next reference is stored, or the evaluation fails.
LEMMA ResolveKeeps ==
    ASSUME EvaluationInvariant, Resolve
    PROVE  EvaluationInvariant'
<1> DEFINE q == resolved[1] + 1
           n == resolved[2] + 1
           relevant == Golden[q].relevant
<1>1. SearchInvariant' /\ TypeOK' /\ VectorsWereThere'
  BY SearchUndisturbed DEF EvaluationInvariant, Resolve
<1>2. /\ phase = "resolving"
      /\ resolved' = IF n = Len(relevant) THEN <<q, 0>> ELSE <<q - 1, n>>
      /\ phase' = IF ~Resolves(relevant[n]) THEN "failed"
                  ELSE IF n = Len(relevant) /\ q = Len(Golden) THEN "evaluating"
                  ELSE "resolving"
      /\ index' = index /\ changes' = changes /\ k' = k /\ since' = since
      /\ asked' = asked /\ scores' = scores
  BY DEF Resolve, vars
<1>3. /\ resolved[1] \in 0..Len(Golden) /\ resolved[2] \in Nat
      /\ resolved = <<resolved[1], resolved[2]>>
      /\ resolved[1] < Len(Golden) /\ resolved[2] < Len(relevant)
      /\ scores = <<>> /\ ~asked /\ since <= changes
  BY <1>2 DEF EvaluationInvariant, EvaluationTypeOK, PhaseIsTold
<1>4. /\ Len(Golden) \in Nat \ {0} /\ DOMAIN Golden = 1..Len(Golden)
      /\ Len(Plan) \in Nat /\ Len(Plan) > 0 /\ Len(scores) = 0
  BY <1>3, DatasetShape, PlanShape, EmptySeq
<1>5. /\ q \in 1..Len(Golden) /\ Len(relevant) \in Nat \ {0}
      /\ DOMAIN relevant = 1..Len(relevant) /\ n \in 1..Len(relevant)
      /\ Relevant(q) = {relevant[i] : i \in 1..Len(relevant)}
  <2>1. q \in 1..Len(Golden)
    BY <1>3, <1>4
  <2>2. Len(relevant) \in Nat \ {0} /\ DOMAIN relevant = 1..Len(relevant)
    BY <1>4, <2>1, DatasetShape
  <2> QED
    BY <1>3, <2>1, <2>2 DEF Relevant, Ranked
<1>6. resolved' \in (0..Len(Golden)) \X Nat
  BY <1>2, <1>3, <1>4, <1>5
<1>7. EvaluationTypeOK'
  BY <1>1, <1>2, <1>6 DEF EvaluationInvariant, EvaluationTypeOK
<1>8. PhaseIsTold'
  <2>1. phase' = "evaluating" => resolved' = <<Len(Golden), 0>>
    BY <1>2
  <2>2. ASSUME phase' = "resolving"
        PROVE  resolved'[1] < Len(Golden) /\ resolved'[2] < Len(Golden[resolved'[1] + 1].relevant)
    <3>1. CASE n = Len(relevant)
      <4>1. resolved' = <<q, 0>> /\ q # Len(Golden)
        BY <1>2, <2>2, <3>1
      <4>2. q \in Nat /\ q < Len(Golden) /\ q + 1 \in DOMAIN Golden
        BY <1>4, <1>5, <4>1
      <4>3. Len(Golden[q + 1].relevant) \in Nat \ {0}
        BY <4>2, DatasetShape
      <4> HIDE DEF q
      <4> QED
        BY <4>1, <4>2, <4>3
    <3>2. CASE n # Len(relevant)
      <4>1. resolved' = <<resolved[1], n>>
        BY <1>2, <1>3, <3>2
      <4>2. n < Len(relevant)
        BY <1>5, <3>2
      <4> QED
        BY <1>3, <4>1, <4>2
    <3> QED
      BY <3>1, <3>2
  <2> QED
    BY <1>2, <1>3, <1>4, <2>1, <2>2 DEF PhaseIsTold
<1>9. AskedIsCurrent'
  BY <1>2, <1>3 DEF AskedIsCurrent
<1>10. ResolvedAreStored'
  <2> SUFFICES ASSUME changes = since, phase' \in {"resolving", "evaluating"}
               PROVE  /\ \A p \in 1..resolved'[1] : \A c \in Relevant(p) : Resolves(c)
                      /\ \A i \in 1..resolved'[2] :
                            Resolves(Golden[resolved'[1] + 1].relevant[i])
    BY <1>2 DEF ResolvedAreStored, Resolves
  <2>1. /\ \A p \in 1..resolved[1] : \A c \in Relevant(p) : Resolves(c)
        /\ \A i \in 1..resolved[2] : Resolves(relevant[i])
    BY <1>2 DEF EvaluationInvariant, ResolvedAreStored
  <2>2. Resolves(relevant[n])
    BY <1>2
  <2>3. \A i \in 1..n : Resolves(relevant[i])
    BY <1>3, <2>1, <2>2
  <2>4. CASE n = Len(relevant)
    <3>1. \A c \in Relevant(q) : Resolves(c)
      BY <1>5, <2>3, <2>4
    <3>2. resolved' = <<q, 0>>
      BY <1>2, <2>4
    <3>3. \A p \in 1..q : p \in 1..resolved[1] \/ p = q
      BY <1>3
    <3> QED
      BY <2>1, <3>1, <3>2, <3>3
  <2>5. CASE n # Len(relevant)
    <3>1. resolved' = <<resolved[1], n>>
      BY <1>2, <1>3, <2>5
    <3> QED
      BY <2>1, <2>3, <3>1
  <2> QED
    BY <2>4, <2>5
<1>11. ScoresMeasure'
  BY <1>2, ScoresStay DEF EvaluationInvariant
<1> QED
  BY <1>1, <1>7, <1>8, <1>9, <1>10, <1>11 DEF EvaluationInvariant

LEMMA AskKeeps ==
    ASSUME EvaluationInvariant, Ask
    PROVE  EvaluationInvariant'
<1>1. /\ phase = "evaluating" /\ Begin(Current.strategy, k) /\ asked' = TRUE
      /\ requests' = requests /\ phase' = phase /\ k' = k /\ since' = since
      /\ resolved' = resolved /\ scores' = scores
      /\ index' = index /\ changes' = changes /\ session' = session
      /\ request' = [strategy |-> Current.strategy, max |-> k] /\ began' = changes
  BY DEF Ask, Begin
<1>2. /\ Len(scores) \in Nat /\ Len(scores) < Len(Plan) /\ k \in Nat
      /\ requests \in 0..MaxRequests /\ since <= changes
  BY <1>1, GoldenAssumption DEF EvaluationInvariant, EvaluationTypeOK, TypeOK, PhaseIsTold
<1>3. Current.strategy \in Strategies
  BY <1>2, PlanShape DEF Current
<1>4. SearchInvariant'
  BY <1>1, <1>2, <1>3, BeginKeeps DEF EvaluationInvariant
<1>5. EvaluationTypeOK'
  BY <1>1, <1>4 DEF EvaluationInvariant, EvaluationTypeOK, SearchInvariant
<1>6. PhaseIsTold'
  BY <1>1 DEF EvaluationInvariant, PhaseIsTold
<1>7. AskedIsCurrent'
  BY <1>1, <1>2 DEF AskedIsCurrent, Current
<1>8. ResolvedAreStored' /\ VectorsWereThere'
  BY <1>1 DEF EvaluationInvariant, ResolvedAreStored, VectorsWereThere, AskedVectors,
     Resolves, TableTakesQuery
<1>9. ScoresMeasure'
  BY <1>1, ScoresStay DEF EvaluationInvariant
<1> QED
  BY <1>4, <1>5, <1>6, <1>7, <1>8, <1>9 DEF EvaluationInvariant

\* What a search in the evaluation's time was answered is worth what the
\* index is.
LEMMA AnswersMeasure ==
    ASSUME SearchInvariant, Answered, changes = began, k \in Cutoffs, NEW entry,
           entry.query \in DOMAIN Golden, request = [strategy |-> entry.strategy, max |-> k]
    PROVE  Tells([found |-> FoundAtK(answer.results, Relevant(entry.query)),
                  rank  |-> FirstRank(answer.results, Relevant(entry.query))],
                 entry, k, index.lexical, NearestOrders, FirstInBoth)
<1> DEFINE q == entry.query
           score == [found |-> FoundAtK(answer.results, Relevant(q)),
                     rank  |-> FirstRank(answer.results, Relevant(q))]
<1>1. /\ k \in Nat /\ index.lexical \in Rankings /\ index.vector \in Rankings
      /\ answer.results \in Seq(ChunkIds)
  BY GoldenAssumption DEF SearchInvariant, IsIndex, IndexRecords, TypeOK
<1>2. /\ answer.status # "empty" => answer.results # <<>>
      /\ request.strategy = "lexical" => answer.results = Prefix(index.lexical, k)
      /\ request.strategy = "vector" =>
            \E order \in NearestOrders : answer.results = Prefix(order, k)
  BY DEF SearchInvariant, AnswersAreCuts
<1>3. ASSUME NEW r \in Rankings, answer.results = Prefix(r, k)
      PROVE  TellsOf(score, k, r, q)
  BY <1>1, <1>3, ScoreMeasures, CutoffOfEvaluation DEF TellsOf
<1>4. request.strategy = "lexical" => TellsOf(score, k, index.lexical, q)
  BY <1>1, <1>2, <1>3
<1>5. ASSUME request.strategy = "vector"
      PROVE  \E order \in NearestOrders : TellsOf(score, k, order, q)
  <2>1. PICK order \in NearestOrders : answer.results = Prefix(order, k)
    BY <1>2, <1>5
  <2>2. order \in Rankings
    BY DEF NearestOrders
  <2>3. TellsOf(score, k, order, q)
    BY <1>3, <2>1, <2>2
  <2> QED
    BY <2>3
<1>6. ASSUME request.strategy = "hybrid", NEW c \in Relevant(q), c \in FirstInBoth
      PROVE  score.rank = 1
  <2> DEFINE results == answer.results
  <2>1. c \in Ranked(index.lexical) /\ c \in ChunkIds
    BY <1>1, <1>6, PlacesInRankings, DatasetShape DEF FirstInBoth
  <2>2. results # <<>>
    <3>1. Available # {}
      BY <1>6, <2>1 DEF Available
    <3>2. answer.status # "empty"
      BY <3>1 DEF SearchInvariant, StatusIsHonest
    <3> QED
      BY <1>2, <3>2
  <2>3. Len(results) \in Nat \ {0} /\ DOMAIN results = 1..Len(results)
    <3> HIDE DEF results
    <3>1. results \in Seq(ChunkIds)
      BY <1>1 DEF results
    <3> QED
      BY <2>2, <3>1, EmptySeq
  <2>4. 1 \in DOMAIN results
    <3> HIDE DEF results
    <3> QED
      BY <2>3
  <2>5. results[1] = c
    <3> SUFFICES ASSUME results[1] # c PROVE FALSE
      OBVIOUS
    <3> DEFINE a == results[1]
               la == PlaceOf(a, index.lexical)
               va == PlaceOf(a, index.vector)
    <3>1. la \in Nat /\ va \in Nat /\ la # 1 /\ va # 1
      BY <1>1, <1>6, PlacesInRankings DEF FirstInBoth
    <3>2. RankBelow(1, la) /\ RankBelow(1, va)
      <4> HIDE DEF la, va
      <4> QED
        BY <3>1 DEF RankBelow
    <3>5. Nearer(c, a)
      <4>1. PlaceOf(c, index.vector) = 1 /\ 2 \notin index.tied
        BY <1>6 DEF FirstInBoth
      <4> HIDE DEF la, va
      <4>2. va = 0 \/ 2 \in (1 + 1)..va
        BY <3>1
      <4>3. RankBelow(1, va) /\ (va = 0 \/ ~((1 + 1)..va \subseteq index.tied))
        BY <3>2, <4>1, <4>2
      <4> QED
        BY <4>1, <4>3 DEF Nearer, va
    <3>3. Dominates(c, a)
      BY <1>6, <3>2, <3>5 DEF Dominates, FirstInBoth
    <3>4. PICK j \in DOMAIN results : j < 1 /\ results[j] = c
      <4>1. \A i \in DOMAIN answer.results : \A b \in ChunkIds :
               Dominates(b, answer.results[i]) =>
                  \E j \in DOMAIN answer.results : j < i /\ answer.results[j] = b
        BY <1>6 DEF SearchInvariant, DominatedComesLater
      <4> QED
        BY <2>1, <2>4, <3>3, <4>1
    <3> HIDE DEF results
    <3> QED
      BY <2>3, <3>4
  <2> DEFINE hits == {i \in DOMAIN results : results[i] \in Relevant(q)}
  <2>6. 1 \in hits /\ \A j \in hits : j \in Nat /\ 1 <= j
    <3> HIDE DEF results
    <3> QED
      BY <1>6, <2>3, <2>4, <2>5
  <2>7. FirstRank(results, Relevant(q)) =
           IF hits = {} THEN 0 ELSE CHOOSE i \in hits : \A j \in hits : i <= j
    BY DEF FirstRank
  <2> HIDE DEF hits, results
  <2>8. (CHOOSE i \in hits : \A j \in hits : i <= j) = 1
    <3>1. \A i \in hits : (\A j \in hits : i <= j) => i = 1
      <4> SUFFICES ASSUME NEW i \in hits, \A j \in hits : i <= j PROVE i = 1
        OBVIOUS
      <4>1. i \in Nat /\ 1 <= i /\ i <= 1
        BY <2>6
      <4> QED
        BY <4>1
    <3> QED
      BY <2>6, <3>1
  <2>9. FirstRank(results, Relevant(q)) = 1
    BY <2>6, <2>7, <2>8
  <2> QED
    BY <2>9 DEF results
<1> QED
  BY <1>4, <1>5, <1>6 DEF Tells

\* A vector search that was answered has seen the index there.
LEMMA ScoreKeeps ==
    ASSUME EvaluationInvariant, Score
    PROVE  EvaluationInvariant'
<1> DEFINE relevant == Relevant(Current.query)
           score == [found |-> FoundAtK(answer.results, relevant),
                     rank  |-> FirstRank(answer.results, relevant)]
<1>1. /\ phase = "evaluating" /\ pc = "idle" /\ asked /\ Answered
      /\ scores' = Append(scores, score) /\ asked' = FALSE
      /\ phase' = IF Len(scores') = Len(Plan) THEN "reported" ELSE "evaluating"
      /\ answer' = NoAnswer /\ request' = None
      /\ index' = index /\ changes' = changes /\ session' = session /\ pc' = pc
      /\ began' = began /\ lexical' = lexical /\ vector' = vector /\ used' = used
      /\ requests' = requests /\ k' = k /\ since' = since /\ resolved' = resolved
  BY DEF Score, Scorable
<1>2. /\ SearchInvariant /\ TypeOK /\ scores \in Seq([found : Nat, rank : Nat])
      /\ Len(scores) \in Nat /\ Len(scores) < Len(Plan) /\ Len(Plan) \in Nat /\ k \in Nat
      /\ since \in Nat /\ began \in Nat /\ changes \in Nat
      /\ since <= began /\ began <= changes
      /\ request.strategy = Current.strategy
  BY <1>1, GoldenAssumption, SearchAssumption, PlanShape
     DEF EvaluationInvariant, EvaluationTypeOK, SearchInvariant, TypeOK, PhaseIsTold,
         AskedIsCurrent, RequestInProgress
<1>3. score \in [found : Nat, rank : Nat]
  BY <1>2, ScoresAreNumbers DEF TypeOK
<1> HIDE DEF score
<1>4. scores' \in Seq([found : Nat, rank : Nat]) /\ Len(scores') = Len(scores) + 1
  BY <1>1, <1>2, <1>3
<1>5. ~Answered'
  BY <1>1 DEF Answered, NoAnswer, Without
<1>6. TypeOK'
  BY <1>1, <1>2, EmptySeq DEF TypeOK, NoAnswer, Without
<1>7. SearchInvariant'
  <2>1. IsIndex(index)' /\ RequestInProgress' /\ ReadsAreCuts' /\ VectorsWereReady'
    BY <1>1, <1>2, <1>5 DEF SearchInvariant, IsIndex, RequestInProgress, ReadsAreCuts,
       VectorsWereReady
  <2> QED
    BY <1>5, <1>6, <2>1, UnansweredIsHonest, PTL DEF SearchInvariant
<1>8. EvaluationTypeOK'
  <2>1. Len(scores') <= Len(Plan)
    BY <1>2, <1>4
  <2>2. Len(Plan)' = Len(Plan)
    BY DEF Plan
  <2>3. k' \in Cutoffs /\ since' \in 0..MaxChanges /\ asked' \in BOOLEAN
        /\ resolved' \in (0..Len(Golden)) \X Nat
    BY <1>1 DEF EvaluationInvariant, EvaluationTypeOK
  <2>4. phase' \in {"none", "resolving", "evaluating", "reported", "failed"}
    BY <1>1
  <2> QED
    BY <1>4, <1>6, <2>1, <2>2, <2>3, <2>4 DEF EvaluationTypeOK
<1>9. PhaseIsTold'
  BY <1>1, <1>2, <1>4 DEF EvaluationInvariant, PhaseIsTold
<1>10. AskedIsCurrent' /\ ResolvedAreStored'
  BY <1>1 DEF EvaluationInvariant, AskedIsCurrent, ResolvedAreStored, Resolves
<1>11. VectorsWereThere'
  <2> SUFFICES ASSUME changes = since, Len(scores') > Len(Golden)
               PROVE  index.space = session /\ TableTakesQuery
    BY <1>1 DEF VectorsWereThere, AskedVectors, TableTakesQuery
  <2>1. Len(Golden) \in Nat
    BY DatasetShape
  <2>2. CASE Len(scores) > Len(Golden)
    BY <2>2 DEF EvaluationInvariant, VectorsWereThere, AskedVectors
  <2>3. CASE Len(scores) = Len(Golden)
    <3>1. request.strategy = "vector"
      BY <1>2, <2>3, PlanShape DEF Current
    <3>2. changes = began
      BY <1>2
    <3> QED
      BY <1>1, <1>2, <3>1, <3>2 DEF SearchInvariant, VectorsWereReady
  <2> QED
    BY <1>2, <1>4, <2>1, <2>2, <2>3
<1>12. ScoresMeasure'
  <2> SUFFICES ASSUME changes = since PROVE ScoresMeasure'
    BY <1>1 DEF ScoresMeasure
  <2>1. changes = began
    BY <1>2
  <2>2. \A n \in DOMAIN scores : Tells(scores[n], Plan[n], k, index.lexical, NearestOrders, FirstInBoth)
    BY DEF EvaluationInvariant, ScoresMeasure
  <2>3. Tells(score, Current, k, index.lexical, NearestOrders, FirstInBoth)
    <3>1. request = [strategy |-> Current.strategy, max |-> k] /\ k \in Cutoffs
      BY <1>1 DEF EvaluationInvariant, AskedIsCurrent, EvaluationTypeOK
    <3>2. Current.query \in DOMAIN Golden
      BY <1>2, PlanShape DEF Current
    <3> QED
      BY <1>1, <1>2, <2>1, <3>1, <3>2, AnswersMeasure DEF score
  <2>4. /\ DOMAIN scores = 1..Len(scores) /\ DOMAIN scores' = 1..(Len(scores) + 1)
        /\ \A n \in 1..Len(scores) : scores'[n] = scores[n]
        /\ scores'[Len(scores) + 1] = score
    BY <1>1, <1>2, <1>3, <1>4
  <2>5. \A n \in DOMAIN scores' : Tells(scores'[n], Plan[n], k, index.lexical, NearestOrders, FirstInBoth)
    <3>1. \A n \in 1..(Len(scores) + 1) : n \in 1..Len(scores) \/ n = Len(scores) + 1
      BY <1>2
    <3>2. Tells(scores'[Len(scores) + 1], Plan[Len(scores) + 1], k, index.lexical, NearestOrders, FirstInBoth)
      BY <2>3, <2>4 DEF Current
    <3> QED
      BY <2>2, <2>4, <3>1, <3>2
  <2>6. NearestOrders' = NearestOrders /\ FirstInBoth' = FirstInBoth
    BY <1>1, NearestAreStable DEF FirstInBoth
  <2> QED
    BY <1>1, <2>5, <2>6 DEF ScoresMeasure
<1> QED
  BY <1>7, <1>8, <1>9, <1>10, <1>11, <1>12 DEF EvaluationInvariant

LEMMA EvaluationNextKeeps ==
    EvaluationInvariant /\ [EvaluationNext]_allVars => EvaluationInvariant'
<1> SUFFICES ASSUME EvaluationInvariant, [EvaluationNext]_allVars
             PROVE  EvaluationInvariant'
  OBVIOUS
<1>1. ASSUME FailLookup PROVE EvaluationInvariant'
  BY <1>1, FailureKeeps DEF FailLookup
<1>2. ASSUME FailEvaluation PROVE EvaluationInvariant'
  BY <1>2, FailureKeeps DEF FailEvaluation
<1>3. ASSUME UNCHANGED allVars PROVE EvaluationInvariant'
  BY <1>3, SearchingKeeps DEF allVars, vars
<1>4. ASSUME Next, UNCHANGED evaluationVars, phase = "none" \/ requests' = requests
      PROVE  EvaluationInvariant'
  BY <1>4, SearchingKeeps
<1> QED
  BY <1>1, <1>2, <1>3, <1>4, StartEvaluationKeeps, ResolveKeeps, AskKeeps, ScoreKeeps
     DEF EvaluationNext, EvaluationStep

----------------------------------------------------------------------------
(* Evaluations: theorems.                                                  *)

\* Every reachable state of a process that evaluates, or answers requests,
\* while others commit satisfies the invariant.
THEOREM EvaluationInvariance == EvaluationSpec => []EvaluationInvariant
BY EvaluationInitEstablishes, EvaluationNextKeeps, PTL DEF EvaluationSpec

\* Requests, answers and scores are always what their types say.
THEOREM EvaluationTypeCorrect == EvaluationSpec => []EvaluationTypeOK
<1>1. EvaluationInvariant => EvaluationTypeOK
  BY DEF EvaluationInvariant
<1> QED
  BY EvaluationInvariance, <1>1, PTL

\* The searches of an evaluation are as honest as any.
THEOREM EvaluatedAnswersAreHonest ==
    EvaluationSpec => [](StatusIsHonest /\ DominatedComesLater)
<1>1. EvaluationInvariant => StatusIsHonest /\ DominatedComesLater
  BY DEF EvaluationInvariant, SearchInvariant
<1> QED
  BY EvaluationInvariance, <1>1, PTL

\* What could not be answered is no zero score: unless others commit on the
\* way, there is a report only of an index that could serve every strategy
\* and stores every golden reference.
THEOREM ReportsHaveAnIndex == EvaluationSpec => []ReportsNeedAnIndex
<1>1. ASSUME EvaluationInvariant PROVE ReportsNeedAnIndex
  <2> SUFFICES ASSUME phase = "reported", changes = since
               PROVE  /\ index.space = session /\ TableTakesQuery
                      /\ \A c \in References : Resolves(c)
    BY DEF ReportsNeedAnIndex
  <2>1. resolved = <<Len(Golden), 0>> /\ Len(scores) = Len(Plan)
    BY <1>1 DEF EvaluationInvariant, PhaseIsTold
  <2>2. \A q \in DOMAIN Golden : \A c \in Relevant(q) : Resolves(c)
    BY <1>1, <2>1, DatasetShape DEF EvaluationInvariant, ResolvedAreStored
  <2>3. AskedVectors
    BY <2>1, DatasetShape, PlanShape DEF AskedVectors
  <2> QED
    BY <1>1, <2>2, <2>3 DEF EvaluationInvariant, VectorsWereThere, References
<1> QED
  BY EvaluationInvariance, <1>1, PTL

\* What the scores of a strategy tell of the rankings they were read from.
LEMMA ReportedScoresTell ==
    ASSUME EvaluationInvariant, phase = "reported", changes = since,
           NEW n \in 1..3, NEW q \in DOMAIN Golden
    PROVE  Tells(ScoresOf(n)[q], [strategy |-> DefaultStrategies[n], query |-> q],
                 k, index.lexical, NearestOrders, FirstInBoth)
<1> DEFINE i == (n - 1) * Len(Golden) + q
<1>1. /\ i \in 1..Len(Plan)
      /\ Plan[i].strategy = DefaultStrategies[n] /\ Plan[i].query = q
  BY PlanOrder
<1>2. ScoresOf(n)[q] = scores[i]
  BY DEF ScoresOf
<1> HIDE DEF i
<1>3. Len(scores) = Len(Plan) /\ scores \in Seq([found : Nat, rank : Nat])
  BY DEF EvaluationInvariant, PhaseIsTold, EvaluationTypeOK
<1>4. i \in DOMAIN scores
  BY <1>1, <1>3
<1>5. Tells(scores[i], Plan[i], k, index.lexical, NearestOrders, FirstInBoth)
  BY <1>4 DEF EvaluationInvariant, ScoresMeasure
<1> QED
  BY <1>1, <1>2, <1>5 DEF Tells

\* Unless others commit on the way, what a report says of the lexical and of
\* the vector strategy, over all queries and in each category, is the mean
\* worth of the first k chunks of the full rankings, equally near chunks in
\* some order, although every search looked only at the best candidates; and a
\* relevant chunk first in both rankings, nearer than every other, is the
\* first hybrid hit.
THEOREM ReportsMeasure == EvaluationSpec => []ReportMeasuresTheIndex
<1>1. ASSUME EvaluationInvariant PROVE ReportMeasuresTheIndex
  <2> SUFFICES ASSUME phase = "reported", changes = since PROVE ReportMeasuresTheIndex
    BY DEF ReportMeasuresTheIndex
  <2>1. k \in Nat /\ index.lexical \in Rankings /\ NearestOrders \subseteq Rankings
    BY <1>1, GoldenAssumption
       DEF EvaluationInvariant, EvaluationTypeOK, SearchInvariant, IsIndex, IndexRecords,
           NearestOrders
  <2>2. \A n \in 1..3 : \A q \in DOMAIN Golden :
           Tells(ScoresOf(n)[q], [strategy |-> DefaultStrategies[n], query |-> q],
                 k, index.lexical, NearestOrders, FirstInBoth)
    BY <1>1, ReportedScoresTell
  <2>3. ASSUME NEW n \in 1..2, NEW ranking \in [DOMAIN Golden -> Rankings],
               \A q \in DOMAIN Golden : TellsOf(ScoresOf(n)[q], k, ranking[q], q)
        PROVE  MeasuresRankings(StrategyEvaluation(ScoresOf(n)), ranking)
    <3> DEFINE recall == [q \in DOMAIN Golden |-> TrueRecall(ranking[q], q)]
               reciprocal == [q \in DOMAIN Golden |-> TrueReciprocal(ranking[q], q)]
    <3>1. /\ recall \in [DOMAIN Golden -> Fractions]
          /\ reciprocal \in [DOMAIN Golden -> Fractions]
      BY <2>1, MeasuresAreFractions
    <3>2. \A q \in DOMAIN Golden :
             /\ RecallOf(ScoresOf(n)[q], q) = recall[q]
             /\ ReciprocalOf(ScoresOf(n)[q]) = reciprocal[q]
      BY <2>3, CutoffOfEvaluation DEF TellsOf
    <3>3. Measures(StrategyEvaluation(ScoresOf(n)), recall, reciprocal)
      <4> HIDE DEF recall, reciprocal
      <4> QED
        BY <3>1, <3>2, ReportsAreMeans
    <3> QED
      BY <3>3 DEF Measures, MeasuresRankings
  <2>4. MeasuresRankings(StrategyEvaluation(ScoresOf(1)), [q \in DOMAIN Golden |-> index.lexical])
    <3>1. DefaultStrategies[1] = "lexical"
      BY DEF DefaultStrategies
    <3>2. \A q \in DOMAIN Golden : TellsOf(ScoresOf(1)[q], k, index.lexical, q)
      BY <2>2, <3>1 DEF Tells
    <3> QED
      BY <2>1, <2>3, <3>2
  <2>5. \E nearest \in [DOMAIN Golden -> NearestOrders] :
           MeasuresRankings(StrategyEvaluation(ScoresOf(2)), nearest)
    <3> DEFINE nearest == [q \in DOMAIN Golden |->
                              CHOOSE order \in NearestOrders : TellsOf(ScoresOf(2)[q], k, order, q)]
    <3>1. DefaultStrategies[2] = "vector"
      BY DEF DefaultStrategies
    <3>2. \A q \in DOMAIN Golden :
             \E order \in NearestOrders : TellsOf(ScoresOf(2)[q], k, order, q)
      BY <2>2, <3>1 DEF Tells
    <3>3. \A q \in DOMAIN Golden :
             nearest[q] \in NearestOrders /\ TellsOf(ScoresOf(2)[q], k, nearest[q], q)
      BY <3>2
    <3>4. nearest \in [DOMAIN Golden -> NearestOrders]
      BY <3>3
    <3> HIDE DEF nearest
    <3>5. nearest \in [DOMAIN Golden -> Rankings]
      BY <2>1, <3>4
    <3> QED
      BY <2>3, <3>3, <3>4, <3>5
  <2>6. ASSUME NEW q \in DOMAIN Golden, NEW c \in Relevant(q), PlaceOf(c, index.lexical) = 1,
               PlaceOf(c, index.vector) = 1, 2 \notin index.tied
        PROVE  ScoresOf(3)[q].rank = 1
    <3>1. DefaultStrategies[3] = "hybrid"
      BY DEF DefaultStrategies
    <3>2. c \in FirstInBoth
      BY <2>6, DatasetShape DEF FirstInBoth
    <3> QED
      BY <2>2, <3>1, <3>2 DEF Tells
  <2> QED
    BY <2>4, <2>5, <2>6 DEF ReportMeasuresTheIndex
<1> QED
  BY EvaluationInvariance, <1>1, PTL
=============================================================================
