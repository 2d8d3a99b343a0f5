----------------------------- MODULE Evaluation -----------------------------
(***************************************************************************)
(* run_evaluation: the golden references are looked up once, then every    *)
(* strategy answers every golden query through KnowledgeService.search,    *)
(* and the answers are scored.  The searches are those of KnowledgeSearch, *)
(* so other processes may commit between any two reads of an evaluation.   *)
(*                                                                         *)
(* The golden queries differ in what is relevant to them, not in how the   *)
(* index ranks for them.  Scores are exact fractions <<n, d>>.             *)
(***************************************************************************)
EXTENDS KnowledgeSearch, SequencesExt

CONSTANTS
    Golden,     \* the dataset: a sequence of [relevant, category] records
    Cutoffs     \* values of k

Categories == {"lexical", "semantic", "mixed"}

\* GoldenQuery, GoldenDataset: there are queries, each with references.
ASSUME GoldenAssumption ==
    /\ Golden # <<>>
    /\ Golden \in Seq([relevant : Rankings \ {<<>>}, category : Categories])
    /\ Cutoffs \subseteq Nat \ {0}

VARIABLES
    phase,      \* where the evaluation is
    k,          \* its cutoff
    since,      \* value of changes when it began
    resolved,   \* queries whose references are all looked up, and how many
                \* references of the next one
    asked,      \* whether the search of the next query has been called
    scores      \* QueryEvaluations so far

evaluationVars == <<phase, k, since, resolved, asked, scores>>
allVars == <<vars, evaluationVars>>

DefaultStrategies == <<"lexical", "vector", "hybrid">>

\* Every query under the first strategy, then under the second, ...
Plan ==
    [n \in 1..(Len(DefaultStrategies) * Len(Golden)) |->
        [strategy |-> DefaultStrategies[((n - 1) \div Len(Golden)) + 1],
         query    |-> ((n - 1) % Len(Golden)) + 1]]

Relevant(q) == Ranked(Golden[q].relevant)

\* The chunks the dataset refers to.
References == UNION {Relevant(q) : q \in DOMAIN Golden}

EvaluationTypeOK ==
    /\ TypeOK
    /\ phase \in {"none", "resolving", "evaluating", "reported", "failed"}
    /\ k \in Cutoffs
    /\ since \in 0..MaxChanges
    /\ resolved \in (0..Len(Golden)) \X Nat
    /\ asked \in BOOLEAN
    /\ scores \in Seq([found : Nat, rank : Nat]) /\ Len(scores) <= Len(Plan)

EvaluationInit ==
    /\ Init
    /\ phase = "none"
    /\ k \in Cutoffs
    /\ since = 0
    /\ resolved = <<0, 0>>
    /\ asked = FALSE
    /\ scores = <<>>

----------------------------------------------------------------------------

\* The evaluate command always has an embedding provider.
StartEvaluation ==
    /\ phase = "none"
    /\ session # None
    /\ pc = "idle" /\ requests = 0
    /\ phase' = "resolving"
    /\ since' = changes
    /\ UNCHANGED <<vars, k, resolved, asked, scores>>

\* get_chunk finds a chunk under the derived id, whatever its text.
Resolves(chunk) == index.version[chunk] # None

\* The next reference, of the next query that has any left.
Resolve ==
    /\ phase = "resolving"
    /\ LET q == resolved[1] + 1
           n == resolved[2] + 1
           relevant == Golden[q].relevant
       IN  /\ resolved' = IF n = Len(relevant) THEN <<q, 0>> ELSE <<q - 1, n>>
           /\ phase' = IF ~Resolves(relevant[n]) THEN "failed"
                       ELSE IF n = Len(relevant) /\ q = Len(Golden) THEN "evaluating"
                       ELSE "resolving"
    /\ UNCHANGED <<vars, k, since, asked, scores>>

\* get_chunk raises: nothing around it has a handler.
FailLookup ==
    /\ phase = "resolving"
    /\ phase' = "failed"
    /\ UNCHANGED <<vars, k, since, resolved, asked, scores>>

Current == Plan[Len(scores) + 1]

Ask ==
    /\ phase = "evaluating" /\ ~asked
    /\ Begin(Current.strategy, k)
    /\ asked' = TRUE
    /\ UNCHANGED <<requests, phase, k, since, resolved, scores>>

\* recall_at_k, without the division by the number of relevant chunks.
FoundAtK(results, relevant) ==
    Cardinality({i \in DOMAIN Prefix(results, k) : results[i] \in relevant})

\* reciprocal_rank: the rank of the first relevant chunk, 0 if none appears.
FirstRank(results, relevant) ==
    LET hits == {i \in DOMAIN results : results[i] \in relevant}
    IN  IF hits = {} THEN 0 ELSE CHOOSE i \in hits : \A j \in hits : i <= j

\* Mutant: a search that ended with an error has found nothing.
ScorableAlways == pc = "idle" /\ asked

Repeats(results) == \E i, j \in DOMAIN results : i # j /\ results[i] = results[j]

\* The search returned, and no chunk twice.
Scorable == pc = "idle" /\ asked /\ Answered /\ ~Repeats(answer.results)

\* _evaluate_query.
Score ==
    /\ phase = "evaluating"
    /\ Scorable
    /\ LET relevant == Relevant(Current.query)
       IN  scores' = Append(scores, [found |-> FoundAtK(answer.results, relevant),
                                     rank  |-> FirstRank(answer.results, relevant)])
    /\ asked' = FALSE
    /\ phase' = IF Len(scores') = Len(Plan) THEN "reported" ELSE "evaluating"
    /\ answer' = NoAnswer /\ request' = None
    /\ UNCHANGED <<index, changes, session, pc, began, lexical, vector, used,
                   requests, k, since, resolved>>

\* An error of the search, or a chunk returned twice, ends the evaluation.
FailEvaluation ==
    /\ phase = "evaluating"
    /\ pc = "idle" /\ asked /\ ~Scorable
    /\ phase' = "failed"
    /\ UNCHANGED <<vars, k, since, resolved, asked, scores>>

EvaluationStep == Resolve \/ FailLookup \/ Ask \/ Score \/ FailEvaluation

\* A process that evaluates takes no requests of its own.
EvaluationNext ==
    \/ StartEvaluation
    \/ EvaluationStep
    \/ /\ Next
       /\ UNCHANGED evaluationVars
       /\ phase = "none" \/ requests' = requests

EvaluationSpec == EvaluationInit /\ [][EvaluationNext]_allVars

\* A process keeps executing the request or the evaluation it is in.
Fairness ==
    /\ WF_allVars(EvaluationStep)
    /\ WF_allVars(SearchStep /\ UNCHANGED evaluationVars)

----------------------------------------------------------------------------

Plus(a, b) == <<a[1] * b[2] + b[1] * a[2], a[2] * b[2]>>
SameFraction(a, b) == a[1] * b[2] = b[1] * a[2]

\* statistics.mean, and 0.0 for a category without queries.
Mean(fractions) ==
    IF fractions = <<>> THEN <<0, 1>>
    ELSE LET sum == FoldLeft(Plus, <<0, 1>>, fractions)
         IN  <<sum[1], sum[2] * Len(fractions)>>

RecallOf(score, q) == <<score.found, Cardinality(Relevant(q))>>
ReciprocalOf(score) == IF score.rank = 0 THEN <<0, 1>> ELSE <<1, score.rank>>

\* Mutant: every query counts in every category.
QueriesAnywhere(category) == [q \in DOMAIN Golden |-> q]

QueriesIn(category) ==
    FoldLeftDomain(LAMBDA queries, q : IF Golden[q].category = category
                                       THEN Append(queries, q) ELSE queries,
                   <<>>, Golden)

\* _category_breakdown, of one strategy's scores by query.
Breakdown(score, category) ==
    LET queries == QueriesIn(category)
    IN  [recall |-> Mean([i \in DOMAIN queries |-> RecallOf(score[queries[i]], queries[i])]),
         mrr    |-> Mean([i \in DOMAIN queries |-> ReciprocalOf(score[queries[i]])])]

\* _evaluate_strategy.
StrategyEvaluation(score) ==
    [recall    |-> Mean([q \in DOMAIN Golden |-> RecallOf(score[q], q)]),
     mrr       |-> Mean([q \in DOMAIN Golden |-> ReciprocalOf(score[q])]),
     breakdown |-> [c \in Categories |-> Breakdown(score, c)]]

----------------------------------------------------------------------------

\* The scores of the n-th strategy, by query.
ScoresOf(n) == [q \in DOMAIN Golden |-> scores[(n - 1) * Len(Golden) + q]]

SumOver(fractions) ==
    FoldFunction(LAMBDA fraction, sum : Plus(sum, fraction), <<0, 1>>, fractions)

\* What the first k chunks of a full ranking are worth for a query.
TrueRecall(ranking, q) ==
    LET relevant == Relevant(q)
    IN  <<Cardinality(relevant \cap Ranked(Prefix(ranking, k))), Cardinality(relevant)>>
TrueReciprocal(ranking, q) ==
    LET places == {PlaceOf(c, Prefix(ranking, k)) : c \in Relevant(q)} \ {0}
    IN  IF places = {} THEN <<0, 1>> ELSE <<1, Min(places)>>

\* A mean over queries, times how many they are, is their sum.
IsMeanOf(mean, fractions) ==
    SameFraction(<<mean[1] * Cardinality(DOMAIN fractions), mean[2]>>, SumOver(fractions))

\* What is reported of a strategy are the means, over all queries and in each
\* category, of what the rankings are worth for the queries.
MeasuresRankings(report, ranking) ==
    LET recall == [q \in DOMAIN Golden |-> TrueRecall(ranking[q], q)]
        reciprocal == [q \in DOMAIN Golden |-> TrueReciprocal(ranking[q], q)]
    IN  /\ IsMeanOf(report.recall, recall)
        /\ IsMeanOf(report.mrr, reciprocal)
        /\ \A c \in Categories :
              LET queries == {q \in DOMAIN Golden : Golden[q].category = c}
              IN  /\ IsMeanOf(report.breakdown[c].recall, Restrict(recall, queries))
                  /\ IsMeanOf(report.breakdown[c].mrr, Restrict(reciprocal, queries))

\* A report made while nothing was committed measures the full lexical
\* ranking, and for each query some full vector ranking that has equally near
\* chunks in any order, although every search only looked at its best
\* candidates; and a relevant chunk that is first in both rankings, nearer
\* than every other, is the first hybrid hit.
ReportMeasuresTheIndex ==
    phase = "reported" /\ changes = since =>
        /\ MeasuresRankings(StrategyEvaluation(ScoresOf(1)),
                            [q \in DOMAIN Golden |-> index.lexical])
        /\ \E nearest \in [DOMAIN Golden -> NearestOrders] :
              MeasuresRankings(StrategyEvaluation(ScoresOf(2)), nearest)
        /\ \A q \in DOMAIN Golden : \A c \in Relevant(q) :
              /\ PlaceOf(c, index.lexical) = 1
              /\ PlaceOf(c, index.vector) = 1 /\ 2 \notin index.tied
              => ScoresOf(3)[q].rank = 1

\* "An infrastructure error ... is never caught here and converted into a
\* zero score" (runner, docstring), and a missing reference is no zero
\* either: without commits on the way there is a report only where every
\* strategy could answer and every golden reference is stored.
ReportsNeedAnIndex ==
    phase = "reported" /\ changes = since =>
        /\ index.space = session /\ TableTakesQuery
        /\ \A c \in References : Resolves(c)

Working == pc # "idle" \/ phase \in {"resolving", "evaluating"}

\* Every request and every evaluation ends, with a result or an error.
EvaluationsReturn == Working ~> ~Working
=============================================================================
