---------------------------- MODULE MCEvaluation ----------------------------
(* A small instance of Evaluation and KnowledgeSearch for TLC. *)
EXTENDS Evaluation, TLC

MCSpaceDimension == [s \in Spaces |-> 1]

\* Other processes empty the database, rewrite every chunk in place and
\* rebuild the vector index, with the same or with another model, or drop
\* the vector table and get no further.
MCChanges ==
    LET up == [i \in 1..Cardinality(ChunkIds) |-> i]
        record(l, v, version, space, dimension) ==
            [lexical |-> l, vector |-> v, tied |-> {},
             version |-> [c \in ChunkIds |-> version],
             space |-> space, dimension |-> dimension]
    IN  {record(<<>>, <<>>, None, None, 0)}
          \cup {record(up, Reverse(up), 2, s, SpaceDimension[s]) : s \in Spaces}
          \cup {record(up, <<>>, 2, s, 0) : s \in Spaces}

\* Two queries of two categories, one with a single relevant chunk.
MCGolden ==
    <<[relevant |-> <<1>>, category |-> "lexical"],
      [relevant |-> <<3, 2>>, category |-> "mixed"]>>

\* Without a provider no request gets as far as the vector ranking: one will
\* do.  Vector rankings of all but one chunk are left out; lexical ones, which
\* are cut off by the same limits, are not.  The second to fourth nearest, on
\* both sides of the limits 2 and 3, may tie where the lexical ranking has all
\* chunks or none.
MCInit ==
    /\ EvaluationInit
    /\ session = None => index.vector = <<>>
    /\ Len(index.vector) # Cardinality(ChunkIds) - 1
    /\ \/ index.tied = {}
       \/ index.tied = {3, 4} /\ Len(index.lexical) \in {0, Cardinality(ChunkIds)}

MCSpec ==
    /\ MCInit
    /\ [][EvaluationNext]_allVars
    /\ Fairness
=============================================================================
