---------------------------- MODULE VectorRebuild ---------------------------
(***************************************************************************)
(* SqliteRepository.rebuild_vector_index beside sync_source: the chunks    *)
(* are read and embedded outside any transaction, _ensure_vector_table     *)
(* looks at the index metadata and at the table and replaces the table     *)
(* when they do not fit the provider, then one transaction empties the     *)
(* table, refills it and records the new configuration.                    *)
(*                                                                         *)
(* Each SELECT and each DDL statement outside that transaction is a step   *)
(* of its own: other processes may run, and the process may die, between   *)
(* any two of them.                                                        *)
(***************************************************************************)
EXTENDS SourceSync

CONSTANTS
    MaxRebuilds,  \* bound: rebuild_vector_index calls in a behaviour
    FailPoints    \* where a rebuild can die, or a statement of it fail

VARIABLES
    step,      \* where each connection is in rebuild_vector_index
    provider,  \* the embedding provider its rebuild runs with
    rows,      \* the chunk texts its rebuild read and embedded
    seen,      \* the dimension its rebuild read from vector_index_state, or 0
    rebuilds   \* rebuilds started so far

rebuildVars == <<step, provider, rows, seen, rebuilds>>
allVars == <<vars, rebuildVars>>

Steps == {"idle", "embedded", "lookedUp", "dropping", "creating", "replacing",
          "inserting", "committing"}

ASSUME RebuildAssumption == MaxRebuilds \in Nat /\ FailPoints \subseteq Steps \ {"idle"}

RebuildTypeOK ==
    /\ TypeOK
    /\ step \in [Connections -> Steps]
    /\ provider \in [Connections -> Providers \cup {None}]
    /\ rows \in [Connections -> [Chunks -> Texts \cup {None}]]
    /\ seen \in [Connections -> Dimensions \cup {0}]
    /\ rebuilds \in Nat

RebuildInit ==
    /\ StoreInit(EmptyTables)
    /\ SyncInit
    /\ step = [c \in Connections |-> "idle"]
    /\ provider = [c \in Connections |-> None]
    /\ rows = [c \in Connections |-> NoVectors]
    /\ seen = [c \in Connections |-> 0]
    /\ rebuilds = 0

----------------------------------------------------------------------------

GoTo(c, label) == step' = [step EXCEPT ![c] = label]

\* Read every chunk and embed its text, outside any transaction.
StartRebuild(c, p) ==
    /\ step[c] = "idle" /\ pc[c] = "idle"
    /\ c \in VectorCapable
    /\ rebuilds < MaxRebuilds
    /\ rebuilds' = rebuilds + 1
    /\ provider' = [provider EXCEPT ![c] = p]
    /\ rows' = [rows EXCEPT ![c] = db.chunks]
    /\ GoTo(c, "embedded")
    /\ UNCHANGED <<vars, seen>>

\* _ensure_vector_table, first SELECT: the recorded dimension.
LookUpState(c) ==
    /\ step[c] = "embedded"
    /\ seen' = [seen EXCEPT ![c] = IF db.state = None THEN 0 ELSE db.state.dimension]
    /\ GoTo(c, "lookedUp")
    /\ UNCHANGED <<vars, provider, rows, rebuilds>>

\* Mutant: a table that exists is taken to fit.
TableIsThere(c) == db.vecDim # 0

\* Mutant: the table is always replaced.
TableNeverFits(c) == FALSE

\* The table is kept when it exists and the recorded dimension is the
\* provider's.  It is not asked for the dimension it was created with.
TableFits(c) == db.vecDim # 0 /\ seen[c] = provider[c].dimension

\* Second SELECT: whether vec_chunks exists.
LookUpTable(c) ==
    /\ step[c] = "lookedUp"
    /\ GoTo(c, IF TableFits(c) THEN "replacing" ELSE "dropping")
    /\ UNCHANGED <<vars, provider, rows, seen, rebuilds>>

\* Mutant: both virtual tables are dropped.
BothDropped == [db EXCEPT !.vecDim = 0, !.vec = NoVectors,
                          !.fts = [k \in Chunks |-> <<>>]]

Dropped == [db EXCEPT !.vecDim = 0, !.vec = NoVectors]

\* DROP TABLE IF EXISTS vec_chunks: commits on its own.
DropTable(c) ==
    /\ step[c] = "dropping"
    /\ ExecuteSchema(c, Dropped)
    /\ GoTo(c, "creating")
    /\ UNCHANGED <<syncVars, clock, provider, rows, seen, rebuilds>>

\* CREATE VIRTUAL TABLE vec_chunks: commits on its own.
CreateTable(c) ==
    /\ step[c] = "creating"
    /\ db.vecDim = 0
    /\ ExecuteSchema(c, [db EXCEPT !.vecDim = provider[c].dimension])
    /\ GoTo(c, "replacing")
    /\ UNCHANGED <<syncVars, clock, provider, rows, seen, rebuilds>>

\* Mutant: the deletion is forgotten.
NotCleared == db

Cleared == [db EXCEPT !.vec = NoVectors]

\* DELETE FROM vec_chunks: the first statement of the transaction.
ClearVectors(c) ==
    /\ step[c] = "replacing"
    /\ db.vecDim # 0
    /\ Execute(c, Cleared)
    /\ GoTo(c, "inserting")
    /\ UNCHANGED <<syncVars, clock, provider, rows, seen, rebuilds>>

Embedded(c) == {k \in Chunks : rows[c][k] # None}

\* Mutant: nothing looks the chunk up.
InsertableBlindly(c) == Embedded(c) # {} => draft.vecDim = provider[c].dimension

\* Every chunk that was embedded is still there to look its document up,
\* and vec_chunks takes vectors of this dimension.
Insertable(c) ==
    /\ \A k \in Embedded(c) : draft.chunks[k] # None
    /\ Embedded(c) # {} => draft.vecDim = provider[c].dimension

\* Mutant: rows without a text are embedded too.
RefilledWithBlanks(c) ==
    [draft EXCEPT
        !.vec = [k \in Chunks |-> Embedding(EmbeddingFingerprint(provider[c]), rows[c][k])],
        !.state = [fingerprint |-> EmbeddingFingerprint(provider[c]),
                   dimension |-> provider[c].dimension]]

\* The vectors of the rows read at the start, added to the emptied table,
\* and the metadata of the provider.
Refilled(c) ==
    [draft EXCEPT
        !.vec = [k \in Chunks |->
                    IF rows[c][k] = None THEN draft.vec[k]
                    ELSE Embedding(EmbeddingFingerprint(provider[c]), rows[c][k])],
        !.state = [fingerprint |-> EmbeddingFingerprint(provider[c]),
                   dimension |-> provider[c].dimension]]

\* Nobody else can write between these statements, so they are one step.
InsertVectorsAndState(c) ==
    /\ step[c] = "inserting"
    /\ Insertable(c)
    /\ Execute(c, Refilled(c))
    /\ GoTo(c, "committing")
    /\ UNCHANGED <<syncVars, clock, provider, rows, seen, rebuilds>>

\* The rebuild is over, by return or by exception.
EndRebuild(c) ==
    /\ GoTo(c, "idle")
    /\ provider' = [provider EXCEPT ![c] = None]
    /\ rows' = [rows EXCEPT ![c] = NoVectors]
    /\ seen' = [seen EXCEPT ![c] = 0]
    /\ UNCHANGED rebuilds

CommitRebuild(c) ==
    /\ step[c] = "committing"
    /\ Commit(c)
    /\ EndRebuild(c)
    /\ UNCHANGED <<syncVars, clock>>

\* Mutant: a chunk that is gone goes unnoticed, and so does a table that
\* does not fit.
RefusedBeforeInserting(c) ==
    \/ step[c] = "creating" /\ db.vecDim # 0
    \/ step[c] = "replacing" /\ db.vecDim = 0

\* What the statements of a rebuild refuse: a table already there, a table
\* gone, a chunk gone (KeyError), a table of another dimension.
Refused(c) ==
    \/ step[c] = "creating" /\ db.vecDim # 0
    \/ step[c] = "replacing" /\ db.vecDim = 0
    \/ step[c] = "inserting" /\ ~Insertable(c)

RefuseRebuild(c) ==
    /\ Refused(c)
    /\ ~Locked(c)
    /\ Rollback(c)
    /\ EndRebuild(c)
    /\ UNCHANGED <<syncVars, clock>>

\* A write statement gives up waiting for another connection's transaction.
RebuildLockTimeout(c) ==
    /\ step[c] \in {"dropping", "creating", "replacing"}
    /\ Locked(c)
    /\ EndRebuild(c)
    /\ UNCHANGED vars

\* The embedding provider or a statement fails, or the process dies.
AbortRebuild(c) ==
    /\ step[c] \in FailPoints
    /\ Rollback(c)
    /\ EndRebuild(c)
    /\ UNCHANGED <<syncVars, clock>>

RebuildStep(c) ==
    \/ LookUpState(c) \/ LookUpTable(c)
    \/ DropTable(c) \/ CreateTable(c)
    \/ ClearVectors(c) \/ InsertVectorsAndState(c) \/ CommitRebuild(c)
    \/ RefuseRebuild(c) \/ RebuildLockTimeout(c)

\* An ingestion by a connection that is not rebuilding.
Ingest(c) ==
    /\ step[c] = "idle"
    /\ \E s \in Sources, snapshot \in Snapshots, bound \in Bounds,
          p \in Providers \cup {None} : Call(c, s, snapshot, bound, p)
    /\ UNCHANGED rebuildVars

SyncGoesOn(c) == SyncStep(c) /\ UNCHANGED rebuildVars
AbortSync(c) == Abort(c) /\ UNCHANGED rebuildVars

\* All the work there is has been done.
RebuildQuiescent ==
    /\ clock = MaxCalls
    /\ \A c \in Connections : step[c] = "idle" /\ pc[c] = "idle"
    /\ rebuilds = MaxRebuilds \/ VectorCapable = {}
    /\ UNCHANGED allVars

RebuildNext ==
    \/ \E c \in Connections : Ingest(c)
    \/ \E c \in Connections : SyncGoesOn(c)
    \/ \E c \in Connections : AbortSync(c)
    \/ \E c \in Connections, p \in Providers : StartRebuild(c, p)
    \/ \E c \in Connections : RebuildStep(c)
    \/ \E c \in Connections : AbortRebuild(c)
    \/ RebuildQuiescent

RebuildSpec == RebuildInit /\ [][RebuildNext]_allVars

\* A process keeps executing the command it is in.
FairRebuildSpec ==
    RebuildSpec /\ \A c \in Connections : WF_allVars(RebuildStep(c)) /\ WF_allVars(SyncGoesOn(c))

----------------------------------------------------------------------------

\* Whatever rebuilds and syncs interleave or die: every vector belongs to a
\* stored chunk, all vectors are of the recorded configuration, and vectors
\* have the dimension of the table that holds them.
VectorsShareOneSpace ==
    \A k \in Chunks : db.vec[k] # None =>
        /\ db.chunks[k] # None
        /\ db.state # None
        /\ db.vec[k].fingerprint = db.state.fingerprint
        /\ db.vecDim = db.state.dimension

\* Rebuilding runs beside ingestion without disturbing what lexical search
\* finds: the lexical index stays in step with the stored documents.
LexicalIndexUndisturbed == LexicalIndexAgrees /\ StoredChunksAreCurrent

\* A rebuild that commits has a vector, in its own space, for exactly the
\* chunks it read, and records that space.
RebuildCoversWhatItRead ==
    [][\A c \in Connections : CommitRebuild(c) =>
        /\ \A k \in Chunks : (db'.vec[k] # None) <=> (rows[c][k] # None)
        /\ db'.state.fingerprint = EmbeddingFingerprint(provider[c])
        /\ Embedded(c) # {} => db'.vecDim = provider[c].dimension]_allVars

\* Every rebuild returns, also when other processes keep taking the lock.
RebuildsReturn == \A c \in Connections : step[c] = "embedded" ~> step[c] = "idle"

\* A rebuild is never refused by the state earlier operations left behind:
\* first activation, model change, dimension change and recovery are the
\* same operation (rebuild_vector_index, docstring).
RebuildNeverRefused == [][\A c \in Connections : ~RefuseRebuild(c)]_allVars

\* The table and its metadata are replaced together (rebuild_vector_index,
\* docstring): when nobody is at work, a table of the recorded dimension,
\* which every search accepts, has a vector for each stored chunk.
ServedIndexIsComplete ==
    /\ \A c \in Connections : step[c] = "idle" /\ pc[c] = "idle"
    /\ db.state # None
    /\ db.vecDim = db.state.dimension
    => \A k \in Chunks : db.chunks[k] # None => db.vec[k] # None

\* The vector held for a chunk embeds the text the chunk has now
\* (docs/architecture.md on the two derived indexes).
VectorsMatchText == \A k \in Chunks : db.vec[k] # None => db.vec[k].text = db.chunks[k]

\* With one process at work, a rebuild is refused only where a rebuild that
\* died has left a table that does not fit the metadata: first activation,
\* model changes and dimension changes always go through.
RefusedOnlyWhenTorn ==
    [][\A c \in Connections :
        RefuseRebuild(c) => db.state # None /\ db.vecDim # db.state.dimension]_allVars
=============================================================================
