----------------------------- MODULE SourceSync -----------------------------
(***************************************************************************)
(* SqliteRepository.sync_source: a source's stored documents are replaced  *)
(* by a complete snapshot inside one transaction, the lexical index and    *)
(* (when one is active) the vector index are kept in step, and a snapshot  *)
(* that cannot keep an active vector index in step is rejected whole.      *)
(*                                                                         *)
(* Several processes may run ingestions on one database file.              *)
(***************************************************************************)
EXTENDS SqliteStore, FiniteSets

CONSTANTS
    VectorCapable,  \* connections opened with vector_index_enabled
    MaxCalls        \* bound: ingestion calls in a behaviour

ASSUME SyncAssumption ==
    /\ VectorCapable \subseteq Connections
    /\ MaxCalls \in Nat
    /\ IsFiniteSet(Paths)
    /\ Dimensions \subseteq Nat \ {0}

VARIABLES
    pc,       \* where each connection is in sync_source
    call,     \* the arguments of its current call
    pending,  \* incoming paths its loop has not reached
    doomed,   \* stored paths missing from the snapshot, not yet deleted
    tally,    \* the counters of the SourceSyncResult it is building
    clock     \* calls made so far; also the ingestion timestamp

syncVars == <<pc, call, pending, doomed, tally>>
vars == <<db, owner, draft, pc, call, pending, doomed, tally, clock>>

Snapshots == [Paths -> Contents \cup {None}]

Calls ==
    [source : Sources, incoming : Snapshots, bound : Bounds,
     provider : Providers \cup {None}, now : Nat]

Counters == {"created", "updated", "reprocessed", "unchanged", "deleted", "reindexed"}
NoCounts == [x \in Counters |-> 0]

Doc(c, path) == <<call[c].source, path>>
Present(snapshot) == {path \in Paths : snapshot[path] # None}
Stored(T, s) == {path \in Paths : T.documents[<<s, path>>] # None}

TypeOK ==
    /\ StoreTypeOK
    /\ pc \in [Connections -> {"idle", "waiting", "writing"}]
    /\ call \in [Connections -> Calls \cup {None}]
    /\ pending \in [Connections -> SUBSET Paths]
    /\ doomed \in [Connections -> SUBSET Paths]
    /\ tally \in [Connections -> [Counters -> Nat]]
    /\ clock \in Nat

\* A new database, with or without a vector index activated while it was
\* empty (rebuild_vector_index accepts a database with no chunks).
InitialTables ==
    {EmptyTables} \cup
    {[EmptyTables EXCEPT !.vecDim = p.dimension,
                         !.state = [fingerprint |-> EmbeddingFingerprint(p),
                                    dimension |-> p.dimension]] : p \in Providers}

SyncInit ==
    /\ pc = [c \in Connections |-> "idle"]
    /\ call = [c \in Connections |-> None]
    /\ pending = [c \in Connections |-> {}]
    /\ doomed = [c \in Connections |-> {}]
    /\ tally = [c \in Connections |-> NoCounts]
    /\ clock = 0

Init ==
    /\ \E initial \in InitialTables : StoreInit(initial)
    /\ SyncInit

----------------------------------------------------------------------------

\* The fingerprint the snapshot carries: every processed document of a run
\* with a provider has it, so an empty snapshot carries none.
IncomingFingerprint(c) ==
    IF call[c].provider # None /\ Present(call[c].incoming) # {}
    THEN EmbeddingFingerprint(call[c].provider)
    ELSE None

\* sync_source is entered: the documents were chunked, and embedded, before.
Call(c, s, snapshot, bound, provider) ==
    /\ pc[c] = "idle"
    /\ clock < MaxCalls
    /\ clock' = clock + 1
    /\ pc' = [pc EXCEPT ![c] = "waiting"]
    /\ call' = [call EXCEPT ![c] =
                  [source |-> s, incoming |-> snapshot, bound |-> bound,
                   provider |-> provider, now |-> clock']]
    /\ UNCHANGED <<db, owner, draft, pending, doomed, tally>>

\* The call ends, by result or by exception.
Return(c) ==
    /\ pc' = [pc EXCEPT ![c] = "idle"]
    /\ call' = [call EXCEPT ![c] = None]
    /\ pending' = [pending EXCEPT ![c] = {}]
    /\ doomed' = [doomed EXCEPT ![c] = {}]
    /\ tally' = [tally EXCEPT ![c] = NoCounts]

\* Mutant: the fingerprints are not compared.
NeverIncompatible(T, c) == FALSE

\* The snapshot's vectors live in another space than the active index.
Incompatible(T, c) ==
    /\ T.state # None
    /\ IncomingFingerprint(c) \notin {None, T.state.fingerprint}

\* The upsert of the source row takes the write lock; the stored state and
\* the active fingerprint are then read under it.
BeginSync(c) ==
    /\ pc[c] = "waiting"
    /\ ~Incompatible(db, c)
    /\ Execute(c, UpsertSource(db, call[c].source))
    /\ pc' = [pc EXCEPT ![c] = "writing"]
    /\ pending' = [pending EXCEPT ![c] = Present(call[c].incoming)]
    /\ doomed' = [doomed EXCEPT ![c] =
                    Stored(db, call[c].source) \ Present(call[c].incoming)]
    /\ UNCHANGED <<call, tally, clock>>

RejectIncompatible(c) ==
    /\ pc[c] = "waiting"
    /\ owner = None
    /\ Incompatible(db, c)
    /\ Return(c)
    /\ UNCHANGED <<db, owner, draft, clock>>

\* sqlite3 gives up waiting for the write lock: PersistenceError.
LockTimeout(c) ==
    /\ pc[c] = "waiting"
    /\ Locked(c)
    /\ Return(c)
    /\ UNCHANGED <<db, owner, draft, clock>>

Count(c, names) ==
    tally' = [tally EXCEPT ![c] = [x \in Counters |->
                IF x \in names THEN tally[c][x] + 1 ELSE tally[c][x]]]

IndexActive(T) == T.state # None
WritesVectors(c) == IndexActive(draft) /\ IncomingFingerprint(c) # None

\* Mutant: every document is rewritten.
NeverUnchanged(c, path) == FALSE

\* Neither the content nor the processing that would chunk it has changed.
Unchanged(c, path) ==
    LET row == draft.documents[Doc(c, path)]
    IN  /\ row # None
        /\ row.content = call[c].incoming[path]
        /\ row.bound = call[c].bound

KeepUnchanged(c, path) ==
    /\ pc[c] = "writing"
    /\ path \in pending[c]
    /\ Unchanged(c, path)
    /\ pending' = [pending EXCEPT ![c] = @ \ {path}]
    /\ Count(c, {"unchanged"})
    /\ UNCHANGED <<db, owner, draft, pc, call, doomed, clock>>

\* The row, chunks and lexical entries of a document, replaced wholesale.
WithDocument(T, d, row) ==
    LET texts == ChunkTexts(row.content, row.bound)
    IN  InsertFts(InsertChunks(DeleteChunks(DeleteFts(
            UpsertDocument(T, d, row), d), d), d, texts), d, texts)

\* And its vectors, when the index is active.
WithVectors(T, d, row, fingerprint) ==
    InsertVectors(DeleteVectors(T, d), d, ChunkTexts(row.content, row.bound), fingerprint)

NewRow(c, path) ==
    [content |-> call[c].incoming[path], bound |-> call[c].bound,
     ingestedAt |-> call[c].now]

\* vec_chunks can take the vectors: the extension is loaded, the table is
\* there, and a row to insert has the dimension of the table.
VectorsStorable(T, c, row) ==
    /\ c \in VectorCapable
    /\ T.vecDim # 0
    /\ \/ T.vecDim = call[c].provider.dimension
       \/ \A i \in Positions : ChunkTexts(row.content, row.bound)[i] = None

\* A document that must be written while an index is active needs vectors.
Writable(c, path) ==
    \/ ~IndexActive(draft)
    \/ WritesVectors(c) /\ VectorsStorable(draft, c, NewRow(c, path))

\* Mutant: the processing is compared before the content.
OutcomeByProcessing(c, path) ==
    LET row == draft.documents[Doc(c, path)]
    IN  IF row = None THEN "created"
        ELSE IF row.bound # call[c].bound THEN "reprocessed"
        ELSE "updated"

Outcome(c, path) ==
    LET row == draft.documents[Doc(c, path)]
    IN  IF row = None THEN "created"
        ELSE IF row.content # call[c].incoming[path] THEN "updated"
        ELSE "reprocessed"

WriteDocument(c, path) ==
    LET written == WithDocument(draft, Doc(c, path), NewRow(c, path))
    IN  /\ pc[c] = "writing"
        /\ path \in pending[c]
        /\ ~Unchanged(c, path)
        /\ Writable(c, path)
        /\ Execute(c, IF WritesVectors(c)
                      THEN WithVectors(written, Doc(c, path), NewRow(c, path),
                                       IncomingFingerprint(c))
                      ELSE written)
        /\ pending' = [pending EXCEPT ![c] = @ \ {path}]
        /\ Count(c, {Outcome(c, path)} \cup (IF WritesVectors(c) THEN {"reindexed"} ELSE {}))
        /\ UNCHANGED <<pc, call, doomed, clock>>

RejectWrite(c, path) ==
    /\ pc[c] = "writing"
    /\ path \in pending[c]
    /\ ~Unchanged(c, path)
    /\ ~Writable(c, path)
    /\ Rollback(c)
    /\ Return(c)
    /\ UNCHANGED clock

\* Deleting from vec_chunks needs the table and the loaded extension.
Deletable(c) == IndexActive(draft) => c \in VectorCapable /\ draft.vecDim # 0

WithoutDocument(T, d) ==
    LET searchless == DeleteFts(T, d)
    IN  DeleteDocumentRow(IF IndexActive(T) THEN DeleteVectors(searchless, d)
                          ELSE searchless, d)

DeleteMissing(c, path) ==
    /\ pc[c] = "writing"
    /\ pending[c] = {}
    /\ path \in doomed[c]
    /\ Deletable(c)
    /\ Execute(c, WithoutDocument(draft, Doc(c, path)))
    /\ doomed' = [doomed EXCEPT ![c] = @ \ {path}]
    /\ Count(c, {"deleted"})
    /\ UNCHANGED <<pc, call, pending, clock>>

\* Mutant: the error of a repository without sqlite-vec is swallowed.
RejectDeleteSwallowed(c) ==
    /\ c \in VectorCapable
    /\ pc[c] = "writing"
    /\ pending[c] = {} /\ doomed[c] # {}
    /\ ~Deletable(c)
    /\ Rollback(c)
    /\ Return(c)
    /\ UNCHANGED clock

RejectDelete(c) ==
    /\ pc[c] = "writing"
    /\ pending[c] = {} /\ doomed[c] # {}
    /\ ~Deletable(c)
    /\ Rollback(c)
    /\ Return(c)
    /\ UNCHANGED clock

\* Mutant: the commit does not wait for the deletions.
CommitBeforeDeletions(c) ==
    /\ pc[c] = "writing"
    /\ pending[c] = {}
    /\ Commit(c)
    /\ Return(c)
    /\ UNCHANGED clock

CommitSync(c) ==
    /\ pc[c] = "writing"
    /\ pending[c] = {} /\ doomed[c] = {}
    /\ Commit(c)
    /\ Return(c)
    /\ UNCHANGED clock

\* A statement or the commit fails, or the process dies, in the call.
Abort(c) ==
    /\ pc[c] # "idle"
    /\ Rollback(c)
    /\ Return(c)
    /\ UNCHANGED clock

SyncStep(c) ==
    \/ BeginSync(c)
    \/ RejectIncompatible(c)
    \/ LockTimeout(c)
    \/ \E path \in Paths : KeepUnchanged(c, path)
    \/ \E path \in Paths : WriteDocument(c, path)
    \/ \E path \in Paths : RejectWrite(c, path)
    \/ \E path \in Paths : DeleteMissing(c, path)
    \/ RejectDelete(c)
    \/ CommitSync(c)

\* Every call that will be made has been made and has returned.
Quiescent ==
    /\ clock = MaxCalls
    /\ \A c \in Connections : pc[c] = "idle"
    /\ UNCHANGED vars

Next ==
    \/ \E c \in Connections, s \in Sources, snapshot \in Snapshots, bound \in Bounds,
          provider \in Providers \cup {None} : Call(c, s, snapshot, bound, provider)
    \/ \E c \in Connections : SyncStep(c)
    \/ \E c \in Connections : Abort(c)
    \/ Quiescent

Spec == Init /\ [][Next]_vars

\* A process keeps executing sync_source until it returns.
FairSpec == Spec /\ \A c \in Connections : WF_vars(SyncStep(c))

----------------------------------------------------------------------------
(* Correctness of a set of tables.                                         *)

\* The chunks stored are those of the documents stored, under their bounds.
ChunksMatch(T) ==
    \A k \in Chunks :
        T.chunks[k] =
            IF T.documents[DocumentOf(k)] = None THEN None
            ELSE ChunkTexts(T.documents[DocumentOf(k)].content,
                            T.documents[DocumentOf(k)].bound)[PositionOf(k)]

\* chunk_fts has exactly one row for every chunk, with its text, and no other.
LexicalAgrees(T) ==
    \A k \in Chunks :
        T.fts[k] = IF T.chunks[k] = None THEN <<>> ELSE <<T.chunks[k]>>

\* An active index holds the embedding of every chunk's text in its own
\* space; without one there are no vectors.
VectorsAgree(T) ==
    \A k \in Chunks :
        T.vec[k] = IF ~IndexActive(T) \/ T.chunks[k] = None THEN None
                   ELSE Embedding(T.state.fingerprint, T.chunks[k])

\* Re-chunking, updating and deleting documents (_write_document, the
\* deletion loop) leaves no orphaned and no missing chunk behind.
StoredChunksAreCurrent == ChunksMatch(db)

\* The virtual table has no foreign keys, so sync_source alone keeps it in
\* step with chunks, whatever mix of writes, deletions and aborts occurs.
LexicalIndexAgrees == LexicalAgrees(db)

\* No sync, whatever its provider, leaves an active vector index partial,
\* stale, or mixed from two embedding spaces.
VectorIndexAgrees == VectorsAgree(db)

\* The counters returned describe what the commit did to the database: each
\* stored document of the source is counted once, under what happened to it.
CountsDescribe(c) ==
    LET s == call[c].source
        kept == {path \in Stored(db, s) : path \in Stored(db', s)}
        same(path) == db.documents[<<s, path>>] = db'.documents[<<s, path>>]
        contentKept(path) == db.documents[<<s, path>>].content
                                = db'.documents[<<s, path>>].content
    IN  /\ tally[c]["created"] = Cardinality(Stored(db', s) \ Stored(db, s))
        /\ tally[c]["deleted"] = Cardinality(Stored(db, s) \ Stored(db', s))
        /\ tally[c]["unchanged"] = Cardinality({path \in kept : same(path)})
        /\ tally[c]["updated"] = Cardinality({path \in kept : ~contentKept(path)})
        /\ tally[c]["reprocessed"] =
              Cardinality({path \in kept : contentKept(path) /\ ~same(path)})
        /\ tally[c]["reindexed"] =
              IF IndexActive(db)
              THEN tally[c]["created"] + tally[c]["updated"] + tally[c]["reprocessed"]
              ELSE 0

\* SourceSyncResult is true of the database the commit replaced, also when
\* another process committed between the call and its transaction.
CountsDescribeCommit == [][\A c \in Connections : CommitSync(c) => CountsDescribe(c)]_vars

\* A commit writes documents of its own source only, keeps the row (and
\* ingested_at) of every document whose content and bound it does not
\* change, and never moves the vector index to another configuration.
CommitsAreSourceScoped ==
    [][\A c \in Connections : CommitSync(c) =>
        /\ db'.state = db.state /\ db'.vecDim = db.vecDim
        /\ \A d \in Documents :
              LET before == db.documents[d]
                  after == db'.documents[d]
              IN  before # after =>
                    /\ d[1] = call[c].source
                    /\ \/ before = None \/ after = None
                       \/ before.content # after.content
                       \/ before.bound # after.bound]_vars

\* Every call returns: the lock's holder finishes, the others get the lock
\* or time out.
CallsReturn == \A c \in Connections : pc[c] = "waiting" ~> pc[c] = "idle"

\* sync_source implements the snapshot replacement the Repository contract
\* (persistence/base.py) promises: one step, visible at commit.
KB == INSTANCE KnowledgeBase
        WITH library <- StoredLibrary, lexical <- FoundLexically,
             semantic <- db.vec, active <- ActiveFingerprint

ImplementsKnowledgeBase == KB!Spec
=============================================================================
