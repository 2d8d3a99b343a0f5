------------------------- MODULE VectorRebuildProofs -------------------------
(***************************************************************************)
(* Proofs about VectorRebuild: what every interleaving of ingestions,      *)
(* rebuilds and deaths leaves true of the tables, for every set of         *)
(* sources, paths, contents, bounds, models, dimensions and connections;   *)
(* and about SearchSession, what a reader beside them can be answered.     *)
(***************************************************************************)
EXTENDS SearchSession, SourceSyncProofs, SequenceLemmas

----------------------------------------------------------------------------
(* The inductive invariant.                                                *)

\* The vectors there are belong to stored chunks and to the one recorded
\* space, and fit the table.  Unlike VectorsAgree it lets vectors be missing
\* or of an earlier text: a rebuild beside a sync leaves such.
OneSpace(T) ==
    \A k \in Chunks : T.vec[k] # None =>
        /\ T.chunks[k] # None
        /\ T.state # None
        /\ T.vec[k].fingerprint = T.state.fingerprint
        /\ T.vecDim = T.state.dimension

\* The dimension recorded is the one the fingerprint was derived with.
SpaceNamed(T) == T.state # None => T.state.dimension = T.state.fingerprint[2]

Sound(T) == ChunksMatch(T) /\ LexicalAgrees(T) /\ OneSpace(T) /\ SpaceNamed(T)

\* What is true of a rebuild in progress: its connection is in no ingestion;
\* from the deletion on it holds the lock, over a table without vectors; and
\* what it is about to commit is what it embedded, in its own space.
RebuildInProgress(c) ==
    /\ step[c] # "idle" => pc[c] = "idle" /\ provider[c] \in Providers
    /\ step[c] \in {"inserting", "committing"} => owner = c
    /\ step[c] = "inserting" => draft.vec = NoVectors
    /\ step[c] = "committing" =>
          /\ \A k \in Chunks : (draft.vec[k] # None) <=> (rows[c][k] # None)
          /\ draft.state # None
          /\ draft.state.fingerprint = EmbeddingFingerprint(provider[c])
          /\ Embedded(c) # {} => draft.vecDim = provider[c].dimension

RebuildInvariant ==
    /\ RebuildTypeOK
    /\ Sound(db)
    /\ Sound(draft)
    /\ \A c \in Connections : CallInProgress(c)
    /\ \A c \in Connections : RebuildInProgress(c)

----------------------------------------------------------------------------
(* What the statements do to sound tables.                                 *)

\* Soundness is about these columns only.
LEMMA SoundDependsOn ==
    ASSUME NEW T, NEW W, Sound(T),
           W.documents = T.documents, W.chunks = T.chunks, W.fts = T.fts,
           W.vec = T.vec, W.vecDim = T.vecDim, W.state = T.state
    PROVE  Sound(W)
BY DEF Sound, ChunksMatch, LexicalAgrees, OneSpace, SpaceNamed

LEMMA EmptyTablesSound == EmptyTables \in Tables /\ Sound(EmptyTables)
<1>1. EmptyTables \in Tables /\ ChunksMatch(EmptyTables) /\ LexicalAgrees(EmptyTables)
  BY InitialTablesConsistent DEF InitialTables, Consistent
<1>2. OneSpace(EmptyTables) /\ SpaceNamed(EmptyTables)
  BY DEF EmptyTables, NoVectors, OneSpace, SpaceNamed
<1> QED
  BY <1>1, <1>2 DEF Sound

\* Tables without vectors are of one space.
LEMMA NoVectorsOneSpace ==
    ASSUME NEW T, T.vec = NoVectors
    PROVE  OneSpace(T)
BY DEF OneSpace, NoVectors

\* Without an index there are no vectors a document could be left behind by.
LEMMA ReplacedStaysSound ==
    ASSUME NEW T \in Tables, NEW d \in Documents, NEW row \in Rows,
           Sound(T), ~IndexActive(T)
    PROVE  Sound(WithDocument(T, d, row))
<1> DEFINE W == WithDocument(T, d, row)
<1>1. DocumentReplaced(W, T, d, row)
  BY WithDocumentEffect
<1> HIDE DEF W
<1>2. ChunksMatch(W) /\ LexicalAgrees(W)
  BY <1>1, ReplacedKeepsText DEF Sound
<1>3. OneSpace(W) /\ SpaceNamed(W)
  BY <1>1 DEF DocumentReplaced, Sound, OneSpace, SpaceNamed, IndexActive
<1> QED
  BY <1>2, <1>3 DEF Sound, W

\* Vectors of the recorded space, put into a table that fits it.
LEMMA ReindexedStaysSound ==
    ASSUME NEW T \in Tables, NEW d \in Documents, NEW row \in Rows,
           Sound(T), IndexActive(T),
           \/ T.vecDim = T.state.dimension
           \/ \A i \in Positions : ChunkTexts(row.content, row.bound)[i] = None
    PROVE  LET W == WithVectors(WithDocument(T, d, row), d, row, T.state.fingerprint)
           IN  Sound(W) /\ W \in Tables /\ W.state = T.state
<1> DEFINE V == WithDocument(T, d, row)
           W == WithVectors(V, d, row, T.state.fingerprint)
           texts == ChunkTexts(row.content, row.bound)
<1>0. T.state.fingerprint \in Fingerprints
  BY DEF Tables, IndexStates, IndexActive
<1>1. DocumentReplaced(V, T, d, row)
  BY WithDocumentEffect
<1>2. VectorsReplaced(W, V, d, row, T.state.fingerprint)
  <2>1. V \in Tables
    BY <1>1 DEF DocumentReplaced
  <2> HIDE DEF V
  <2> QED
    BY <1>0, <2>1, WithVectorsEffect
<1> HIDE DEF V, W
<1>3. ChunksMatch(V) /\ LexicalAgrees(V)
  BY <1>1, ReplacedKeepsText DEF Sound
<1>4. ChunksMatch(W) /\ LexicalAgrees(W)
  BY <1>2, <1>3 DEF VectorsReplaced, ChunksMatch, LexicalAgrees
<1>5. W.state = T.state /\ W.vecDim = T.vecDim /\ W.chunks = V.chunks
  BY <1>1, <1>2 DEF DocumentReplaced, VectorsReplaced
<1>6. ASSUME NEW k \in Chunks, W.vec[k] # None
      PROVE  /\ W.chunks[k] # None
             /\ W.vec[k].fingerprint = T.state.fingerprint
             /\ T.vecDim = T.state.dimension
  <2>1. CASE DocumentOf(k) = d
    <3>1. texts[PositionOf(k)] # None /\ W.vec[k] = Embedding(T.state.fingerprint, texts[PositionOf(k)])
      BY <1>2, <1>6, <2>1 DEF VectorsReplaced
    <3>2. W.chunks[k] = texts[PositionOf(k)]
      BY <1>1, <1>5, <2>1 DEF DocumentReplaced
    <3> QED
      BY <3>1, <3>2, ChunkParts DEF Embedding
  <2>2. CASE DocumentOf(k) # d
    BY <1>1, <1>2, <1>5, <1>6, <2>2 DEF DocumentReplaced, VectorsReplaced, Sound, OneSpace
  <2> QED
    BY <2>1, <2>2
<1>7. OneSpace(W) /\ SpaceNamed(W)
  BY <1>5, <1>6 DEF OneSpace, SpaceNamed, Sound, IndexActive
<1>8. W \in Tables
  BY <1>2 DEF VectorsReplaced
<1> QED
  BY <1>4, <1>5, <1>7, <1>8 DEF Sound, V, W

\* A vector there can only be left where the index is inactive, and then
\* there is none.
LEMMA RemovedStaysSound ==
    ASSUME NEW T \in Tables, NEW d \in Documents, Sound(T)
    PROVE  Sound(WithoutDocument(T, d))
<1> DEFINE W == WithoutDocument(T, d)
<1>1. DocumentRemoved(W, T, d)
  BY WithoutDocumentEffect
<1> HIDE DEF W
<1>2. ChunksMatch(W) /\ LexicalAgrees(W)
  BY <1>1, RemovedKeepsText DEF Sound
<1>3. OneSpace(W) /\ SpaceNamed(W)
  BY <1>1 DEF DocumentRemoved, Sound, OneSpace, SpaceNamed, IndexActive
<1> QED
  BY <1>2, <1>3 DEF Sound, W

----------------------------------------------------------------------------
(* What steps of others leave of a call and of a rebuild.                  *)

LEMMA CallKept ==
    ASSUME NEW e \in Connections, CallInProgress(e),
           pc'[e] = pc[e], call'[e] = call[e], pending'[e] \subseteq pending[e],
           owner = e => owner' = e /\ draft'.state = draft.state
    PROVE  CallInProgress(e)'
BY DEF CallInProgress, Incompatible, IncomingFingerprint

LEMMA RebuildKept ==
    ASSUME NEW e \in Connections, RebuildInProgress(e),
           pc'[e] = pc[e], step'[e] = step[e], provider'[e] = provider[e], rows'[e] = rows[e],
           owner = e => owner' = e /\ draft' = draft
    PROVE  RebuildInProgress(e)'
BY DEF RebuildInProgress, Embedded

\* A connection that ingests has no rebuild to be careful about.
LEMMA NotRebuilding ==
    ASSUME NEW c \in Connections, step'[c] = "idle"
    PROVE  RebuildInProgress(c)'
BY DEF RebuildInProgress

LEMMA NotSyncing ==
    ASSUME NEW c \in Connections, pc'[c] = "idle"
    PROVE  CallInProgress(c)'
BY DEF CallInProgress

LEMMA RebuildInitEstablishes == RebuildInit => RebuildInvariant
<1> SUFFICES ASSUME RebuildInit PROVE RebuildInvariant
  OBVIOUS
<1>1. /\ db = EmptyTables /\ draft = EmptyTables /\ owner = None
      /\ SyncInit /\ step = [c \in Connections |-> "idle"]
  BY DEF RebuildInit, StoreInit
<1>2. db \in Tables /\ draft \in Tables /\ Sound(db) /\ Sound(draft)
  BY <1>1, EmptyTablesSound
<1>3. RebuildTypeOK
  BY <1>1, <1>2 DEF RebuildInit, SyncInit, RebuildTypeOK, TypeOK, StoreTypeOK, NoCounts,
                    NoVectors, Steps
<1>4. \A c \in Connections : CallInProgress(c) /\ RebuildInProgress(c)
  BY <1>1 DEF SyncInit, CallInProgress, RebuildInProgress
<1> QED
  BY <1>2, <1>3, <1>4 DEF RebuildInvariant

----------------------------------------------------------------------------
(* Steps of an ingestion.                                                  *)

LEMMA IngestKeeps ==
    ASSUME RebuildInvariant, NEW c \in Connections, Ingest(c)
    PROVE  RebuildInvariant'
<1> USE DEF RebuildInvariant
<1>0. PICK s \in Sources, snapshot \in Snapshots, bound \in Bounds,
           p \in Providers \cup {None} : Call(c, s, snapshot, bound, p)
  BY DEF Ingest
<1>1. /\ UNCHANGED <<db, owner, draft, pending, doomed, tally>> /\ UNCHANGED rebuildVars
      /\ clock' \in Nat /\ step[c] = "idle"
  BY <1>0 DEF Ingest, Call, RebuildTypeOK, TypeOK
<1>2. call'[c] \in Calls
  BY <1>0, <1>1 DEF Call, Calls, RebuildTypeOK, TypeOK
<1>3. RebuildTypeOK'
  BY <1>0, <1>1, <1>2 DEF Call, RebuildTypeOK, TypeOK, StoreTypeOK, rebuildVars
<1>4. ASSUME NEW e \in Connections PROVE CallInProgress(e)' /\ RebuildInProgress(e)'
  <2>1. CASE e = c
    BY <1>0, <1>1, <1>2, <2>1 DEF Call, RebuildTypeOK, TypeOK, CallInProgress, RebuildInProgress,
                                  rebuildVars
  <2>2. CASE e # c
    BY <1>0, <1>1, <2>2, CallKept, RebuildKept DEF Call, RebuildTypeOK, TypeOK, rebuildVars
  <2> QED
    BY <2>1, <2>2
<1> QED
  BY <1>1, <1>3, <1>4

\* A call or a rebuild ends and SQLite undoes what its transaction did.
LEMMA UndoingKeeps ==
    ASSUME RebuildInvariant, NEW c \in Connections, Rollback(c), RebuildTypeOK',
           \A e \in Connections : e # c =>
              /\ pc'[e] = pc[e] /\ call'[e] = call[e] /\ pending'[e] = pending[e]
              /\ step'[e] = step[e] /\ provider'[e] = provider[e] /\ rows'[e] = rows[e],
           pc'[c] = "idle", step'[c] = "idle"
    PROVE  RebuildInvariant'
<1> USE DEF RebuildInvariant
<1>1. /\ db' = db
      /\ draft' \in {draft, db}
      /\ owner = c \/ (owner' = owner /\ draft' = draft)
  BY DEF Rollback, storeVars
<1>2. Sound(db)' /\ Sound(draft)'
  BY <1>1, SoundDependsOn
<1>3. ASSUME NEW e \in Connections PROVE CallInProgress(e)' /\ RebuildInProgress(e)'
  <2>1. CASE e = c
    BY <2>1, NotRebuilding, NotSyncing
  <2>2. CASE e # c
    BY <1>1, <2>2, CallKept, RebuildKept
  <2> QED
    BY <2>1, <2>2
<1> QED
  BY <1>2, <1>3

\* The same without a transaction to undo.
LEMMA EndingKeeps ==
    ASSUME RebuildInvariant, NEW c \in Connections, UNCHANGED storeVars, RebuildTypeOK',
           \A e \in Connections : e # c =>
              /\ pc'[e] = pc[e] /\ call'[e] = call[e] /\ pending'[e] = pending[e]
              /\ step'[e] = step[e] /\ provider'[e] = provider[e] /\ rows'[e] = rows[e],
           pc'[c] = "idle", step'[c] = "idle"
    PROVE  RebuildInvariant'
<1> USE DEF RebuildInvariant
<1>1. Sound(db)' /\ Sound(draft)'
  BY SoundDependsOn DEF storeVars
<1>2. ASSUME NEW e \in Connections PROVE CallInProgress(e)' /\ RebuildInProgress(e)'
  <2>1. CASE e = c
    BY <2>1, NotRebuilding, NotSyncing
  <2>2. CASE e # c
    BY <2>2, CallKept, RebuildKept DEF storeVars
  <2> QED
    BY <2>1, <2>2
<1> QED
  BY <1>1, <1>2

\* What Return leaves of everybody.
LEMMA ReturnEffect ==
    ASSUME RebuildInvariant, NEW c \in Connections, Return(c), UNCHANGED rebuildVars,
           pc[c] # "idle", UNCHANGED clock, Rollback(c) \/ UNCHANGED storeVars
    PROVE  /\ RebuildTypeOK'
           /\ \A e \in Connections : e # c =>
                 /\ pc'[e] = pc[e] /\ call'[e] = call[e] /\ pending'[e] = pending[e]
                 /\ step'[e] = step[e] /\ provider'[e] = provider[e] /\ rows'[e] = rows[e]
           /\ pc'[c] = "idle" /\ step'[c] = "idle"
<1> USE DEF RebuildInvariant
<1>1. db' = db /\ draft' \in {draft, db} /\ owner' \in {owner, None}
  BY DEF Rollback, storeVars
<1>2. RebuildTypeOK'
  BY <1>1 DEF Return, RebuildTypeOK, TypeOK, StoreTypeOK, NoCounts, rebuildVars
<1> QED
  BY <1>2 DEF Return, RebuildTypeOK, TypeOK, RebuildInProgress, rebuildVars

LEMMA BeginKeeps ==
    ASSUME RebuildInvariant, NEW c \in Connections, BeginSync(c), UNCHANGED rebuildVars
    PROVE  RebuildInvariant'
<1> USE DEF RebuildInvariant
<1> DEFINE W == UpsertSource(db, call[c].source)
<1>0. /\ call[c] \in Calls /\ pc[c] = "waiting" /\ TypeOK /\ step[c] = "idle"
  BY DEF BeginSync, CallInProgress, RebuildInProgress, RebuildTypeOK
<1>1. /\ W \in Tables
      /\ W.documents = db.documents /\ W.chunks = db.chunks /\ W.fts = db.fts
      /\ W.vec = db.vec /\ W.vecDim = db.vecDim /\ W.state = db.state
  BY <1>0 DEF TypeOK, StoreTypeOK, UpsertSource, Tables, Calls
<1> HIDE DEF W
<1>2. db' = db /\ draft' = W /\ owner' = c /\ owner \in {None, c}
  BY DEF BeginSync, Execute, W
<1>3. Sound(db)' /\ Sound(draft)'
  BY <1>1, <1>2, SoundDependsOn
<1>4. RebuildTypeOK'
  <2>1. /\ pc' \in [Connections -> {"idle", "waiting", "writing"}]
        /\ pending' \in [Connections -> SUBSET Paths]
        /\ doomed' \in [Connections -> SUBSET Paths]
    BY <1>0 DEF TypeOK, BeginSync, Present, Stored
  <2> QED
    BY <1>0, <1>1, <1>2, <2>1 DEF RebuildTypeOK, TypeOK, StoreTypeOK, BeginSync, rebuildVars
<1>5. ASSUME NEW e \in Connections PROVE CallInProgress(e)' /\ RebuildInProgress(e)'
  <2>1. CASE e = c
    <3>1. CallInProgress(c)'
      BY <1>0, <1>1, <1>2
         DEF BeginSync, CallInProgress, TypeOK, Incompatible, IncomingFingerprint, Present
    <3>2. RebuildInProgress(c)'
      BY <1>0, NotRebuilding DEF rebuildVars
    <3> QED
      BY <2>1, <3>1, <3>2
  <2>2. CASE e # c
    <3>1. owner # e
      BY <1>2, <2>2, ConnectionsAssumption
    <3>2. /\ pc'[e] = pc[e] /\ call'[e] = call[e] /\ pending'[e] = pending[e]
      BY <1>0, <2>2 DEF BeginSync, TypeOK
    <3> QED
      BY <3>1, <3>2, CallKept, RebuildKept DEF rebuildVars
  <2> QED
    BY <2>1, <2>2
<1> QED
  BY <1>3, <1>4, <1>5

\* A statement of a writing ingestion that keeps the tables sound and what is
\* recorded of the index.
LEMMA SyncStatementKeeps ==
    ASSUME RebuildInvariant, NEW c \in Connections, pc[c] = "writing",
           NEW W \in Tables, Sound(W), W.state = draft.state,
           Execute(c, W), UNCHANGED <<pc, call, clock>>, UNCHANGED rebuildVars,
           tally' \in [Connections -> [Counters -> Nat]],
           pending' \in [Connections -> SUBSET Paths],
           \A e \in Connections : pending'[e] \subseteq pending[e],
           doomed' \in [Connections -> SUBSET Paths]
    PROVE  RebuildInvariant'
<1> USE DEF RebuildInvariant
<1>1. db' = db /\ draft' = W /\ owner' = c /\ owner = c /\ step[c] = "idle"
  BY DEF Execute, CallInProgress, RebuildInProgress, RebuildTypeOK
<1>2. RebuildTypeOK'
  BY <1>1 DEF RebuildTypeOK, TypeOK, StoreTypeOK, rebuildVars
<1>3. Sound(db)' /\ Sound(draft)'
  BY <1>1, SoundDependsOn
<1>4. ASSUME NEW e \in Connections PROVE CallInProgress(e)' /\ RebuildInProgress(e)'
  <2>1. CallInProgress(e)'
    BY <1>1, CallKept
  <2>2. RebuildInProgress(e)'
    <3>1. CASE e = c
      BY <1>1, <3>1, NotRebuilding DEF rebuildVars
    <3>2. CASE e # c
      BY <1>1, <3>2, RebuildKept DEF rebuildVars
    <3> QED
      BY <3>1, <3>2
  <2> QED
    BY <2>1, <2>2
<1> QED
  BY <1>2, <1>3, <1>4

LEMMA KeepUnchangedKeeps ==
    ASSUME RebuildInvariant, NEW c \in Connections, NEW path \in Paths,
           KeepUnchanged(c, path), UNCHANGED rebuildVars
    PROVE  RebuildInvariant'
<1> USE DEF RebuildInvariant
<1>0. TypeOK
  BY DEF RebuildTypeOK
<1>1. /\ pending' \in [Connections -> SUBSET Paths]
      /\ \A e \in Connections : pending'[e] \subseteq pending[e]
  BY <1>0, ShrinkType DEF KeepUnchanged, TypeOK
<1>2. tally' \in [Connections -> [Counters -> Nat]]
  BY <1>0, CountType DEF KeepUnchanged
<1>3. RebuildTypeOK'
  BY <1>1, <1>2 DEF RebuildTypeOK, TypeOK, StoreTypeOK, KeepUnchanged, rebuildVars
<1>4. Sound(db)' /\ Sound(draft)'
  BY SoundDependsOn DEF KeepUnchanged
<1>5. ASSUME NEW e \in Connections PROVE CallInProgress(e)' /\ RebuildInProgress(e)'
  BY <1>1, CallKept, RebuildKept DEF KeepUnchanged, rebuildVars
<1> QED
  BY <1>3, <1>4, <1>5

\* Vectors are written in the recorded space only, and only into a table of
\* its dimension.
LEMMA WriteDocumentKeeps ==
    ASSUME RebuildInvariant, NEW c \in Connections, NEW path \in Paths,
           WriteDocument(c, path), UNCHANGED rebuildVars
    PROVE  RebuildInvariant'
<1> USE DEF RebuildInvariant
<1> DEFINE d == Doc(c, path)
           row == NewRow(c, path)
           written == WithDocument(draft, d, row)
           W == IF WritesVectors(c) THEN WithVectors(written, d, row, IncomingFingerprint(c))
                ELSE written
<1>0. TypeOK /\ pc[c] = "writing" /\ call[c] \in Calls /\ ~Incompatible(draft, c)
  BY DEF WriteDocument, CallInProgress, RebuildTypeOK
<1>1. d \in Documents
  BY <1>0 DEF Doc, Calls, Documents
<1>2. row \in Rows
  <2>1. call[c].incoming[path] # None
    BY <1>0 DEF WriteDocument, CallInProgress, Present
  <2>2. call[c].incoming[path] \in Contents
    BY <1>0, <2>1 DEF Calls, Snapshots
  <2> QED
    BY <1>0, <2>2 DEF NewRow, Rows, Calls
<1>3. draft \in Tables
  BY <1>0 DEF TypeOK, StoreTypeOK
<1>4. W \in Tables /\ Sound(W) /\ W.state = draft.state
  <2>1. CASE WritesVectors(c)
    <3>1. IndexActive(draft) /\ IncomingFingerprint(c) = draft.state.fingerprint
      BY <1>0, <2>1 DEF WritesVectors, Incompatible, IndexActive
    <3>2. call[c].provider.dimension = draft.state.dimension
      <4>1. IncomingFingerprint(c) = EmbeddingFingerprint(call[c].provider)
        BY <2>1 DEF WritesVectors, IncomingFingerprint
      <4> QED
        BY <3>1, <4>1 DEF EmbeddingFingerprint, Sound, SpaceNamed, IndexActive
    <3>3. \/ draft.vecDim = draft.state.dimension
          \/ \A i \in Positions : ChunkTexts(row.content, row.bound)[i] = None
      BY <3>1, <3>2 DEF WriteDocument, Writable, VectorsStorable
    <3> HIDE DEF d, row
    <3> QED
      BY <1>1, <1>2, <1>3, <2>1, <3>1, <3>3, ReindexedStaysSound
  <2>2. CASE ~WritesVectors(c)
    <3>1. ~IndexActive(draft)
      BY <2>2 DEF WriteDocument, Writable
    <3> HIDE DEF d, row
    <3>2. DocumentReplaced(written, draft, d, row)
      BY <1>1, <1>2, <1>3, WithDocumentEffect
    <3>3. Sound(written)
      BY <1>1, <1>2, <1>3, <3>1, ReplacedStaysSound
    <3> QED
      BY <2>2, <3>2, <3>3 DEF DocumentReplaced
  <2> QED
    BY <2>1, <2>2
<1>5. Execute(c, W) /\ UNCHANGED <<pc, call, clock>>
  BY DEF WriteDocument
<1>6. tally' \in [Connections -> [Counters -> Nat]]
  BY <1>0, CountType DEF WriteDocument
<1>7. /\ pending' \in [Connections -> SUBSET Paths]
      /\ \A e \in Connections : pending'[e] \subseteq pending[e]
  BY <1>0, ShrinkType DEF WriteDocument, TypeOK
<1>8. doomed' \in [Connections -> SUBSET Paths]
  BY <1>0 DEF WriteDocument, TypeOK
<1> HIDE DEF W
<1> QED
  BY <1>0, <1>4, <1>5, <1>6, <1>7, <1>8, SyncStatementKeeps

LEMMA DeleteMissingKeeps ==
    ASSUME RebuildInvariant, NEW c \in Connections, NEW path \in Paths,
           DeleteMissing(c, path), UNCHANGED rebuildVars
    PROVE  RebuildInvariant'
<1> USE DEF RebuildInvariant
<1> DEFINE d == Doc(c, path)
           W == WithoutDocument(draft, d)
<1>0. TypeOK /\ pc[c] = "writing" /\ call[c] \in Calls
  BY DEF DeleteMissing, CallInProgress, RebuildTypeOK
<1>1. d \in Documents
  BY <1>0 DEF Doc, Calls, Documents
<1>2. draft \in Tables
  BY <1>0 DEF TypeOK, StoreTypeOK
<1>3. W \in Tables /\ W.state = draft.state
  BY <1>1, <1>2, WithoutDocumentEffect DEF DocumentRemoved
<1>4. Sound(W)
  BY <1>1, <1>2, RemovedStaysSound
<1>5. Execute(c, W) /\ UNCHANGED <<pc, call, pending, clock>>
  BY DEF DeleteMissing
<1>6. tally' \in [Connections -> [Counters -> Nat]]
  BY <1>0, CountType DEF DeleteMissing
<1>7. doomed' \in [Connections -> SUBSET Paths]
  BY <1>0, ShrinkType DEF DeleteMissing, TypeOK
<1>8. pending' \in [Connections -> SUBSET Paths]
  BY <1>0, <1>5 DEF TypeOK
<1> HIDE DEF W
<1> QED
  BY <1>0, <1>3, <1>4, <1>5, <1>6, <1>7, <1>8, SyncStatementKeeps

LEMMA CommitSyncKeeps ==
    ASSUME RebuildInvariant, NEW c \in Connections, CommitSync(c), UNCHANGED rebuildVars
    PROVE  RebuildInvariant'
<1> USE DEF RebuildInvariant
<1>1. /\ owner = c /\ db' = draft /\ owner' = None /\ draft' = draft
      /\ step[c] = "idle" /\ TypeOK
  BY DEF CommitSync, Commit, RebuildInProgress, RebuildTypeOK
<1>2. RebuildTypeOK'
  BY <1>1 DEF RebuildTypeOK, TypeOK, StoreTypeOK, CommitSync, Return, NoCounts, rebuildVars
<1>3. Sound(db)' /\ Sound(draft)'
  BY <1>1, SoundDependsOn
<1>4. ASSUME NEW e \in Connections PROVE CallInProgress(e)' /\ RebuildInProgress(e)'
  <2>1. CASE e = c
    BY <1>1, <2>1, NotSyncing, NotRebuilding DEF CommitSync, Return, TypeOK, rebuildVars
  <2>2. CASE e # c
    <3>1. /\ pc'[e] = pc[e] /\ call'[e] = call[e] /\ pending'[e] = pending[e]
      BY <1>1, <2>2 DEF CommitSync, Return, TypeOK
    <3> QED
      BY <1>1, <2>2, <3>1, CallKept, RebuildKept DEF rebuildVars
  <2> QED
    BY <2>1, <2>2
<1> QED
  BY <1>2, <1>3, <1>4

LEMMA SyncStepKeeps ==
    ASSUME RebuildInvariant, NEW c \in Connections, SyncGoesOn(c)
    PROVE  RebuildInvariant'
<1>0. SyncStep(c) /\ UNCHANGED rebuildVars
  BY DEF SyncGoesOn
<1>1. CASE BeginSync(c)
  BY <1>0, <1>1, BeginKeeps
<1>2. CASE RejectIncompatible(c) \/ LockTimeout(c)
  <2>1. /\ Return(c) /\ UNCHANGED storeVars /\ UNCHANGED clock /\ pc[c] # "idle"
    BY <1>2 DEF RejectIncompatible, LockTimeout, storeVars
  <2> QED
    BY <1>0, <2>1, ReturnEffect, EndingKeeps
<1>3. CASE (\E path \in Paths : RejectWrite(c, path)) \/ RejectDelete(c)
  <2>1. /\ Return(c) /\ Rollback(c) /\ UNCHANGED clock /\ pc[c] # "idle"
    BY <1>3 DEF RejectWrite, RejectDelete
  <2> QED
    BY <1>0, <2>1, ReturnEffect, UndoingKeeps
<1>4. CASE \E path \in Paths : KeepUnchanged(c, path)
  BY <1>0, <1>4, KeepUnchangedKeeps
<1>5. CASE \E path \in Paths : WriteDocument(c, path)
  BY <1>0, <1>5, WriteDocumentKeeps
<1>6. CASE \E path \in Paths : DeleteMissing(c, path)
  BY <1>0, <1>6, DeleteMissingKeeps
<1>7. CASE CommitSync(c)
  BY <1>0, <1>7, CommitSyncKeeps
<1> QED
  BY <1>0, <1>1, <1>2, <1>3, <1>4, <1>5, <1>6, <1>7 DEF SyncStep

LEMMA AbortSyncKeeps ==
    ASSUME RebuildInvariant, NEW c \in Connections, AbortSync(c)
    PROVE  RebuildInvariant'
<1>1. /\ Return(c) /\ Rollback(c) /\ UNCHANGED clock /\ pc[c] # "idle" /\ UNCHANGED rebuildVars
  BY DEF AbortSync, Abort
<1> QED
  BY <1>1, ReturnEffect, UndoingKeeps

----------------------------------------------------------------------------
(* Steps of a rebuild.                                                     *)

\* A step of a rebuild that only looks.
LEMMA LookingKeeps ==
    ASSUME RebuildInvariant, NEW c \in Connections,
           UNCHANGED vars, RebuildTypeOK',
           \A e \in Connections : e # c =>
              /\ step'[e] = step[e] /\ provider'[e] = provider[e] /\ rows'[e] = rows[e],
           pc[c] = "idle", provider'[c] \in Providers,
           step'[c] \notin {"inserting", "committing"}
    PROVE  RebuildInvariant'
<1> USE DEF RebuildInvariant
<1>1. Sound(db)' /\ Sound(draft)'
  BY SoundDependsOn DEF vars
<1>2. ASSUME NEW e \in Connections PROVE CallInProgress(e)' /\ RebuildInProgress(e)'
  <2>1. CallInProgress(e)'
    BY CallKept DEF vars
  <2>2. RebuildInProgress(e)'
    <3>1. CASE e = c
      BY <3>1 DEF RebuildInProgress, vars
    <3>2. CASE e # c
      BY <3>2, RebuildKept DEF vars
    <3> QED
      BY <3>1, <3>2
  <2> QED
    BY <2>1, <2>2
<1> QED
  BY <1>1, <1>2

\* The types of what a rebuild knows.
LEMMA RebuildTypes ==
    ASSUME RebuildInvariant, NEW c \in Connections
    PROVE  /\ TypeOK /\ db \in Tables /\ draft \in Tables
           /\ rows[c] \in [Chunks -> Texts \cup {None}]
           /\ step[c] # "idle" =>
                 /\ pc[c] = "idle" /\ provider[c] \in Providers
                 /\ provider[c].dimension \in Dimensions
                 /\ EmbeddingFingerprint(provider[c]) \in Fingerprints
BY DEF RebuildInvariant, RebuildTypeOK, TypeOK, StoreTypeOK, RebuildInProgress, Providers,
       EmbeddingFingerprint, Fingerprints

LEMMA StartRebuildKeeps ==
    ASSUME RebuildInvariant, NEW c \in Connections, NEW p \in Providers, StartRebuild(c, p)
    PROVE  RebuildInvariant'
<1>0. RebuildTypeOK /\ db \in Tables
  BY RebuildTypes DEF RebuildInvariant
<1>1. /\ pc[c] = "idle" /\ UNCHANGED vars /\ UNCHANGED seen /\ rebuilds' = rebuilds + 1
      /\ step' = [step EXCEPT ![c] = "embedded"]
      /\ provider' = [provider EXCEPT ![c] = p]
      /\ rows' = [rows EXCEPT ![c] = db.chunks]
  BY DEF StartRebuild, GoTo
<1>2. RebuildTypeOK'
  <2>1. db.chunks \in [Chunks -> Texts \cup {None}]
    BY <1>0 DEF Tables
  <2> QED
    BY <1>0, <1>1, <2>1 DEF RebuildTypeOK, TypeOK, StoreTypeOK, vars, Steps
<1> QED
  BY <1>0, <1>1, <1>2, LookingKeeps DEF RebuildTypeOK

LEMMA LookUpStateKeeps ==
    ASSUME RebuildInvariant, NEW c \in Connections, LookUpState(c)
    PROVE  RebuildInvariant'
<1>0. RebuildTypeOK /\ db \in Tables /\ pc[c] = "idle" /\ provider[c] \in Providers
  BY RebuildTypes DEF RebuildInvariant, LookUpState
<1>1. /\ UNCHANGED vars /\ UNCHANGED <<provider, rows, rebuilds>>
      /\ step' = [step EXCEPT ![c] = "lookedUp"]
      /\ seen' = [seen EXCEPT ![c] = IF db.state = None THEN 0 ELSE db.state.dimension]
  BY DEF LookUpState, GoTo
<1>2. RebuildTypeOK'
  <2>1. (IF db.state = None THEN 0 ELSE db.state.dimension) \in Dimensions \cup {0}
    BY <1>0 DEF Tables, IndexStates
  <2> QED
    BY <1>0, <1>1, <2>1 DEF RebuildTypeOK, TypeOK, StoreTypeOK, vars, Steps
<1> QED
  BY <1>0, <1>1, <1>2, LookingKeeps DEF RebuildTypeOK

LEMMA LookUpTableKeeps ==
    ASSUME RebuildInvariant, NEW c \in Connections, LookUpTable(c)
    PROVE  RebuildInvariant'
<1>0. RebuildTypeOK /\ pc[c] = "idle" /\ provider[c] \in Providers
  BY RebuildTypes DEF RebuildInvariant, LookUpTable
<1>1. /\ UNCHANGED vars /\ UNCHANGED <<provider, rows, seen, rebuilds>>
      /\ step' = [step EXCEPT ![c] = IF TableFits(c) THEN "replacing" ELSE "dropping"]
  BY DEF LookUpTable, GoTo
<1>2. RebuildTypeOK'
  BY <1>0, <1>1 DEF RebuildTypeOK, TypeOK, StoreTypeOK, vars, Steps
<1> QED
  BY <1>0, <1>1, <1>2, LookingKeeps DEF RebuildTypeOK

\* A schema statement, or the first data statement, of a rebuild: nobody else
\* has a transaction open.
LEMMA UnlockedStatementKeeps ==
    ASSUME RebuildInvariant, NEW c \in Connections, step[c] # "idle",
           owner \in {None, c}, owner' \in {None, c},
           NEW label \in Steps \ {"idle", "committing"}, GoTo(c, label),
           label = "inserting" => owner' = c /\ draft'.vec = NoVectors,
           db' \in Tables, draft' \in Tables, Sound(db)', Sound(draft)',
           UNCHANGED <<syncVars, clock, provider, rows, seen, rebuilds>>
    PROVE  RebuildInvariant'
<1> USE DEF RebuildInvariant
<1>0. /\ RebuildTypeOK /\ TypeOK /\ pc[c] = "idle" /\ provider[c] \in Providers
      /\ step' = [step EXCEPT ![c] = label]
  BY RebuildTypes DEF GoTo
<1>1. RebuildTypeOK'
  BY <1>0 DEF RebuildTypeOK, TypeOK, StoreTypeOK, syncVars
<1>2. ASSUME NEW e \in Connections PROVE CallInProgress(e)' /\ RebuildInProgress(e)'
  <2>1. CASE e = c
    BY <1>0, <2>1 DEF RebuildTypeOK, CallInProgress, RebuildInProgress, syncVars
  <2>2. CASE e # c
    <3>1. owner # e /\ step'[e] = step[e]
      BY <1>0, <2>2, ConnectionsAssumption DEF RebuildTypeOK
    <3> QED
      BY <3>1, CallKept, RebuildKept DEF syncVars
  <2> QED
    BY <2>1, <2>2
<1> QED
  BY <1>1, <1>2

LEMMA DropTableKeeps ==
    ASSUME RebuildInvariant, NEW c \in Connections, DropTable(c)
    PROVE  RebuildInvariant'
<1>1. /\ Dropped \in Tables /\ Dropped.vec = NoVectors
      /\ Dropped.documents = db.documents /\ Dropped.chunks = db.chunks
      /\ Dropped.fts = db.fts /\ Dropped.state = db.state
  BY RebuildTypes DEF Dropped, Tables, NoVectors
<1>2. Sound(Dropped)
  BY <1>1, NoVectorsOneSpace
     DEF RebuildInvariant, Sound, ChunksMatch, LexicalAgrees, SpaceNamed
<1>3. /\ db' = Dropped /\ draft' = Dropped /\ owner = None /\ owner' = None
      /\ step[c] = "dropping" /\ GoTo(c, "creating")
      /\ UNCHANGED <<syncVars, clock, provider, rows, seen, rebuilds>>
  BY DEF DropTable, ExecuteSchema
<1>4. Sound(db)' /\ Sound(draft)'
  BY <1>2, <1>3, SoundDependsOn
<1>5. "creating" \in Steps \ {"idle", "committing"} /\ "creating" # "inserting"
  BY DEF Steps
<1> HIDE DEF Dropped
<1> QED
  BY <1>1, <1>3, <1>4, <1>5, UnlockedStatementKeeps

\* There is no table, so there are no vectors the new table could not hold.
LEMMA CreateTableKeeps ==
    ASSUME RebuildInvariant, NEW c \in Connections, CreateTable(c)
    PROVE  RebuildInvariant'
<1> DEFINE W == [db EXCEPT !.vecDim = provider[c].dimension]
<1>0. db \in Tables /\ Sound(db) /\ provider[c].dimension \in Dimensions /\ db.vecDim = 0
  BY RebuildTypes DEF RebuildInvariant, CreateTable
<1>1. /\ W \in Tables /\ W.vec = db.vec
      /\ W.documents = db.documents /\ W.chunks = db.chunks
      /\ W.fts = db.fts /\ W.state = db.state
  BY <1>0 DEF Tables
<1>2. \A k \in Chunks : db.vec[k] = None
  BY <1>0, SyncAssumption DEF Sound, OneSpace, Tables, IndexStates
<1>3. Sound(W)
  <2>1. OneSpace(W)
    BY <1>1, <1>2 DEF OneSpace
  <2> HIDE DEF W
  <2> QED
    BY <1>0, <1>1, <2>1 DEF Sound, ChunksMatch, LexicalAgrees, SpaceNamed
<1>4. /\ db' = W /\ draft' = W /\ owner = None /\ owner' = None
      /\ step[c] = "creating" /\ GoTo(c, "replacing")
      /\ UNCHANGED <<syncVars, clock, provider, rows, seen, rebuilds>>
  BY DEF CreateTable, ExecuteSchema
<1> HIDE DEF W
<1>5. Sound(db)' /\ Sound(draft)'
  BY <1>3, <1>4, SoundDependsOn
<1>6. "replacing" \in Steps \ {"idle", "committing"} /\ "replacing" # "inserting"
  BY DEF Steps
<1> QED
  BY <1>1, <1>4, <1>5, <1>6, UnlockedStatementKeeps

LEMMA ClearVectorsKeeps ==
    ASSUME RebuildInvariant, NEW c \in Connections, ClearVectors(c)
    PROVE  RebuildInvariant'
<1>1. /\ Cleared \in Tables /\ Cleared.vec = NoVectors
      /\ Cleared.documents = db.documents /\ Cleared.chunks = db.chunks
      /\ Cleared.fts = db.fts /\ Cleared.state = db.state
  BY RebuildTypes DEF Cleared, Tables, NoVectors
<1>2. Sound(Cleared)
  BY <1>1, NoVectorsOneSpace
     DEF RebuildInvariant, Sound, ChunksMatch, LexicalAgrees, SpaceNamed
<1>3. /\ db' = db /\ draft' = Cleared /\ owner \in {None, c} /\ owner' = c
      /\ step[c] = "replacing" /\ GoTo(c, "inserting")
      /\ UNCHANGED <<syncVars, clock, provider, rows, seen, rebuilds>>
  BY DEF ClearVectors, Execute
<1>4. Sound(db)' /\ Sound(draft)' /\ db' \in Tables
  BY <1>2, <1>3, SoundDependsOn, RebuildTypes DEF RebuildInvariant
<1>5. "inserting" \in Steps \ {"idle", "committing"}
  BY DEF Steps
<1> HIDE DEF Cleared
<1> QED
  BY <1>1, <1>3, <1>4, <1>5, UnlockedStatementKeeps

\* The refilled table: a vector for each chunk read, which is still stored,
\* in the provider's space and of the table's dimension.
LEMMA RefilledEffect ==
    ASSUME RebuildInvariant, NEW c \in Connections, step[c] = "inserting", Insertable(c)
    PROVE  /\ Refilled(c) \in Tables
           /\ Sound(Refilled(c))
           /\ \A k \in Chunks : (Refilled(c).vec[k] # None) <=> (rows[c][k] # None)
           /\ Refilled(c).state # None
           /\ Refilled(c).state.fingerprint = EmbeddingFingerprint(provider[c])
           /\ Refilled(c).vecDim = draft.vecDim
<1> DEFINE W == Refilled(c)
           space == EmbeddingFingerprint(provider[c])
<1>0. /\ draft \in Tables /\ Sound(draft) /\ draft.vec = NoVectors
      /\ provider[c] \in Providers /\ provider[c].dimension \in Dimensions
      /\ space \in Fingerprints
      /\ rows[c] \in [Chunks -> Texts \cup {None}]
  BY RebuildTypes DEF RebuildInvariant, RebuildInProgress
<1>1. ASSUME NEW k \in Chunks, rows[c][k] # None
      PROVE  /\ Embedding(space, rows[c][k]) \in Vectors
             /\ Embedding(space, rows[c][k]).fingerprint = space
             /\ Embedding(space, rows[c][k]) # None
  <2>1. rows[c][k] \in Texts
    BY <1>0, <1>1
  <2>2. Embedding(space, rows[c][k]) \in Vectors
    BY <1>0, <2>1 DEF Embedding, Vectors
  <2> QED
    BY <2>2, AbsenceAssumption DEF Embedding
<1> DEFINE vectors == [k \in Chunks |->
                         IF rows[c][k] = None THEN draft.vec[k] ELSE Embedding(space, rows[c][k])]
           recorded == [fingerprint |-> space, dimension |-> provider[c].dimension]
<1>2. W = [draft EXCEPT !.vec = vectors, !.state = recorded]
  BY DEF Refilled
<1>3. recorded \in IndexStates /\ vectors \in [Chunks -> Vectors \cup {None}]
  BY <1>0, <1>1 DEF IndexStates, NoVectors
<1>4. /\ W \in Tables /\ W.vec = vectors /\ W.state = recorded
      /\ W.documents = draft.documents
      /\ W.chunks = draft.chunks /\ W.fts = draft.fts /\ W.vecDim = draft.vecDim
  <2> HIDE DEF W, vectors, recorded
  <2> QED
    BY <1>0, <1>2, <1>3 DEF Tables
<1> HIDE DEF W, space
<1>5. W.state # None
  BY <1>3, <1>4, AbsenceAssumption
<1>6. \A k \in Chunks : (W.vec[k] # None) <=> (rows[c][k] # None)
  BY <1>0, <1>1, <1>4 DEF NoVectors
<1>7. OneSpace(W)
  <2> SUFFICES ASSUME NEW k \in Chunks, W.vec[k] # None
               PROVE  /\ W.chunks[k] # None
                      /\ W.vec[k].fingerprint = W.state.fingerprint
                      /\ W.vecDim = W.state.dimension
    BY <1>5 DEF OneSpace
  <2>1. k \in Embedded(c)
    BY <1>6 DEF Embedded
  <2>2. draft.chunks[k] # None /\ draft.vecDim = provider[c].dimension
    BY <2>1 DEF Insertable
  <2> QED
    BY <1>1, <1>4, <1>6, <2>2
<1>8. SpaceNamed(W)
  BY <1>4 DEF SpaceNamed, EmbeddingFingerprint, space
<1>9. Sound(W)
  BY <1>0, <1>4, <1>7, <1>8 DEF Sound, ChunksMatch, LexicalAgrees
<1> QED
  BY <1>4, <1>5, <1>6, <1>9 DEF W, space

LEMMA InsertVectorsKeeps ==
    ASSUME RebuildInvariant, NEW c \in Connections, InsertVectorsAndState(c)
    PROVE  RebuildInvariant'
<1> USE DEF RebuildInvariant
<1> DEFINE W == Refilled(c)
<1>0. /\ TypeOK /\ RebuildTypeOK /\ db \in Tables
      /\ pc[c] = "idle" /\ provider[c] \in Providers
  BY RebuildTypes DEF InsertVectorsAndState
<1>1. /\ step[c] = "inserting" /\ Insertable(c) /\ owner = c
      /\ db' = db /\ draft' = W /\ owner' = c
      /\ step' = [step EXCEPT ![c] = "committing"]
      /\ UNCHANGED <<syncVars, clock, provider, rows, seen, rebuilds>>
  BY DEF InsertVectorsAndState, Execute, GoTo, RebuildInProgress
<1>2. /\ W \in Tables /\ Sound(W)
      /\ \A k \in Chunks : (W.vec[k] # None) <=> (rows[c][k] # None)
      /\ W.state # None
      /\ W.state.fingerprint = EmbeddingFingerprint(provider[c])
      /\ W.vecDim = draft.vecDim
  BY <1>1, RefilledEffect
<1> HIDE DEF W
<1>3. RebuildTypeOK'
  BY <1>0, <1>1, <1>2 DEF RebuildTypeOK, TypeOK, StoreTypeOK, syncVars, Steps
<1>4. Sound(db)' /\ Sound(draft)'
  BY <1>1, <1>2, SoundDependsOn
<1>5. ASSUME NEW e \in Connections PROVE CallInProgress(e)' /\ RebuildInProgress(e)'
  <2>1. CASE e = c
    <3>1. Embedded(c)' = Embedded(c) /\ step'[c] = "committing"
      BY <1>1, <1>3 DEF Embedded, RebuildTypeOK
    <3> QED
      BY <1>0, <1>1, <1>2, <2>1, <3>1 DEF Insertable, RebuildInProgress, CallInProgress, syncVars
  <2>2. CASE e # c
    BY <1>1, <2>2, CallKept, RebuildKept DEF RebuildTypeOK, syncVars
  <2> QED
    BY <2>1, <2>2
<1> QED
  BY <1>3, <1>4, <1>5

\* What ending a rebuild leaves of everybody.
LEMMA EndRebuildEffect ==
    ASSUME RebuildInvariant, NEW c \in Connections, EndRebuild(c), step[c] # "idle",
           UNCHANGED <<syncVars, clock>>,
           db' \in Tables, draft' \in Tables, owner' \in Connections \cup {None}
    PROVE  /\ RebuildTypeOK'
           /\ \A e \in Connections : e # c =>
                 /\ pc'[e] = pc[e] /\ call'[e] = call[e] /\ pending'[e] = pending[e]
                 /\ step'[e] = step[e] /\ provider'[e] = provider[e] /\ rows'[e] = rows[e]
           /\ pc'[c] = "idle" /\ step'[c] = "idle"
<1>0. RebuildTypeOK /\ pc[c] = "idle"
  BY RebuildTypes DEF RebuildInvariant
<1>1. NoVectors \in [Chunks -> Texts \cup {None}]
  BY DEF NoVectors
<1>2. RebuildTypeOK'
  BY <1>0, <1>1 DEF EndRebuild, GoTo, RebuildTypeOK, TypeOK, StoreTypeOK, syncVars, Steps
<1> QED
  BY <1>0, <1>2 DEF EndRebuild, GoTo, RebuildTypeOK, syncVars

\* A rebuild is refused, fails or dies, with or without a transaction.
LEMMA GivingUpKeeps ==
    ASSUME RebuildInvariant, NEW c \in Connections, EndRebuild(c), step[c] # "idle",
           UNCHANGED <<syncVars, clock>>, Rollback(c) \/ UNCHANGED storeVars
    PROVE  RebuildInvariant'
<1>1. db' \in Tables /\ draft' \in Tables /\ owner' \in Connections \cup {None}
  BY DEF Rollback, storeVars, RebuildInvariant, RebuildTypeOK, TypeOK, StoreTypeOK
<1>2. /\ RebuildTypeOK'
      /\ \A e \in Connections : e # c =>
            /\ pc'[e] = pc[e] /\ call'[e] = call[e] /\ pending'[e] = pending[e]
            /\ step'[e] = step[e] /\ provider'[e] = provider[e] /\ rows'[e] = rows[e]
      /\ pc'[c] = "idle" /\ step'[c] = "idle"
  BY <1>1, EndRebuildEffect
<1> QED
  BY <1>2, UndoingKeeps, EndingKeeps

LEMMA CommitRebuildKeeps ==
    ASSUME RebuildInvariant, NEW c \in Connections, CommitRebuild(c)
    PROVE  RebuildInvariant'
<1> USE DEF RebuildInvariant
<1>0. db \in Tables /\ draft \in Tables
  BY RebuildTypes
<1>1. /\ owner = c /\ db' = draft /\ owner' = None /\ draft' = draft
      /\ EndRebuild(c) /\ step[c] # "idle" /\ UNCHANGED <<syncVars, clock>>
  BY DEF CommitRebuild, Commit
<1>2. /\ RebuildTypeOK'
      /\ \A e \in Connections : e # c =>
            /\ pc'[e] = pc[e] /\ call'[e] = call[e] /\ pending'[e] = pending[e]
            /\ step'[e] = step[e] /\ provider'[e] = provider[e] /\ rows'[e] = rows[e]
      /\ pc'[c] = "idle" /\ step'[c] = "idle"
  BY <1>0, <1>1, EndRebuildEffect
<1>3. Sound(db)' /\ Sound(draft)'
  BY <1>1, SoundDependsOn
<1>4. ASSUME NEW e \in Connections PROVE CallInProgress(e)' /\ RebuildInProgress(e)'
  <2>1. CASE e = c
    BY <1>2, <2>1, NotRebuilding, NotSyncing
  <2>2. CASE e # c
    BY <1>1, <1>2, <2>2, CallKept, RebuildKept
  <2> QED
    BY <2>1, <2>2
<1> QED
  BY <1>2, <1>3, <1>4

LEMMA RebuildStepKeeps ==
    ASSUME RebuildInvariant, NEW c \in Connections, RebuildStep(c)
    PROVE  RebuildInvariant'
<1>1. CASE RefuseRebuild(c)
  BY <1>1, GivingUpKeeps DEF RefuseRebuild, Refused
<1>2. CASE RebuildLockTimeout(c)
  BY <1>2, GivingUpKeeps DEF RebuildLockTimeout, storeVars, syncVars, vars
<1> QED
  BY <1>1, <1>2, LookUpStateKeeps, LookUpTableKeeps, DropTableKeeps, CreateTableKeeps,
     ClearVectorsKeeps, InsertVectorsKeeps, CommitRebuildKeeps DEF RebuildStep

LEMMA AbortRebuildKeeps ==
    ASSUME RebuildInvariant, NEW c \in Connections, AbortRebuild(c)
    PROVE  RebuildInvariant'
BY GivingUpKeeps, RebuildAssumption DEF AbortRebuild

LEMMA RebuildStutterKeeps ==
    ASSUME RebuildInvariant, UNCHANGED allVars
    PROVE  RebuildInvariant'
<1> USE DEF RebuildInvariant
<1>1. Sound(db)' /\ Sound(draft)'
  BY SoundDependsOn DEF allVars, vars
<1>2. \A e \in Connections : CallInProgress(e)' /\ RebuildInProgress(e)'
  BY CallKept, RebuildKept DEF allVars, vars, rebuildVars
<1>3. RebuildTypeOK'
  BY DEF RebuildTypeOK, TypeOK, StoreTypeOK, allVars, vars, rebuildVars
<1> QED
  BY <1>1, <1>2, <1>3

LEMMA RebuildNextKeeps == RebuildInvariant /\ [RebuildNext]_allVars => RebuildInvariant'
<1> SUFFICES ASSUME RebuildInvariant, [RebuildNext]_allVars PROVE RebuildInvariant'
  OBVIOUS
<1>1. CASE RebuildQuiescent \/ UNCHANGED allVars
  BY <1>1, RebuildStutterKeeps DEF RebuildQuiescent
<1> QED
  BY <1>1, IngestKeeps, SyncStepKeeps, AbortSyncKeeps, StartRebuildKeeps, RebuildStepKeeps,
     AbortRebuildKeeps DEF RebuildNext

----------------------------------------------------------------------------
(* The theorems.                                                           *)

\* Every reachable state of any number of connections that ingest, rebuild
\* and die at any statement satisfies the invariant.
THEOREM RebuildInvariance == RebuildSpec => []RebuildInvariant
BY RebuildInitEstablishes, RebuildNextKeeps, PTL DEF RebuildSpec

\* Tables, calls and rebuilds in progress are always what their types say.
THEOREM RebuildTypeCorrect == RebuildSpec => []RebuildTypeOK
<1>1. RebuildInvariant => RebuildTypeOK
  BY DEF RebuildInvariant
<1> QED
  BY RebuildInvariance, <1>1, PTL

\* No interleaving of ingestions and rebuilds, with any providers and deaths
\* anywhere, leaves a vector of a chunk that is gone, or vectors of two
\* spaces, or of a dimension that is not their table's.
THEOREM OneVectorSpace == RebuildSpec => []VectorsShareOneSpace
<1>1. RebuildInvariant => VectorsShareOneSpace
  BY DEF RebuildInvariant, Sound, OneSpace, VectorsShareOneSpace
<1> QED
  BY RebuildInvariance, <1>1, PTL

\* Whatever becomes of rebuilds, chunks stay the chunking of the stored
\* documents and the lexical index stays in step with them.
THEOREM LexicalUndisturbed == RebuildSpec => []LexicalIndexUndisturbed
<1>1. RebuildInvariant => LexicalIndexUndisturbed
  BY DEF RebuildInvariant, Sound, LexicalIndexUndisturbed, LexicalIndexAgrees,
         StoredChunksAreCurrent
<1> QED
  BY RebuildInvariance, <1>1, PTL

\* A rebuild that commits has indexed exactly the chunks it read, in its own
\* space, whatever others did to the tables between reading and committing.
THEOREM RebuildsCover == RebuildSpec => RebuildCoversWhatItRead
<1>1. RebuildInvariant /\ [RebuildNext]_allVars =>
         [\A c \in Connections : CommitRebuild(c) =>
            /\ \A k \in Chunks : (db'.vec[k] # None) <=> (rows[c][k] # None)
            /\ db'.state.fingerprint = EmbeddingFingerprint(provider[c])
            /\ Embedded(c) # {} => db'.vecDim = provider[c].dimension]_allVars
  BY DEF RebuildInvariant, RebuildInProgress, CommitRebuild, Commit
<1> QED
  BY RebuildInvariance, <1>1, PTL DEF RebuildSpec, RebuildCoversWhatItRead

----------------------------------------------------------------------------
(* One process alone.                                                      *)

OneProcess == \A c, e \in Connections : c = e

\* A rebuild that died has left a table of another dimension than recorded.
Torn == db.state # None /\ db.vecDim # db.state.dimension

\* What a rebuild nobody interferes with may rely on: what it read is still
\* so, and a table it kept fits its provider, or never fitted the metadata.
Undisturbed(c) ==
    /\ step[c] # "idle" => rows[c] = db.chunks
    /\ step[c] = "lookedUp" =>
          seen[c] = IF db.state = None THEN 0 ELSE db.state.dimension
    /\ step[c] = "creating" => db.vecDim = 0
    /\ step[c] \in {"replacing", "inserting"} =>
          db.vecDim # 0 /\ (db.vecDim = provider[c].dimension \/ Torn)
    /\ step[c] = "inserting" => draft.chunks = db.chunks
    /\ step[c] \in {"inserting", "committing"} => draft.vecDim = db.vecDim

LoneInvariant == RebuildInvariant /\ \A c \in Connections : Undisturbed(c)

LEMMA LoneInitEstablishes == RebuildInit => LoneInvariant
BY RebuildInitEstablishes DEF LoneInvariant, RebuildInit, Undisturbed

\* While the only process ingests it rebuilds nothing.
LEMMA IngestionLeavesUndisturbed ==
    ASSUME OneProcess, RebuildInvariant, NEW c \in Connections, step[c] = "idle",
           UNCHANGED rebuildVars
    PROVE  \A e \in Connections : Undisturbed(e)'
BY DEF OneProcess, Undisturbed, rebuildVars

\* Nor is anything left to rely on when a rebuild is over.
LEMMA EndLeavesUndisturbed ==
    ASSUME OneProcess, RebuildInvariant, NEW c \in Connections, EndRebuild(c)
    PROVE  \A e \in Connections : Undisturbed(e)'
BY DEF OneProcess, Undisturbed, EndRebuild, GoTo, RebuildInvariant, RebuildTypeOK

LEMMA StepKeepsUndisturbed ==
    ASSUME OneProcess, LoneInvariant, NEW c \in Connections, RebuildStep(c)
    PROVE  \A e \in Connections : Undisturbed(e)'
<1> USE DEF OneProcess, LoneInvariant
<1>0. /\ db \in Tables /\ step \in [Connections -> Steps]
      /\ step[c] # "idle" => provider[c].dimension \in Dimensions
      /\ Dimensions \subseteq Nat \ {0}
      /\ seen \in [Connections -> Dimensions \cup {0}]
      /\ Undisturbed(c)
  BY RebuildTypes, SyncAssumption DEF RebuildInvariant, RebuildTypeOK
<1> SUFFICES Undisturbed(c)'
  OBVIOUS
<1>1. CASE LookUpState(c)
  BY <1>0, <1>1 DEF LookUpState, GoTo, Undisturbed, vars
<1>2. CASE LookUpTable(c)
  <2>1. /\ UNCHANGED <<db, provider, rows, draft>> /\ step[c] = "lookedUp"
        /\ step'[c] = IF TableFits(c) THEN "replacing" ELSE "dropping"
    BY <1>0, <1>2 DEF LookUpTable, GoTo, vars
  <2>2. CASE TableFits(c)
    <3>1. db.vecDim # 0 /\ db.state # None /\ db.state.dimension = provider[c].dimension
      BY <1>0, <2>1, <2>2 DEF TableFits, Undisturbed
    <3> QED
      BY <1>0, <2>1, <2>2, <3>1 DEF Undisturbed, Torn
  <2>3. CASE ~TableFits(c)
    BY <1>0, <2>1, <2>3 DEF Undisturbed
  <2> QED
    BY <2>2, <2>3
<1>3. CASE DropTable(c)
  <2>1. /\ step'[c] = "creating" /\ rows' = rows /\ db' = Dropped /\ step[c] = "dropping"
    BY <1>0, <1>3 DEF DropTable, ExecuteSchema, GoTo
  <2>2. Dropped.chunks = db.chunks /\ Dropped.vecDim = 0
    BY <1>0 DEF Dropped, Tables
  <2> HIDE DEF Dropped
  <2> QED
    BY <1>0, <2>1, <2>2 DEF Undisturbed
<1>4. CASE CreateTable(c)
  <2> DEFINE W == [db EXCEPT !.vecDim = provider[c].dimension]
  <2>1. /\ step'[c] = "replacing" /\ rows' = rows /\ provider' = provider
        /\ db' = W /\ step[c] = "creating"
    BY <1>0, <1>4 DEF CreateTable, ExecuteSchema, GoTo
  <2>2. W.chunks = db.chunks /\ W.vecDim = provider[c].dimension
    BY <1>0 DEF Tables
  <2> HIDE DEF W
  <2> QED
    BY <1>0, <2>1, <2>2 DEF Undisturbed
<1>5. CASE ClearVectors(c)
  <2>1. /\ step'[c] = "inserting" /\ rows' = rows /\ provider' = provider
        /\ db' = db /\ draft' = Cleared /\ step[c] = "replacing"
    BY <1>0, <1>5 DEF ClearVectors, Execute, GoTo
  <2>2. Cleared.chunks = db.chunks /\ Cleared.vecDim = db.vecDim
    BY <1>0 DEF Cleared, Tables
  <2> HIDE DEF Cleared
  <2> QED
    BY <1>0, <2>1, <2>2 DEF Undisturbed, Torn
<1>6. CASE InsertVectorsAndState(c)
  <2>1. /\ step'[c] = "committing" /\ rows' = rows /\ db' = db /\ step[c] = "inserting"
        /\ draft' = Refilled(c)
    BY <1>0, <1>6 DEF InsertVectorsAndState, Execute, GoTo
  <2>2. Refilled(c).vecDim = draft.vecDim
    BY DEF Refilled, LoneInvariant, RebuildInvariant, RebuildTypeOK, TypeOK, StoreTypeOK, Tables
  <2> HIDE DEF Refilled
  <2> QED
    BY <1>0, <2>1, <2>2 DEF Undisturbed
<1>7. CASE CommitRebuild(c) \/ RefuseRebuild(c) \/ RebuildLockTimeout(c)
  BY <1>7, EndLeavesUndisturbed DEF CommitRebuild, RefuseRebuild, RebuildLockTimeout
<1> QED
  BY <1>1, <1>2, <1>3, <1>4, <1>5, <1>6, <1>7 DEF RebuildStep

LEMMA LoneNextKeeps ==
    ASSUME OneProcess
    PROVE  LoneInvariant /\ [RebuildNext]_allVars => LoneInvariant'
<1> SUFFICES ASSUME LoneInvariant, [RebuildNext]_allVars PROVE \A e \in Connections : Undisturbed(e)'
  BY RebuildNextKeeps DEF LoneInvariant
<1>0. RebuildInvariant
  BY DEF LoneInvariant
<1>1. ASSUME NEW c \in Connections, Ingest(c) \/ SyncGoesOn(c) \/ AbortSync(c)
      PROVE  \A e \in Connections : Undisturbed(e)'
  <2>1. UNCHANGED rebuildVars /\ step[c] = "idle"
    <3>1. pc[c] # "idle" => step[c] = "idle"
      BY <1>0 DEF RebuildInvariant, RebuildInProgress
    <3> QED
      BY <1>1, <3>1 DEF Ingest, SyncGoesOn, AbortSync, Abort, SyncStep, BeginSync,
                RejectIncompatible, LockTimeout, KeepUnchanged, WriteDocument, RejectWrite,
                DeleteMissing, RejectDelete, CommitSync
  <2> QED
    BY <1>0, <2>1, IngestionLeavesUndisturbed
<1>2. ASSUME NEW c \in Connections, NEW p \in Providers, StartRebuild(c, p)
      PROVE  \A e \in Connections : Undisturbed(e)'
  BY <1>0, <1>2 DEF StartRebuild, GoTo, vars, Undisturbed, OneProcess, RebuildInvariant, RebuildTypeOK
<1>3. ASSUME NEW c \in Connections, AbortRebuild(c)
      PROVE  \A e \in Connections : Undisturbed(e)'
  BY <1>0, <1>3, EndLeavesUndisturbed DEF AbortRebuild
<1>4. CASE RebuildQuiescent \/ UNCHANGED allVars
  BY <1>4 DEF RebuildQuiescent, allVars, vars, rebuildVars, LoneInvariant, Undisturbed, Torn
<1> QED
  BY <1>1, <1>2, <1>3, <1>4, StepKeepsUndisturbed DEF RebuildNext

\* A rebuild nobody interferes with is refused by a torn table only: first
\* activation, model change and dimension change always go through, wherever
\* earlier rebuilds died.
THEOREM OnlyTornRefused ==
    ASSUME OneProcess
    PROVE  RebuildSpec => RefusedOnlyWhenTorn
<1>1. LoneInvariant /\ [RebuildNext]_allVars =>
         [\A c \in Connections :
             RefuseRebuild(c) => db.state # None /\ db.vecDim # db.state.dimension]_allVars
  <2> SUFFICES ASSUME LoneInvariant, NEW c \in Connections, Refused(c) PROVE Torn
    BY DEF RefuseRebuild, Torn
  <2>1. Undisturbed(c)
    BY DEF LoneInvariant
  <2>2. CASE step[c] = "inserting" /\ ~Insertable(c)
    BY <2>1, <2>2 DEF Undisturbed, Insertable, Embedded
  <2> QED
    BY <2>1, <2>2 DEF Refused, Undisturbed
<1> QED
  BY LoneInitEstablishes, LoneNextKeeps, <1>1, PTL DEF RebuildSpec, RefusedOnlyWhenTorn

----------------------------------------------------------------------------
(* One process alone implements the knowledge base.                        *)

\* No rebuild dies between DROP TABLE and CREATE VIRTUAL TABLE.
NeverDiesInTheGap == "creating" \notin FailPoints

\* What keeps the index either exact or out of service: a recorded index is
\* without a table only in the gap, a table is replaced by one of another
\* dimension than recorded, and whatever a transaction is about to commit is
\* exact.
KeepsServing(c) ==
    /\ db.state # None /\ db.vecDim = 0 => step[c] = "creating"
    /\ step[c] \in {"dropping", "creating"} /\ db.state # None =>
          db.state.dimension # provider[c].dimension
    /\ step[c] \in {"inserting", "committing"} => draft.documents = db.documents
    /\ step[c] = "committing" => SearchExact(draft) /\ draft.vecDim # 0
    /\ pc[c] = "writing" => SearchExact(draft)
    /\ TransactionScope(c)

ServingInvariant ==
    /\ LoneInvariant
    /\ SearchExact(db)
    /\ \A c \in Connections : KeepsServing(c)

ServesOn == SearchExact(db) /\ \A e \in Connections : KeepsServing(e)

\* Exactness is about these columns only.
LEMMA ExactDependsOn ==
    ASSUME NEW T, NEW W, SearchExact(T),
           W.chunks = T.chunks, W.vec = T.vec, W.vecDim = T.vecDim, W.state = T.state
    PROVE  SearchExact(W)
BY DEF SearchExact, Serves

\* Tables without vectors are exact while the index is out of service.
LEMMA OutOfServiceExact ==
    ASSUME NEW T, T.vec = NoVectors, ~Serves(T)
    PROVE  SearchExact(T)
BY DEF SearchExact, NoVectors

LEMMA ServingInit == RebuildInit => ServingInvariant
<1> SUFFICES ASSUME RebuildInit PROVE ServingInvariant
  OBVIOUS
<1>1. LoneInvariant
  BY LoneInitEstablishes
<1>2. db = EmptyTables /\ \A c \in Connections : step[c] = "idle" /\ pc[c] = "idle"
  BY DEF RebuildInit, StoreInit, SyncInit
<1>3. db.state = None /\ db.vec = NoVectors
  BY <1>2 DEF EmptyTables
<1>4. SearchExact(db)
  BY <1>3, OutOfServiceExact DEF Serves
<1>5. \A c \in Connections : KeepsServing(c)
  BY <1>2, <1>3 DEF KeepsServing, TransactionScope
<1> QED
  BY <1>1, <1>4, <1>5 DEF ServingInvariant

----------------------------------------------------------------------------
(* What the statements do to exact tables.                                 *)

LEMMA WrittenStaysExact ==
    ASSUME NEW T \in Tables, NEW d \in Documents, NEW row \in Rows,
           SearchExact(T), ~IndexActive(T)
    PROVE  SearchExact(WithDocument(T, d, row))
<1> DEFINE W == WithDocument(T, d, row)
<1>1. DocumentReplaced(W, T, d, row)
  BY WithDocumentEffect
<1> HIDE DEF W
<1>2. SearchExact(W)
  BY <1>1 DEF DocumentReplaced, SearchExact, Serves, IndexActive
<1> QED
  BY <1>2 DEF W

\* A document without texts needs no vectors, so writing it disturbs not even
\* an index that is out of service.
LEMMA ReindexedStaysExact ==
    ASSUME NEW T \in Tables, NEW d \in Documents, NEW row \in Rows,
           SearchExact(T), IndexActive(T),
           \/ T.vecDim = T.state.dimension
           \/ \A i \in Positions : ChunkTexts(row.content, row.bound)[i] = None
    PROVE  SearchExact(WithVectors(WithDocument(T, d, row), d, row, T.state.fingerprint))
<1> DEFINE V == WithDocument(T, d, row)
           W == WithVectors(V, d, row, T.state.fingerprint)
           texts == ChunkTexts(row.content, row.bound)
<1>0. T.state.fingerprint \in Fingerprints
  BY DEF Tables, IndexStates, IndexActive
<1>1. DocumentReplaced(V, T, d, row)
  BY WithDocumentEffect
<1>2. VectorsReplaced(W, V, d, row, T.state.fingerprint)
  <2>1. V \in Tables
    BY <1>1 DEF DocumentReplaced
  <2> HIDE DEF V
  <2> QED
    BY <1>0, <2>1, WithVectorsEffect
<1> HIDE DEF V, W
<1>3. W.state = T.state /\ W.vecDim = T.vecDim /\ W.chunks = V.chunks
  BY <1>1, <1>2 DEF DocumentReplaced, VectorsReplaced
<1>4. ASSUME NEW k \in Chunks
      PROVE  W.vec[k] = IF ~Serves(T) \/ W.chunks[k] = None THEN None
                        ELSE Embedding(T.state.fingerprint, W.chunks[k])
  <2>1. CASE DocumentOf(k) = d
    <3>1. W.chunks[k] = texts[PositionOf(k)]
      BY <1>1, <1>3, <2>1 DEF DocumentReplaced
    <3>2. W.vec[k] = IF texts[PositionOf(k)] = None THEN None
                     ELSE Embedding(T.state.fingerprint, texts[PositionOf(k)])
      BY <1>2, <2>1 DEF VectorsReplaced
    <3>3. ~Serves(T) => texts[PositionOf(k)] = None
      BY ChunkParts DEF Serves, IndexActive
    <3> QED
      BY <3>1, <3>2, <3>3
  <2>2. CASE DocumentOf(k) # d
    <3>1. W.vec[k] = T.vec[k] /\ W.chunks[k] = T.chunks[k]
      BY <1>1, <1>2, <1>3, <2>2 DEF DocumentReplaced, VectorsReplaced
    <3> QED
      BY <3>1 DEF SearchExact
  <2> QED
    BY <2>1, <2>2
<1>5. SearchExact(W)
  BY <1>3, <1>4 DEF SearchExact, Serves
<1> QED
  BY <1>5 DEF V, W

LEMMA RemovedStaysExact ==
    ASSUME NEW T \in Tables, NEW d \in Documents, SearchExact(T)
    PROVE  SearchExact(WithoutDocument(T, d))
<1> DEFINE W == WithoutDocument(T, d)
<1>1. DocumentRemoved(W, T, d)
  BY WithoutDocumentEffect
<1> HIDE DEF W
<1>2. SearchExact(W)
  BY <1>1 DEF DocumentRemoved, SearchExact, Serves, IndexActive
<1> QED
  BY <1>2 DEF W

----------------------------------------------------------------------------
(* The steps of the one process.                                           *)

\* A call or a rebuild that ends without a commit, outside the gap.
LEMMA EndingServesOn ==
    ASSUME OneProcess, ServingInvariant, NEW c \in Connections, db' = db,
           step[c] # "creating", step'[c] = "idle", pc'[c] = "idle"
    PROVE  ServesOn'
BY DEF OneProcess, ServingInvariant, KeepsServing, ServesOn, SearchExact, Serves,
       TransactionScope

LEMMA IngestServesOn ==
    ASSUME OneProcess, ServingInvariant, NEW c \in Connections, Ingest(c)
    PROVE  ServesOn'
<1>1. db' = db /\ step[c] = "idle" /\ step' = step
  BY DEF Ingest, Call, rebuildVars
<1>2. pc'[c] = "waiting"
  BY DEF Ingest, Call, ServingInvariant, LoneInvariant, RebuildInvariant, RebuildTypeOK, TypeOK
<1> QED
  BY <1>1, <1>2 DEF OneProcess, ServingInvariant, KeepsServing, ServesOn, SearchExact, Serves,
                    TransactionScope

\* A statement of an ingestion's transaction.
LEMMA SyncStatementServesOn ==
    ASSUME OneProcess, ServingInvariant, NEW c \in Connections, db' = db,
           step[c] = "idle", step' = step, SearchExact(draft'), TransactionScope(c)'
    PROVE  ServesOn'
BY DEF OneProcess, ServingInvariant, KeepsServing, ServesOn, SearchExact, Serves

LEMMA WriteDocumentServesOn ==
    ASSUME OneProcess, ServingInvariant, NEW c \in Connections, NEW path \in Paths,
           WriteDocument(c, path), step[c] = "idle", step' = step
    PROVE  ServesOn'
<1> DEFINE d == Doc(c, path)
           row == NewRow(c, path)
           written == WithDocument(draft, d, row)
<1>0. /\ TypeOK /\ CallInProgress(c) /\ Sound(draft) /\ TransactionScope(c) /\ SearchExact(draft)
      /\ draft \in Tables /\ pc[c] = "writing" /\ ~Incompatible(draft, c)
  BY DEF ServingInvariant, LoneInvariant, RebuildInvariant, RebuildTypeOK, TypeOK, StoreTypeOK,
         KeepsServing, WriteDocument, CallInProgress
<1>1. d \in Documents /\ row \in Rows
  BY <1>0, WriteDocumentRows
<1>2. SearchExact(draft')
  <2>1. CASE WritesVectors(c)
    <3>1. IndexActive(draft) /\ IncomingFingerprint(c) = draft.state.fingerprint
      BY <1>0, <2>1 DEF WritesVectors, Incompatible, IndexActive
    <3>2. call[c].provider.dimension = draft.state.dimension
      <4>1. IncomingFingerprint(c) = EmbeddingFingerprint(call[c].provider)
        BY <2>1 DEF WritesVectors, IncomingFingerprint
      <4> QED
        BY <1>0, <3>1, <4>1 DEF EmbeddingFingerprint, Sound, SpaceNamed, IndexActive
    <3>3. \/ draft.vecDim = draft.state.dimension
          \/ \A i \in Positions : ChunkTexts(row.content, row.bound)[i] = None
      BY <3>1, <3>2 DEF WriteDocument, Writable, VectorsStorable
    <3>4. draft' = WithVectors(written, d, row, draft.state.fingerprint)
      BY <2>1, <3>1 DEF WriteDocument, Execute
    <3> HIDE DEF d, row
    <3> QED
      BY <1>0, <1>1, <3>1, <3>3, <3>4, ReindexedStaysExact
  <2>2. CASE ~WritesVectors(c)
    <3>1. ~IndexActive(draft)
      BY <2>2 DEF WriteDocument, Writable
    <3>2. draft' = written
      BY <2>2 DEF WriteDocument, Execute
    <3> HIDE DEF d, row
    <3> QED
      BY <1>0, <1>1, <3>1, <3>2, WrittenStaysExact
  <2> QED
    BY <2>1, <2>2
<1>3. TransactionScope(c)'
  BY <1>0, WriteDocumentInScope
<1>4. db' = db
  BY DEF WriteDocument, Execute
<1> QED
  BY <1>2, <1>3, <1>4, SyncStatementServesOn

LEMMA CommitSyncServesOn ==
    ASSUME OneProcess, ServingInvariant, NEW c \in Connections, CommitSync(c),
           step[c] = "idle", step' = step
    PROVE  ServesOn'
<1>1. /\ pc[c] = "writing" /\ db' = draft /\ KeepsServing(c)
      /\ draft.state = db.state /\ draft.vecDim = db.vecDim /\ SearchExact(draft)
  BY DEF CommitSync, Commit, ServingInvariant, KeepsServing, TransactionScope
<1>2. pc'[c] = "idle"
  BY DEF CommitSync, Return, ServingInvariant, LoneInvariant, RebuildInvariant, RebuildTypeOK,
         TypeOK
<1> QED
  BY <1>1, <1>2 DEF OneProcess, KeepsServing, ServesOn, SearchExact, Serves, TransactionScope

LEMMA SyncServesOn ==
    ASSUME OneProcess, ServingInvariant, NEW c \in Connections, SyncGoesOn(c) \/ AbortSync(c)
    PROVE  ServesOn'
<1>0. /\ TypeOK /\ CallInProgress(c) /\ TransactionScope(c) /\ step' = step
      /\ pc[c] # "idle" /\ step[c] = "idle"
      /\ db \in Tables /\ draft \in Tables /\ SearchExact(db)
      /\ pc[c] = "writing" => SearchExact(draft)
  <2>1. pc[c] # "idle"
    BY DEF SyncGoesOn, AbortSync, Abort, SyncStep, BeginSync, RejectIncompatible, LockTimeout,
           KeepUnchanged, WriteDocument, RejectWrite, DeleteMissing, RejectDelete, CommitSync
  <2> QED
    BY <2>1 DEF SyncGoesOn, AbortSync, rebuildVars, ServingInvariant, LoneInvariant,
                RebuildInvariant, RebuildInProgress, RebuildTypeOK, TypeOK, StoreTypeOK,
                KeepsServing
<1>1. CASE BeginSync(c)
  <2> DEFINE W == UpsertSource(db, call[c].source)
  <2>1. W.chunks = db.chunks /\ W.vec = db.vec /\ W.vecDim = db.vecDim /\ W.state = db.state
    BY <1>0 DEF UpsertSource, Tables
  <2>2. draft' = W /\ db' = db
    BY <1>1 DEF BeginSync, Execute
  <2> HIDE DEF W
  <2>3. SearchExact(draft')
    BY <1>0, <2>1, <2>2, ExactDependsOn
  <2> QED
    BY <1>0, <1>1, <2>2, <2>3, BeginsInScope, SyncStatementServesOn
<1>2. ASSUME Return(c), Rollback(c) \/ UNCHANGED storeVars
      PROVE  ServesOn'
  <2>1. db' = db /\ pc'[c] = "idle" /\ step'[c] = "idle"
    BY <1>0, <1>2 DEF Return, Rollback, storeVars, TypeOK
  <2> QED
    BY <1>0, <2>1, EndingServesOn
<1>3. CASE RejectIncompatible(c) \/ LockTimeout(c)
  BY <1>2, <1>3 DEF RejectIncompatible, LockTimeout, storeVars
<1>4. CASE (\E path \in Paths : RejectWrite(c, path)) \/ RejectDelete(c) \/ AbortSync(c)
  BY <1>2, <1>4 DEF RejectWrite, RejectDelete, AbortSync, Abort
<1>5. ASSUME NEW path \in Paths, KeepUnchanged(c, path)
      PROVE  ServesOn'
  <2>1. db' = db /\ draft' = draft /\ pc[c] = "writing"
    BY <1>5 DEF KeepUnchanged
  <2>2. SearchExact(draft')
    BY <1>0, <2>1
  <2> QED
    BY <1>0, <1>5, <2>1, <2>2, KeepUnchangedInScope, SyncStatementServesOn
<1>6. ASSUME NEW path \in Paths, WriteDocument(c, path)
      PROVE  ServesOn'
  BY <1>0, <1>6, WriteDocumentServesOn
<1>7. ASSUME NEW path \in Paths, DeleteMissing(c, path)
      PROVE  ServesOn'
  <2>1. db' = db /\ draft' = WithoutDocument(draft, Doc(c, path)) /\ pc[c] = "writing"
    BY <1>7 DEF DeleteMissing, Execute
  <2>2. Doc(c, path) \in Documents
    BY <1>0, <2>1 DEF CallInProgress, Doc, Calls, Documents
  <2>3. SearchExact(draft')
    BY <1>0, <2>1, <2>2, RemovedStaysExact
  <2> QED
    BY <1>0, <1>7, <2>1, <2>3, DeleteMissingInScope, SyncStatementServesOn
<1>8. CASE CommitSync(c)
  BY <1>0, <1>8, CommitSyncServesOn
<1> QED
  BY <1>1, <1>3, <1>4, <1>5, <1>6, <1>7, <1>8 DEF SyncGoesOn, SyncStep

\* The table is dropped only to be replaced by one of another dimension than
\* recorded, or where there was none.
LEMMA LookingServesOn ==
    ASSUME OneProcess, ServingInvariant, NEW c \in Connections,
           LookUpState(c) \/ LookUpTable(c)
    PROVE  ServesOn'
<1>0. /\ RebuildTypeOK /\ pc[c] = "idle" /\ Undisturbed(c) /\ KeepsServing(c)
      /\ db' = db /\ pc' = pc /\ provider' = provider
  BY RebuildTypes DEF ServingInvariant, LoneInvariant, RebuildInvariant, LookUpState,
                      LookUpTable, vars
<1>1. CASE LookUpState(c)
  <2>1. step[c] = "embedded" /\ step'[c] = "lookedUp"
    BY <1>0, <1>1 DEF LookUpState, GoTo, RebuildTypeOK
  <2> QED
    BY <1>0, <2>1 DEF OneProcess, ServingInvariant, KeepsServing, ServesOn, SearchExact,
                      Serves, TransactionScope
<1>2. CASE LookUpTable(c)
  <2>1. step[c] = "lookedUp" /\ step'[c] = IF TableFits(c) THEN "replacing" ELSE "dropping"
    BY <1>0, <1>2 DEF LookUpTable, GoTo, RebuildTypeOK
  <2>2. db.state # None => db.vecDim # 0 /\ seen[c] = db.state.dimension
    BY <1>0, <2>1 DEF KeepsServing, Undisturbed
  <2>3. step'[c] = "dropping" /\ db.state # None => db.state.dimension # provider[c].dimension
    BY <2>1, <2>2 DEF TableFits
  <2> QED
    BY <1>0, <2>1, <2>2, <2>3 DEF OneProcess, ServingInvariant, KeepsServing, ServesOn,
                                  SearchExact, Serves, TransactionScope
<1> QED
  BY <1>1, <1>2

\* What the one process finds of its own when it executes a schema statement.
LEMMA SchemaStepFacts ==
    ASSUME ServingInvariant, NEW c \in Connections, step[c] \in {"dropping", "creating"}
    PROVE  /\ RebuildTypeOK /\ db \in Tables /\ pc[c] = "idle"
           /\ provider[c].dimension \in Nat \ {0}
           /\ db.state # None => /\ db.state.dimension \in Nat \ {0}
                                 /\ db.state.dimension # provider[c].dimension
<1>1. RebuildInvariant /\ KeepsServing(c)
  BY DEF ServingInvariant, LoneInvariant
<1>2. /\ RebuildTypeOK /\ db \in Tables /\ pc[c] = "idle"
      /\ provider[c].dimension \in Dimensions
  BY <1>1, RebuildTypes DEF RebuildInvariant
<1> QED
  BY <1>1, <1>2, SyncAssumption DEF KeepsServing, Tables, IndexStates

LEMMA DropTableServesOn ==
    ASSUME OneProcess, ServingInvariant, NEW c \in Connections, DropTable(c)
    PROVE  ServesOn' /\ db'.documents = db.documents
<1>1. /\ step[c] = "dropping" /\ db' = Dropped /\ pc' = pc /\ provider' = provider
  BY DEF DropTable, ExecuteSchema, syncVars
<1>2. /\ RebuildTypeOK /\ db \in Tables /\ pc[c] = "idle"
      /\ db.state # None => /\ db.state.dimension \in Nat \ {0}
                            /\ db.state.dimension # provider[c].dimension
  BY <1>1, SchemaStepFacts
<1>3. step'[c] = "creating"
  BY <1>2 DEF DropTable, GoTo, RebuildTypeOK
<1>4. /\ Dropped.vec = NoVectors /\ Dropped.vecDim = 0 /\ Dropped.state = db.state
      /\ Dropped.documents = db.documents
  BY <1>2 DEF Dropped, Tables
<1> HIDE DEF Dropped
<1>5. SearchExact(db')
  BY <1>1, <1>2, <1>4, OutOfServiceExact DEF Serves
<1>6. KeepsServing(c)'
  BY <1>1, <1>2, <1>3, <1>4 DEF KeepsServing, TransactionScope
<1> QED
  BY <1>1, <1>4, <1>5, <1>6 DEF OneProcess, ServesOn, SearchExact, Serves

LEMMA CreateTableServesOn ==
    ASSUME OneProcess, ServingInvariant, NEW c \in Connections, CreateTable(c)
    PROVE  ServesOn' /\ db'.documents = db.documents
<1> DEFINE W == [db EXCEPT !.vecDim = provider[c].dimension]
<1>1. /\ step[c] = "creating" /\ db.vecDim = 0 /\ db' = W /\ pc' = pc /\ provider' = provider
  BY DEF CreateTable, ExecuteSchema, syncVars
<1>2. /\ RebuildTypeOK /\ db \in Tables /\ pc[c] = "idle"
      /\ provider[c].dimension \in Nat \ {0}
      /\ db.state # None => /\ db.state.dimension \in Nat \ {0}
                            /\ db.state.dimension # provider[c].dimension
  BY <1>1, SchemaStepFacts
<1>3. step'[c] = "replacing"
  BY <1>2 DEF CreateTable, GoTo, RebuildTypeOK
<1>4. /\ W.documents = db.documents /\ W.chunks = db.chunks
      /\ W.vec = db.vec /\ W.state = db.state /\ W.vecDim = provider[c].dimension
  BY <1>2 DEF Tables
<1> HIDE DEF W
<1>5. ~Serves(db) /\ ~Serves(db')
  BY <1>1, <1>2, <1>4 DEF Serves
<1>6. SearchExact(db')
  BY <1>1, <1>4, <1>5 DEF ServingInvariant, SearchExact
<1>7. KeepsServing(c)'
  BY <1>1, <1>2, <1>3, <1>4 DEF KeepsServing, TransactionScope
<1> QED
  BY <1>1, <1>4, <1>5, <1>6, <1>7 DEF OneProcess, ServesOn, SearchExact, Serves

\* The vectors a rebuild puts into its transaction are those of the chunks
\* stored, or there is no chunk.
LEMMA TransactionServesOn ==
    ASSUME OneProcess, ServingInvariant, NEW c \in Connections,
           ClearVectors(c) \/ InsertVectorsAndState(c)
    PROVE  ServesOn'
<1>0. /\ RebuildTypeOK /\ db \in Tables /\ draft \in Tables /\ pc[c] = "idle"
      /\ Undisturbed(c) /\ KeepsServing(c) /\ RebuildInProgress(c)
      /\ db' = db /\ pc' = pc
  <2>1. RebuildInvariant /\ Undisturbed(c) /\ KeepsServing(c) /\ step[c] # "idle"
    BY DEF ServingInvariant, LoneInvariant, ClearVectors, InsertVectorsAndState
  <2> QED
    BY <2>1, RebuildTypes DEF RebuildInvariant, ClearVectors, InsertVectorsAndState, Execute,
                              syncVars
<1>1. ASSUME KeepsServing(c)' PROVE ServesOn'
  BY <1>0, <1>1 DEF OneProcess, ServingInvariant, ServesOn, SearchExact, Serves
<1>2. CASE ClearVectors(c)
  <2>1. step[c] = "replacing" /\ step'[c] = "inserting" /\ draft' = Cleared
    BY <1>0, <1>2 DEF ClearVectors, Execute, GoTo, RebuildTypeOK
  <2>2. Cleared.documents = db.documents
    BY <1>0 DEF Cleared, Tables
  <2> HIDE DEF Cleared
  <2>3. KeepsServing(c)'
    BY <1>0, <2>1, <2>2 DEF KeepsServing, TransactionScope
  <2> QED
    BY <1>1, <2>3
<1>3. CASE InsertVectorsAndState(c)
  <2> DEFINE W == Refilled(c)
  <2>1. /\ step[c] = "inserting" /\ step'[c] = "committing" /\ draft' = W /\ Insertable(c)
    BY <1>0, <1>3 DEF InsertVectorsAndState, Execute, GoTo, RebuildTypeOK
  <2>2. /\ draft.documents = db.documents /\ draft.chunks = db.chunks /\ rows[c] = db.chunks
        /\ draft.vec = NoVectors /\ draft.vecDim # 0
    BY <1>0, <2>1 DEF KeepsServing, Undisturbed, RebuildInProgress
  <2>3. /\ W.documents = draft.documents /\ W.chunks = draft.chunks
        /\ W.vecDim = draft.vecDim
        /\ W.state = [fingerprint |-> EmbeddingFingerprint(provider[c]),
                      dimension |-> provider[c].dimension]
        /\ \A k \in Chunks : W.vec[k] =
              IF rows[c][k] = None THEN draft.vec[k]
              ELSE Embedding(EmbeddingFingerprint(provider[c]), rows[c][k])
    BY <1>0 DEF Refilled, Tables
  <2>4. W.state # None
    BY <2>1, RefilledEffect DEF ServingInvariant, LoneInvariant
  <2> HIDE DEF W
  <2>5. SearchExact(W)
    <3> SUFFICES ASSUME NEW k \in Chunks
                 PROVE  W.vec[k] = IF ~Serves(W) \/ W.chunks[k] = None THEN None
                                   ELSE Embedding(W.state.fingerprint, W.chunks[k])
      BY DEF SearchExact
    <3>1. CASE rows[c][k] = None
      <4>1. W.vec[k] = None /\ W.chunks[k] = None
        BY <2>2, <2>3, <3>1 DEF NoVectors
      <4> QED
        BY <4>1
    <3>2. CASE rows[c][k] # None
      <4>1. Serves(W)
        BY <2>1, <2>3, <2>4, <3>2 DEF Insertable, Embedded, Serves
      <4>2. W.vec[k] = Embedding(W.state.fingerprint, W.chunks[k]) /\ W.chunks[k] # None
        BY <2>2, <2>3, <3>2
      <4> QED
        BY <4>1, <4>2
    <3> QED
      BY <3>1, <3>2
  <2>6. KeepsServing(c)'
    <3>1. SearchExact(draft)'
      BY <2>1, <2>5 DEF SearchExact, Serves
    <3> QED
      BY <1>0, <2>1, <2>2, <2>3, <3>1 DEF KeepsServing, TransactionScope
  <2> QED
    BY <1>1, <2>6
<1> QED
  BY <1>2, <1>3

\* A recorded index comes with its table.
LEMMA CommitRebuildServesOn ==
    ASSUME OneProcess, ServingInvariant, NEW c \in Connections, CommitRebuild(c)
    PROVE  ServesOn' /\ db'.documents = db.documents
<1>0. /\ RebuildTypeOK /\ pc[c] = "idle" /\ KeepsServing(c)
      /\ step[c] = "committing" /\ db' = draft /\ pc' = pc /\ SearchExact(draft)
  <2>1. RebuildInvariant /\ KeepsServing(c) /\ step[c] = "committing"
    BY DEF ServingInvariant, LoneInvariant, CommitRebuild
  <2> QED
    BY <2>1, RebuildTypes DEF RebuildInvariant, CommitRebuild, Commit, syncVars, KeepsServing
<1>1. step'[c] = "idle"
  BY <1>0 DEF CommitRebuild, EndRebuild, GoTo, RebuildTypeOK
<1>2. db'.documents = db.documents
  BY <1>0 DEF KeepsServing
<1>3. draft.vecDim # 0
  BY <1>0 DEF KeepsServing
<1>4. KeepsServing(c)'
  BY <1>0, <1>1, <1>3 DEF KeepsServing, TransactionScope
<1> QED
  BY <1>0, <1>2, <1>4 DEF OneProcess, ServesOn, SearchExact, Serves

\* A rebuild that ends without a commit does not end in the gap: nobody else
\* has made the table, and nobody else holds the lock.
LEMMA FailedRebuildServesOn ==
    ASSUME OneProcess, NeverDiesInTheGap, ServingInvariant, NEW c \in Connections,
           RefuseRebuild(c) \/ RebuildLockTimeout(c) \/ AbortRebuild(c)
    PROVE  ServesOn' /\ db' = db
<1>0. RebuildInvariant /\ Undisturbed(c) /\ step[c] # "idle"
  BY RebuildAssumption DEF ServingInvariant, LoneInvariant, RefuseRebuild, Refused,
                           RebuildLockTimeout, AbortRebuild
<1>1. RebuildTypeOK /\ pc[c] = "idle"
  BY <1>0, RebuildTypes DEF RebuildInvariant
<1>2. step[c] # "creating"
  BY <1>0, <1>1 DEF OneProcess, NeverDiesInTheGap, Undisturbed, RefuseRebuild, Refused,
                    RebuildLockTimeout, AbortRebuild, Locked, RebuildTypeOK, TypeOK, StoreTypeOK
<1>3. db' = db /\ step'[c] = "idle" /\ pc'[c] = "idle"
  BY <1>1 DEF RefuseRebuild, RebuildLockTimeout, AbortRebuild, Rollback, EndRebuild, GoTo,
              storeVars, syncVars, vars, RebuildTypeOK
<1> QED
  BY <1>2, <1>3, EndingServesOn

LEMMA StartServesOn ==
    ASSUME OneProcess, ServingInvariant, NEW c \in Connections, NEW p \in Providers,
           StartRebuild(c, p)
    PROVE  ServesOn'
<1>1. /\ db' = db /\ pc' = pc /\ pc[c] = "idle" /\ step[c] = "idle" /\ step'[c] = "embedded"
  BY DEF StartRebuild, GoTo, vars, ServingInvariant, LoneInvariant, RebuildInvariant,
         RebuildTypeOK
<1> QED
  BY <1>1 DEF OneProcess, ServingInvariant, KeepsServing, ServesOn, SearchExact, Serves,
              TransactionScope

LEMMA ServingStutters ==
    ASSUME ServingInvariant, UNCHANGED allVars
    PROVE  ServesOn'
BY DEF ServingInvariant, ServesOn, KeepsServing, SearchExact, Serves, TransactionScope,
       Replaced, New, Doc, allVars, vars, rebuildVars

LEMMA ServingNextKeeps ==
    ASSUME OneProcess, NeverDiesInTheGap
    PROVE  ServingInvariant /\ [RebuildNext]_allVars => ServingInvariant'
<1> SUFFICES ASSUME ServingInvariant, [RebuildNext]_allVars PROVE ServesOn'
  BY LoneNextKeeps DEF ServingInvariant, ServesOn
<1>1. ASSUME NEW c \in Connections, RebuildStep(c) PROVE ServesOn'
  BY <1>1, LookingServesOn, DropTableServesOn, CreateTableServesOn, TransactionServesOn,
     CommitRebuildServesOn, FailedRebuildServesOn DEF RebuildStep
<1> QED
  BY <1>1, IngestServesOn, SyncServesOn, StartServesOn, FailedRebuildServesOn, ServingStutters
     DEF RebuildNext, RebuildQuiescent

----------------------------------------------------------------------------
(* The steps as steps of the knowledge base.                               *)

\* What is seen of exact tables is the knowledge base they stand for.
LEMMA ServingIsSeen == ServingInvariant => Seen
BY ViewsAreExact DEF ServingInvariant, LoneInvariant, RebuildInvariant, RebuildTypeOK, TypeOK,
                     StoreTypeOK, Sound

LEMMA ServingIsSeenAfter == ServingInvariant' => Seen'
BY ServingIsSeen, PTL

\* What vector search is answered in after a step.
LEMMA ServedSpaceAfter ==
    /\ ~Serves(db') => ActiveFingerprint' = None
    /\ Serves(db') => ActiveFingerprint' = db'.state.fingerprint
BY DEF Serves, ActiveFingerprint

\* A commit of vectors or a schema statement changes at most what is served.
LEMMA ServiceChanges ==
    ASSUME Seen, Seen', db' \in Tables, db'.documents = db.documents
    PROVE  KB!Next
<1>1. StoredLibrary' = StoredLibrary
  BY DEF StoredLibrary
<1>2. FoundLexically' = FoundLexically
  BY <1>1 DEF Seen, KB!LexicalView
<1>3. db'.vec = KB!SemanticView(FoundLexically, ActiveFingerprint')
  BY <1>2 DEF Seen
<1>4. CASE ~Serves(db')
  <2>1. KB!Deactivate
    BY <1>1, <1>2, <1>3, <1>4, ServedSpaceAfter DEF KB!Deactivate
  <2> QED
    BY <2>1 DEF KB!Next
<1>5. CASE Serves(db')
  <2>1. db'.state.fingerprint \in KB!Fingerprints
    BY <1>5, SharedVocabulary DEF Serves, Tables, IndexStates
  <2>2. KB!Activate(db'.state.fingerprint)
    BY <1>1, <1>2, <1>3, <1>5, ServedSpaceAfter DEF KB!Activate
  <2> QED
    BY <2>1, <2>2 DEF KB!Next
<1> QED
  BY <1>4, <1>5

\* Only these steps change what is committed.
LEMMA OnlyTheseWrite ==
    ASSUME OneProcess, NeverDiesInTheGap, ServingInvariant, [RebuildNext]_allVars
    PROVE  \/ db' = db
           \/ \E c \in Connections : \/ SyncGoesOn(c) /\ CommitSync(c)
                                     \/ DropTable(c)
                                     \/ CreateTable(c)
                                     \/ CommitRebuild(c)
<1>1. ASSUME NEW c \in Connections, SyncStep(c), ~CommitSync(c)
      PROVE  db' = db
  BY <1>1 DEF SyncStep, BeginSync, RejectIncompatible, LockTimeout, KeepUnchanged,
              WriteDocument, RejectWrite, DeleteMissing, RejectDelete, Execute, Rollback,
              storeVars
<1>2. ASSUME NEW c \in Connections, AbortSync(c) PROVE db' = db
  BY <1>2 DEF AbortSync, Abort, Rollback, storeVars
<1>3. ASSUME NEW c \in Connections, RebuildStep(c), ~DropTable(c), ~CreateTable(c),
             ~CommitRebuild(c)
      PROVE  db' = db
  BY <1>3, FailedRebuildServesOn DEF RebuildStep, LookUpState, LookUpTable, ClearVectors,
              InsertVectorsAndState, Execute, vars
<1>4. ASSUME NEW c \in Connections, AbortRebuild(c) PROVE db' = db
  BY <1>4, FailedRebuildServesOn
<1> QED
  BY <1>1, <1>2, <1>3, <1>4 DEF RebuildNext, Ingest, Call, SyncGoesOn, StartRebuild,
                                RebuildQuiescent, allVars, vars

LEMMA RebuildInitRefines == RebuildInit => KB!Init
<1>1. RebuildInit => Init
  BY DEF RebuildInit, Init, InitialTables
<1> QED
  BY <1>1, InitRefines

LEMMA RebuildNextRefines ==
    ASSUME OneProcess, NeverDiesInTheGap
    PROVE  ServingInvariant /\ ServingInvariant' /\ [RebuildNext]_allVars
              => [KB!Next]_(KB!vars)
<1> SUFFICES ASSUME ServingInvariant, ServingInvariant', [RebuildNext]_allVars
             PROVE  [KB!Next]_(KB!vars)
  OBVIOUS
<1>0. Seen /\ Seen' /\ db \in Tables /\ db' \in Tables
  BY ServingIsSeen, ServingIsSeenAfter
     DEF ServingInvariant, LoneInvariant, RebuildInvariant, RebuildTypeOK, TypeOK, StoreTypeOK
<1>1. CASE db' = db
  <2>1. /\ StoredLibrary' = StoredLibrary /\ FoundLexically' = FoundLexically
        /\ ActiveFingerprint' = ActiveFingerprint
    BY <1>1 DEF StoredLibrary, FoundLexically, ActiveFingerprint
  <2> QED
    BY <1>1, <2>1 DEF KB!vars
<1>2. ASSUME NEW c \in Connections, CommitSync(c)
      PROVE  KB!Next
  <2>0. CallInProgress(c) /\ TransactionScope(c)
    BY DEF ServingInvariant, LoneInvariant, RebuildInvariant, KeepsServing
  <2>1. KB!Replace(call[c].source, call[c].incoming, call[c].bound)
    BY <1>0, <1>2, <2>0, CommitReplaces
  <2>2. call[c] \in Calls
    BY <1>2, <2>0, CommittedRows
  <2> QED
    BY <2>1, <2>2 DEF KB!Next, Calls, Snapshots
<1>3. ASSUME NEW c \in Connections, DropTable(c) \/ CreateTable(c) \/ CommitRebuild(c)
      PROVE  KB!Next
  <2>1. db'.documents = db.documents
    BY <1>3, DropTableServesOn, CreateTableServesOn, CommitRebuildServesOn
  <2> QED
    BY <1>0, <2>1, ServiceChanges
<1> QED
  BY <1>1, <1>2, <1>3, OnlyTheseWrite

\* Ingestions and rebuilds of one process, failing and dying anywhere but
\* between DROP TABLE and CREATE VIRTUAL TABLE, implement the knowledge base:
\* sources are replaced in one step, and vector search answers from exactly
\* the stored chunks in one space or is out of service.
THEOREM RebuildImplementsKnowledgeBase ==
    ASSUME OneProcess, NeverDiesInTheGap
    PROVE  RebuildSpec => ImplementsKnowledgeBase
BY ServingInit, ServingNextKeeps, RebuildInitRefines, RebuildNextRefines, PTL
   DEF RebuildSpec, ImplementsKnowledgeBase, KB!Spec

----------------------------------------------------------------------------
(* What a reader finds in the tables.                                      *)

Places == DOMAIN ChunkOrder

\* Matches in which no chunk repeats, each with its chunk's stored text.
ReadOnce(matches) ==
    /\ IsSequence(matches)
    /\ \A i \in DOMAIN matches : matches[i].chunk \in Places
    /\ \A i, j \in DOMAIN matches : matches[i].chunk = matches[j].chunk => i = j
AsStored(matches, chunks) ==
    \A i \in DOMAIN matches : matches[i].version = chunks[ChunkOrder[matches[i].chunk]]

LEMMA PlacesAreNumbers ==
    /\ Len(ChunkOrder) \in Nat /\ Places = 1..Len(ChunkOrder) /\ IsFiniteSet(Places)
    /\ \A i \in Places : ChunkOrder[i] \in Chunks
<1>1. ChunkOrder \in Seq(Chunks)
  BY SessionAssumption
<1>2. Len(ChunkOrder) \in Nat /\ DOMAIN ChunkOrder = 1..Len(ChunkOrder)
  BY <1>1
<1> QED
  BY <1>1, <1>2, FS_Interval DEF Places

\* A list of n entries that are i.
LEMMA NoneOrOne ==
    ASSUME NEW i
    PROVE  [r \in 1..0 |-> i] = <<>> /\ [r \in 1..1 |-> i] = <<i>>
<1>1. 1..0 = {} /\ 1..1 = {1}
  OBVIOUS
<1> QED
  BY <1>1

\* Where chunk_fts has one row per chunk, a lexical search finds no chunk
\* twice.
LEMMA LexicalRankingIsOnce ==
    ASSUME LexicalAgrees(db)
    PROVE  /\ LexicalRanking \in Seq(Places)
           /\ \E D : Enumerates(LexicalRanking, Len(LexicalRanking), D)
<1> DEFINE texts(i) == db.fts[ChunkOrder[i]]
           matches(i) == {r \in DOMAIN texts(i) : texts(i)[r] \in Matching}
           entry(i) == IF HasChunk(i) THEN [r \in 1..Cardinality(matches(i)) |-> i] ELSE <<>>
           seqs == [i \in DOMAIN ChunkOrder |-> entry(i)]
<1>1. ASSUME NEW i \in DOMAIN ChunkOrder
      PROVE  entry(i) = <<>> \/ entry(i) = <<i>>
  <2>1. CASE ~HasChunk(i)
    BY <2>1
  <2>2. CASE HasChunk(i)
    <3>1. ChunkOrder[i] \in Chunks
      BY PlacesAreNumbers DEF Places
    <3>2. texts(i) = <<db.chunks[ChunkOrder[i]]>>
      BY <2>2, <3>1 DEF LexicalAgrees, HasChunk
    <3>3. DOMAIN texts(i) = {1}
      BY <3>2
    <3> HIDE DEF texts
    <3>4. matches(i) = {} \/ matches(i) = {1}
      BY <3>3
    <3>5. Cardinality(matches(i)) = 0 \/ Cardinality(matches(i)) = 1
      BY <3>4, FS_EmptySet, FS_Singleton
    <3>6. entry(i) = [r \in 1..Cardinality(matches(i)) |-> i]
      BY <2>2
    <3> HIDE DEF matches, entry
    <3> QED
      BY <3>5, <3>6, NoneOrOne
  <2> QED
    BY <2>1, <2>2
<1>2. LexicalRanking = FlattenSeq(seqs)
  BY DEF LexicalRanking
<1> HIDE DEF entry
<1>3. DOMAIN seqs = Places /\ \A i \in DOMAIN seqs : seqs[i] = <<>> \/ seqs[i] = <<i>>
  BY <1>1 DEF Places
<1>4. IsSequence(seqs)
  BY PlacesAreNumbers, FunctionIsSequence DEF Places
<1> HIDE DEF seqs
<1>5. /\ FlattenSeq(seqs) \in Seq(Places)
      /\ \E D : Enumerates(FlattenSeq(seqs), Len(FlattenSeq(seqs)), D)
  BY <1>3, <1>4, FlattenEnumerates
<1> QED
  BY <1>2, <1>5

\* A vector search ranks the stored chunks with a vector, each once.
LEMMA VectorRankingIsOnce ==
    /\ VectorRanking \in Seq(Places)
    /\ Enumerates(VectorRanking, Len(VectorRanking),
                  {i \in Places : HasChunk(i) /\ db.vec[ChunkOrder[i]] # None})
<1> DEFINE has(i) == HasChunk(i) /\ db.vec[ChunkOrder[i]] # None
           seqs == [i \in DOMAIN ChunkOrder |-> IF has(i) THEN <<i>> ELSE <<>>]
<1>1. VectorRanking = FlattenSeq(seqs)
  BY DEF VectorRanking
<1> HIDE DEF has
<1>2. /\ DOMAIN seqs = Places
      /\ \A i \in Places : seqs[i] = IF has(i) THEN <<i>> ELSE <<>>
  BY DEF Places
<1>3. IsSequence(seqs)
  BY PlacesAreNumbers, FunctionIsSequence DEF Places
<1> HIDE DEF seqs
<1>4. \A i \in Places : (seqs[i] = <<>> \/ seqs[i] = <<i>>) /\ (seqs[i] # <<>> <=> has(i))
  <2>1. \A i : <<i>> # <<>>
    OBVIOUS
  <2> QED
    BY <1>2, <2>1
<1>5. {i \in Places : seqs[i] # <<>>} = {i \in Places : has(i)}
  BY <1>4
<1>6. /\ FlattenSeq(seqs) \in Seq(Places)
      /\ Enumerates(FlattenSeq(seqs), Len(FlattenSeq(seqs)), {i \in Places : seqs[i] # <<>>})
  BY <1>2, <1>3, <1>4, FlattenEnumerates
<1> QED
  BY <1>1, <1>5, <1>6 DEF has

\* Whatever the order of equally near vectors, the same chunks are ranked,
\* each once.
LEMMA NearestAreOnce ==
    ASSUME NEW order \in Reader!NearestOrders
    PROVE  /\ order \in Seq(Places)
           /\ Enumerates(order, Len(order),
                         {i \in Places : HasChunk(i) /\ db.vec[ChunkOrder[i]] # None})
<1> DEFINE D == {i \in Places : HasChunk(i) /\ db.vec[ChunkOrder[i]] # None}
           r == VectorRanking
<1>1. order \in Reader!Rankings /\ Reader!Ranked(order) = Reader!Ranked(Index.vector)
  BY DEF Reader!NearestOrders
<1>2. Index.vector = r
  BY DEF Index
<1>3. r \in Seq(Places) /\ Enumerates(r, Len(r), D)
  BY VectorRankingIsOnce
<1> HIDE DEF r, D
<1>4. Reader!Ranked(r) = D
  <2>1. DOMAIN r = 1..Len(r) /\ Len(r) \in Nat
    BY <1>3
  <2>2. \A d : d \in D <=> \E i \in 1..Len(r) : r[i] = d
    BY <1>3 DEF Enumerates
  <2> QED
    BY <2>1, <2>2 DEF Reader!Ranked
<1>5. Cardinality(Places) \in Nat
  BY PlacesAreNumbers, FS_CardinalityType
<1>6. PICK n \in Nat : /\ order \in [1..n -> Places]
                       /\ \A i, j \in 1..n : order[i] = order[j] => i = j
  BY <1>1, <1>5 DEF Reader!Rankings, Places
<1>7. order \in Seq(Places) /\ Len(order) = n /\ DOMAIN order = 1..n
  BY <1>6, SeqDef
<1>8. Reader!Ranked(order) = D
  BY <1>1, <1>2, <1>4
<1>9. /\ \A i \in 1..n : order[i] \in D
      /\ \A d \in D : \E i \in 1..n : order[i] = d
  BY <1>7, <1>8 DEF Reader!Ranked
<1>10. Enumerates(order, n, D)
  BY <1>6, <1>7, <1>9 DEF Enumerates
<1> QED
  BY <1>7, <1>10 DEF D

\* What a component reads of a ranking in which no chunk repeats.
LEMMA ReadsAreOnce ==
    ASSUME NEW r \in Seq(Places), NEW D, Enumerates(r, Len(r), D), NEW n \in Nat
    PROVE  LET matches == Reader!Prefix(Reader!Read(r), n)
           IN  /\ ReadOnce(matches) /\ AsStored(matches, db.chunks)
               /\ Len(matches) = IF Len(r) < n THEN Len(r) ELSE n
<1> DEFINE row(i) == [chunk |-> r[i], version |-> db.chunks[ChunkOrder[r[i]]]]
           found == [i \in 1..Len(r) |-> row(i)]
           m == IF Len(r) < n THEN Len(r) ELSE n
           matches == Reader!Prefix(Reader!Read(r), n)
<1>1. Len(r) \in Nat /\ DOMAIN r = 1..Len(r) /\ \A i \in 1..Len(r) : r[i] \in Places
  OBVIOUS
<1>2. \A i, j \in 1..Len(r) : r[i] = r[j] => i = j
  BY DEF Enumerates
<1>3. Reader!Read(r) = found
  <2>1. \A i \in 1..Len(r) : Index.version[r[i]] = db.chunks[ChunkOrder[r[i]]]
    BY <1>1 DEF Index, Places
  <2>2. Reader!Read(r) = [i \in DOMAIN r |-> [chunk |-> r[i], version |-> Index.version[r[i]]]]
    BY DEF Reader!Read
  <2> HIDE DEF Index
  <2> QED
    BY <1>1, <2>1, <2>2
<1>4. IsSequence(found) /\ Len(found) = Len(r) /\ \A i \in 1..Len(r) : found[i] = row(i)
  <2>1. DOMAIN found = 1..Len(r) /\ \A i \in 1..Len(r) : found[i] = row(i)
    OBVIOUS
  <2>2. found = [i \in 1..Len(r) |-> found[i]]
    OBVIOUS
  <2> HIDE DEF found, row
  <2> QED
    BY <1>1, <2>1, <2>2, FunctionIsSequence
<1>5. m \in Nat /\ m <= Len(r)
  BY <1>1
<1>6. matches = SubSeq(found, 1, m)
  <2> HIDE DEF found
  <2> QED
    BY <1>3, <1>4 DEF Reader!Prefix
<1> HIDE DEF found, m, matches
<1>7. /\ IsSequence(matches) /\ Len(matches) = m
      /\ \A i \in 1..m : matches[i] = found[i]
  <2>1. 1 \in Nat \ {0} /\ 1 <= m + 1 /\ (m - 1) + 1 = m /\ \A i \in 1..m : 1 + i - 1 = i
    BY <1>5
  <2>2. /\ IsSequence(SubSeq(found, 1, m)) /\ Len(SubSeq(found, 1, m)) = m - 1 + 1
        /\ \A i \in 1..(m - 1 + 1) : SubSeq(found, 1, m)[i] = found[1 + i - 1]
    BY <1>4, <1>5, <2>1, SubSequence
  <2> QED
    BY <1>6, <2>1, <2>2
<1>8. /\ DOMAIN matches = 1..m
      /\ \A i \in 1..m : i \in 1..Len(r) /\ matches[i] = row(i)
  <2>1. DOMAIN matches = 1..m
    BY <1>7, SequenceShape
  <2>2. \A i \in 1..m : i \in 1..Len(r)
    BY <1>1, <1>5
  <2>3. \A i \in 1..m : matches[i] = row(i)
    BY <1>4, <1>7, <2>2
  <2> QED
    BY <2>1, <2>2, <2>3
<1>9. ReadOnce(matches) /\ AsStored(matches, db.chunks)
  BY <1>1, <1>2, <1>7, <1>8 DEF ReadOnce, AsStored
<1> QED
  BY <1>7, <1>9 DEF m, matches

----------------------------------------------------------------------------
(* A reader beside everybody else.                                         *)

\* A request in progress is one that can be made, and nothing is answered.
RequestUnderWay ==
    /\ reading \in {"idle", "lexical", "vectorState", "vector", "answer"}
    /\ reading # "idle" =>
          /\ request \in [strategy : Reader!Strategies, max : Nat]
          /\ answer = Reader!NoAnswer

\* What has been read repeats no chunk; unless others have committed, its
\* texts are the stored ones; and fusion has not failed.
WhatWasRead ==
    /\ reading \in {"idle", "lexical"} => lexical = <<>>
    /\ reading # "answer" => vector = <<>>
    /\ ReadOnce(lexical) /\ ReadOnce(vector)
    /\ steady /\ reading # "idle" => AsStored(lexical, db.chunks) /\ AsStored(vector, db.chunks)
    /\ answer.status = "HybridFusionError" => ~steady

SessionInvariant == RebuildInvariant /\ RequestUnderWay /\ WhatWasRead

LEMMA NothingReadOnce ==
    ReadOnce(<<>>) /\ \A chunks : AsStored(<<>>, chunks)
<1>1. DOMAIN <<>> = {}
  OBVIOUS
<1> QED
  BY <1>1, EmptyIsSequence DEF ReadOnce, AsStored

LEMMA NothingIsNoFailure == Reader!NoAnswer.status = "none"
BY DEF Reader!NoAnswer, Reader!Without

LEMMA SessionInitEstablishes == SessionInit => SessionInvariant
BY RebuildInitEstablishes, NothingReadOnce, NothingIsNoFailure
   DEF SessionInit, SessionInvariant, RequestUnderWay, WhatWasRead

\* A component is asked for a number of candidates.
LEMMA LimitsAreNumbers ==
    ASSUME request \in [strategy : Reader!Strategies, max : Nat]
    PROVE  Reader!ComponentLimit \in Nat
<1>1. /\ request.max \in Nat /\ request.max + 1 \in Nat
      /\ Multiplier \in Nat /\ MaxInternal \in Nat
      /\ (request.max + 1) * Multiplier \in Nat
  BY SessionAssumption
<1> QED
  BY <1>1 DEF Reader!ComponentLimit, Reader!CandidateLimit, Reader!Probe

\* Two reads of the same tables, neither of which repeats a chunk, can be
\* fused.
LEMMA SteadyReadsFuse ==
    ASSUME ReadOnce(lexical), ReadOnce(vector),
           AsStored(lexical, db.chunks), AsStored(vector, db.chunks)
    PROVE  ~Reader!FusionFails(lexical, vector)
<1>1. ~Reader!Duplicated(lexical) /\ ~Reader!Duplicated(vector)
  BY DEF ReadOnce, Reader!Duplicated
<1>2. ~Reader!Disagree(lexical, vector)
  BY DEF AsStored, Reader!Disagree
<1> QED
  BY <1>1, <1>2 DEF Reader!FusionFails

\* The tables stay as they are while the reader moves.
LEMMA TablesKept ==
    ASSUME RebuildInvariant, UNCHANGED allVars
    PROVE  RebuildInvariant' /\ db' = db
BY RebuildNextKeeps DEF allVars, vars

LEMMA BeginRequestKeeps ==
    ASSUME SessionInvariant, NEW strategy \in Reader!Strategies, NEW max \in 0..MaxPublic + 1,
           BeginRequest(strategy, max)
    PROVE  SessionInvariant'
<1>1. /\ reading = "idle" /\ answer' = Reader!NoAnswer /\ UNCHANGED <<allVars, lexical, vector>>
      /\ request' = [strategy |-> strategy, max |-> max]
      /\ reading' = IF strategy = "vector" THEN "vectorState" ELSE "lexical"
  BY DEF BeginRequest, Reader!Search, Reader!Begin
<1>2. RebuildInvariant' /\ lexical = <<>> /\ vector = <<>>
  BY <1>1, TablesKept DEF SessionInvariant, WhatWasRead
<1>3. RequestUnderWay'
  BY <1>1, SessionAssumption DEF RequestUnderWay
<1>4. WhatWasRead'
  BY <1>1, <1>2, NothingReadOnce, NothingIsNoFailure DEF WhatWasRead
<1> QED
  BY <1>2, <1>3, <1>4 DEF SessionInvariant

LEMMA ReadLexicalKeeps ==
    ASSUME SessionInvariant, ReadLexical
    PROVE  SessionInvariant'
<1> DEFINE matches == Reader!Prefix(Reader!Read(LexicalRanking), Reader!ComponentLimit)
<1>1. /\ reading = "lexical" /\ lexical' = matches /\ UNCHANGED <<allVars, vector, answer, request>>
      /\ reading' = IF request.strategy = "hybrid" THEN "vectorState" ELSE "answer"
  <2>1. Index.lexical = LexicalRanking
    BY DEF Index
  <2> QED
    BY <2>1 DEF ReadLexical, Reader!ReadLexical, Reader!readVars
<1>2. RebuildInvariant' /\ db' = db /\ vector = <<>>
  BY <1>1, TablesKept DEF SessionInvariant, WhatWasRead
<1>3. RequestUnderWay' /\ answer = Reader!NoAnswer
  BY <1>1 DEF SessionInvariant, RequestUnderWay
<1>4. ReadOnce(matches) /\ AsStored(matches, db.chunks)
  <2>1. LexicalAgrees(db)
    BY DEF SessionInvariant, RebuildInvariant, Sound
  <2>2. Reader!ComponentLimit \in Nat
    BY <1>1, LimitsAreNumbers DEF SessionInvariant, RequestUnderWay
  <2>3. PICK D : Enumerates(LexicalRanking, Len(LexicalRanking), D)
    BY <2>1, LexicalRankingIsOnce
  <2>4. LexicalRanking \in Seq(Places)
    BY <2>1, LexicalRankingIsOnce
  <2> QED
    BY <2>2, <2>3, <2>4, ReadsAreOnce
<1> HIDE DEF matches
<1>5. WhatWasRead'
  BY <1>1, <1>2, <1>3, <1>4, NothingReadOnce, NothingIsNoFailure DEF WhatWasRead
<1> QED
  BY <1>2, <1>3, <1>5 DEF SessionInvariant

LEMMA ReadVectorsKeeps ==
    ASSUME SessionInvariant, ReadVectors
    PROVE  SessionInvariant'
<1>0. PICK order \in Reader!NearestOrders :
         vector' = Reader!Prefix(Reader!Read(order), Reader!ComponentLimit)
  BY DEF ReadVectors, Reader!ReadVectors
<1> DEFINE matches == Reader!Prefix(Reader!Read(order), Reader!ComponentLimit)
<1>1. /\ reading = "vector" /\ vector' = matches /\ reading' = "answer"
      /\ UNCHANGED <<allVars, lexical, answer, request, steady>>
  BY <1>0 DEF ReadVectors, Reader!ReadVectors, Reader!readVars
<1>2. RebuildInvariant' /\ db' = db
  BY <1>1, TablesKept DEF SessionInvariant
<1>3. RequestUnderWay'
  BY <1>1 DEF SessionInvariant, RequestUnderWay
<1>4. ReadOnce(matches) /\ AsStored(matches, db.chunks)
  <2>1. Reader!ComponentLimit \in Nat
    BY <1>1, LimitsAreNumbers DEF SessionInvariant, RequestUnderWay
  <2> QED
    BY <2>1, NearestAreOnce, ReadsAreOnce
<1> HIDE DEF matches
<1>5. WhatWasRead'
  BY <1>1, <1>2, <1>4 DEF SessionInvariant, WhatWasRead
<1> QED
  BY <1>2, <1>3, <1>5 DEF SessionInvariant

\* A request ends in an answer, or an error that is expected, or in
\* components that could not be fused.
LEMMA RequestsEnd ==
    ASSUME SessionInvariant,
           Refuse \/ RejectVectorState \/ RejectQuery \/ FailRead \/ Answer \/ FailFusion
    PROVE  SessionInvariant'
<1>1. /\ reading # "idle" /\ reading' = "idle" /\ lexical' = <<>> /\ vector' = <<>>
      /\ UNCHANGED <<allVars, request, steady>>
  BY DEF Refuse, RejectVectorState, RejectQuery, FailRead, Answer, FailFusion, Reader!Refuse,
         Reader!RejectVectorState, Reader!RejectQuery, Reader!FailRead, Reader!Answer,
         Reader!FailFusion, Reader!End, Reader!readVars
<1>2. RebuildInvariant' /\ db' = db
  BY <1>1, TablesKept DEF SessionInvariant
<1>3. RequestUnderWay'
  BY <1>1 DEF RequestUnderWay
<1>4. answer'.status = "HybridFusionError" => ~steady
  <2>1. CASE Refuse \/ RejectVectorState \/ RejectQuery
    BY <2>1 DEF Refuse, RejectVectorState, RejectQuery, Reader!Refuse, Reader!RejectVectorState,
                Reader!RejectQuery, Reader!End, Reader!Without
  <2>2. CASE FailRead
    <3>1. answer'.status \in {"IndexUnavailableError", "EmbeddingError", "sqlite3.Error",
                              "VectorIndexUnavailableError"}
      BY <2>2 DEF FailRead, Reader!FailRead, Reader!End, Reader!Without
    <3> QED
      BY <3>1
  <2>3. CASE Answer
    <3>1. answer'.status \in {"empty", "partial", "success"}
      BY <2>3 DEF Answer, Reader!Answer, Reader!End, Reader!BuildResult
    <3> QED
      BY <3>1
  <2>4. CASE FailFusion
    BY <1>1, <2>4, SteadyReadsFuse
       DEF FailFusion, Reader!FailFusion, SessionInvariant, WhatWasRead
  <2> QED
    BY <2>1, <2>2, <2>3, <2>4
<1>5. WhatWasRead'
  BY <1>1, <1>4, NothingReadOnce DEF WhatWasRead
<1> QED
  BY <1>2, <1>3, <1>5 DEF SessionInvariant

\* A request that never began has no reads.
LEMMA RejectStrategyKeeps ==
    ASSUME SessionInvariant, RejectStrategy
    PROVE  SessionInvariant'
<1>1. /\ reading = "idle" /\ answer' = Reader!Without("ValueError")
      /\ UNCHANGED <<allVars, reading, lexical, vector>>
  BY DEF RejectStrategy
<1>2. RebuildInvariant' /\ db' = db
  BY <1>1, TablesKept DEF SessionInvariant
<1>3. answer'.status = "ValueError"
  BY <1>1 DEF Reader!Without
<1> QED
  BY <1>1, <1>2, <1>3 DEF SessionInvariant, RequestUnderWay, WhatWasRead

LEMMA CheckAndDeliverKeep ==
    ASSUME SessionInvariant, CheckVectorState \/ Deliver
    PROVE  SessionInvariant'
<1>1. CASE CheckVectorState
  <2>1. /\ reading = "vectorState" /\ reading' = "vector"
        /\ UNCHANGED <<allVars, request, steady, lexical, vector, answer>>
    BY <1>1 DEF CheckVectorState, Reader!CheckVectorState
  <2>2. RebuildInvariant' /\ db' = db
    BY <2>1, TablesKept DEF SessionInvariant
  <2> QED
    BY <2>1, <2>2 DEF SessionInvariant, RequestUnderWay, WhatWasRead
<1>2. CASE Deliver
  <2>1. /\ reading = "idle" /\ answer' = Reader!NoAnswer
        /\ UNCHANGED <<allVars, reading, lexical, vector>>
    BY <1>2 DEF Deliver
  <2>2. RebuildInvariant' /\ db' = db
    BY <2>1, TablesKept DEF SessionInvariant
  <2> QED
    BY <2>1, <2>2, NothingIsNoFailure DEF SessionInvariant, RequestUnderWay, WhatWasRead
<1> QED
  BY <1>1, <1>2

LEMMA OthersStepKeeps ==
    ASSUME SessionInvariant, OthersStep
    PROVE  SessionInvariant'
<1>1. /\ UNCHANGED <<reading, request, lexical, vector, answer>>
      /\ steady' = (steady /\ (reading = "idle" \/ db' = db))
  BY DEF OthersStep, readerVars
<1>2. RebuildInvariant'
  BY RebuildNextKeeps DEF OthersStep, SessionInvariant
<1>3. steady' => steady /\ (reading = "idle" \/ db' = db)
  BY <1>1
<1>4. RequestUnderWay'
  BY <1>1 DEF SessionInvariant, RequestUnderWay, Reader!Strategies, Reader!NoAnswer,
              Reader!Without
<1>5. WhatWasRead'
  BY <1>1, <1>3 DEF SessionInvariant, WhatWasRead
<1> QED
  BY <1>2, <1>4, <1>5 DEF SessionInvariant

LEMMA SessionNextKeeps == SessionInvariant /\ [SessionNext]_sessionVars => SessionInvariant'
<1> SUFFICES ASSUME SessionInvariant, [SessionNext]_sessionVars PROVE SessionInvariant'
  OBVIOUS
<1>1. ASSUME UNCHANGED sessionVars PROVE SessionInvariant'
  <2>1. UNCHANGED <<allVars, reading, request, lexical, vector, answer, steady>>
    BY <1>1 DEF sessionVars, readerVars
  <2>2. RebuildInvariant' /\ db' = db
    BY <2>1, TablesKept DEF SessionInvariant
  <2> QED
    BY <2>1, <2>2 DEF SessionInvariant, RequestUnderWay, WhatWasRead
<1> QED
  BY <1>1, BeginRequestKeeps, RejectStrategyKeeps, ReadLexicalKeeps, ReadVectorsKeeps,
     RequestsEnd, CheckAndDeliverKeep, OthersStepKeeps DEF SessionNext

\* What is true of searches beside syncs and rebuilds of other processes:
\* what a request has read repeats no chunk, and is as stored unless there
\* has been a commit since its first read.
THEOREM SessionInvariance == SessionSpec => []SessionInvariant
BY SessionInitEstablishes, SessionNextKeeps, PTL DEF SessionSpec

\* A caller hears that fusion failed only where a commit fell between two
\* reads of the request, for any number of processes that sync and rebuild,
\* and die, however they interleave, and whatever other reads fail.
THEOREM FusionFailuresNeedCommits == SessionSpec => FusionFailuresFollowCommits
<1>1. SessionInvariant /\ [SessionNext]_sessionVars =>
         [Deliver /\ answer.status = "HybridFusionError" => ~steady]_sessionVars
  BY DEF SessionInvariant, WhatWasRead
<1> QED
  BY SessionInvariance, <1>1, PTL DEF SessionSpec, FusionFailuresFollowCommits
----------------------------------------------------------------------------
(* A reader beside one process that refreshes.                             *)

\* While a request is served, its space stays the recorded one.
ServedHolds == (served => InService) /\ session \in Fingerprints

ServedInvariant == SessionInvariant /\ ServingInvariant /\ ServedHolds

\* What holds of an index in service.
LEMMA ServiceFacts ==
    ASSUME ServingInvariant, ActiveFingerprint = session, session \in Fingerprints
    PROVE  /\ db.state # None /\ Serves(db) /\ db.state.fingerprint = session
           /\ db.vecDim = session[2]
<1>1. session # None
  BY AbsenceAssumption
<1>2. db.state # None /\ db.vecDim = db.state.dimension /\ db.state.fingerprint = session
  BY <1>1 DEF ActiveFingerprint
<1>3. SpaceNamed(db)
  BY DEF ServingInvariant, LoneInvariant, RebuildInvariant, Sound
<1> QED
  BY <1>2, <1>3 DEF Serves, SpaceNamed

\* A refresh replaces no table, and records the space there was.
LEMMA RefreshStaysInService ==
    ASSUME OneProcess, NeverDiesInTheGap, ServingInvariant, InService, session \in Fingerprints,
           session' = session, [RebuildNext]_allVars
    PROVE  ActiveFingerprint' = session
<1>0. /\ db.state # None /\ db.state.fingerprint = session /\ db.vecDim = session[2]
      /\ db.state.dimension = session[2]
  BY ServiceFacts DEF InService, Serves
<1>1. CASE db' = db
  BY <1>1 DEF ActiveFingerprint, InService
<1>2. ASSUME NEW c \in Connections, CommitSync(c)
      PROVE  ActiveFingerprint' = session
  <2>1. db'.state = db.state /\ db'.vecDim = db.vecDim
    BY <1>2 DEF CommitSync, Commit, ServingInvariant, KeepsServing, TransactionScope
  <2> QED
    BY <2>1 DEF ActiveFingerprint, InService
<1>3. ASSUME NEW c \in Connections, step[c] # "idle"
      PROVE  provider[c] \in Providers /\ provider[c].dimension = session[2]
             /\ EmbeddingFingerprint(provider[c]) = session
  <2>1. EmbeddingFingerprint(provider[c]) = session
    BY <1>3 DEF InService, OnlyRefreshing
  <2>2. provider[c] \in Providers
    BY <1>3 DEF ServingInvariant, LoneInvariant, RebuildInvariant, RebuildInProgress
  <2> QED
    BY <2>1, <2>2 DEF EmbeddingFingerprint
<1>4. ASSUME NEW c \in Connections, DropTable(c) \/ CreateTable(c)
      PROVE  FALSE
  <2>1. step[c] \in {"dropping", "creating"}
    BY <1>4 DEF DropTable, CreateTable
  <2>2. db.state.dimension # provider[c].dimension
    BY <1>0, <2>1 DEF ServingInvariant, KeepsServing
  <2> QED
    BY <1>0, <1>3, <2>1, <2>2
<1>5. ASSUME NEW c \in Connections, CommitRebuild(c)
      PROVE  ActiveFingerprint' = session
  <2>1. step[c] = "committing" /\ db' = draft
    BY <1>5 DEF CommitRebuild, Commit
  <2>2. /\ draft.state # None /\ draft.state.fingerprint = EmbeddingFingerprint(provider[c])
        /\ SpaceNamed(draft) /\ draft.vecDim = db.vecDim
    BY <2>1 DEF ServingInvariant, LoneInvariant, RebuildInvariant, RebuildInProgress, Sound,
                Undisturbed
  <2>3. draft.state.fingerprint = session /\ draft.state.dimension = session[2]
    BY <1>3, <2>1, <2>2 DEF SpaceNamed
  <2> QED
    BY <1>0, <2>1, <2>2, <2>3 DEF ActiveFingerprint
<1> QED
  BY <1>1, <1>2, <1>4, <1>5, OnlyTheseWrite

LEMMA ServedInitEstablishes == SessionInit => ServedInvariant
BY SessionInitEstablishes, ServingInit DEF SessionInit, ServedInvariant, ServedHolds

\* The reader writes nothing.
LEMMA ReadersOnlyRead ==
    ASSUME OneProcess, NeverDiesInTheGap, ServedInvariant, UNCHANGED <<allVars, session>>
    PROVE  /\ ServingInvariant' /\ (InService <=> InService')
           /\ (served' => served) => ServedHolds'
<1>1. ServingInvariant'
  BY ServingNextKeeps DEF ServedInvariant
<1>2. ActiveFingerprint' = ActiveFingerprint /\ (OnlyRefreshing <=> OnlyRefreshing')
  BY DEF ActiveFingerprint, OnlyRefreshing, allVars, vars, rebuildVars
<1> QED
  BY <1>1, <1>2 DEF InService, ServedInvariant, ServedHolds

LEMMA ServedNextKeeps ==
    ASSUME OneProcess, NeverDiesInTheGap
    PROVE  ServedInvariant /\ [SessionNext]_sessionVars => ServedInvariant'
<1> SUFFICES ASSUME ServedInvariant, [SessionNext]_sessionVars PROVE ServedInvariant'
  OBVIOUS
<1>1. SessionInvariant'
  BY SessionNextKeeps DEF ServedInvariant
<1>2. ASSUME OthersStep PROVE ServingInvariant' /\ ServedHolds'
  <2>1. ServingInvariant' /\ session' = session
    BY <1>2, ServingNextKeeps DEF OthersStep, ServedInvariant, readerVars
  <2>2. served' => served /\ OnlyRefreshing'
    BY <1>2 DEF OthersStep
  <2>3. served' => ActiveFingerprint' = session
    BY <1>2, <2>1, <2>2, RefreshStaysInService DEF OthersStep, ServedInvariant, ServedHolds
  <2> QED
    BY <2>1, <2>2, <2>3 DEF ServedInvariant, ServedHolds, InService
<1>3. ASSUME NEW strategy \in Reader!Strategies, NEW max \in 0..MaxPublic + 1,
             BeginRequest(strategy, max)
      PROVE  ServingInvariant' /\ ServedHolds'
  <2>1. UNCHANGED <<allVars, session>> /\ served' = InService
    BY <1>3 DEF BeginRequest, Reader!Search, Reader!Begin
  <2>2. ServingInvariant' /\ (InService <=> InService')
    BY <2>1, ReadersOnlyRead
  <2> QED
    BY <2>1, <2>2 DEF ServedHolds, ServedInvariant
<1>4. ASSUME \/ RejectStrategy \/ Refuse \/ ReadLexical \/ CheckVectorState
             \/ RejectVectorState \/ ReadVectors \/ RejectQuery \/ FailRead \/ Answer
             \/ FailFusion \/ Deliver \/ UNCHANGED sessionVars
      PROVE  ServingInvariant' /\ ServedHolds'
  <2>1. UNCHANGED <<allVars, session>> /\ (served' => served)
    BY <1>4 DEF RejectStrategy, Refuse, ReadLexical, CheckVectorState, RejectVectorState,
         ReadVectors, RejectQuery, FailRead, Answer, FailFusion, Deliver, Reader!Refuse,
         Reader!ReadLexical, Reader!CheckVectorState, Reader!RejectVectorState,
         Reader!ReadVectors, Reader!RejectQuery, Reader!FailRead, Reader!Answer,
         Reader!FailFusion, Reader!readVars, sessionVars, readerVars
  <2> QED
    BY <2>1, ReadersOnlyRead
<1> QED
  BY <1>1, <1>2, <1>3, <1>4 DEF ServedInvariant, SessionNext
\* The smaller of two numbers.
LEMMA MinOfTwo ==
    ASSUME NEW a \in Nat, NEW b \in Nat
    PROVE  Min({a, b}) = IF b < a THEN b ELSE a
<1> DEFINE least == IF b < a THEN b ELSE a
<1>1. least \in {a, b} /\ \A y \in {a, b} : least <= y
  OBVIOUS
<1>2. \A x \in {a, b} : (\A y \in {a, b} : x <= y) => x = least
  OBVIOUS
<1> HIDE DEF least
<1>3. Min({a, b}) = least
  BY <1>1, <1>2 DEF Min
<1> QED
  BY <1>3 DEF least

\* An index in service ranks every stored chunk.
LEMMA ServiceRanksAll ==
    ASSUME ServingInvariant, Serves(db)
    PROVE  /\ Len(VectorRanking) \in Nat
           /\ Len(VectorRanking) = Cardinality({i \in Places : HasChunk(i)})
<1> DEFINE D == {i \in Places : HasChunk(i)}
<1>1. {i \in Places : HasChunk(i) /\ db.vec[ChunkOrder[i]] # None} = D
  <2> SUFFICES ASSUME NEW i \in Places, HasChunk(i) PROVE db.vec[ChunkOrder[i]] # None
    OBVIOUS
  <2> DEFINE w == ChunkOrder[i]
  <2>1. w \in Chunks
    BY PlacesAreNumbers
  <2>2. db.chunks[w] # None
    BY DEF HasChunk
  <2>3. db \in Tables
    BY DEF ServingInvariant, LoneInvariant, RebuildInvariant, RebuildTypeOK, TypeOK, StoreTypeOK
  <2>4. db.chunks[w] \in Texts /\ db.state.fingerprint \in Fingerprints
    BY <2>1, <2>2, <2>3 DEF Tables, IndexStates, Serves
  <2>5. db.vec[w] = Embedding(db.state.fingerprint, db.chunks[w])
    BY <2>1, <2>2 DEF ServingInvariant, SearchExact
  <2>6. db.vec[w] \in Vectors
    BY <2>4, <2>5 DEF Embedding, Vectors
  <2> QED
    BY <2>6, AbsenceAssumption
<1>2. VectorRanking \in Seq(Places) /\ Enumerates(VectorRanking, Len(VectorRanking), D)
  BY <1>1, VectorRankingIsOnce
<1> HIDE DEF D
<1>3. Len(VectorRanking) \in Nat
  BY <1>2
<1>4. Cardinality(D) = Len(VectorRanking)
  BY <1>2, <1>3, EnumerationCounts
<1> QED
  BY <1>3, <1>4 DEF D

\* Beside a process that ingests, and rebuilds with the model the index has,
\* a request that began with the index in service is not turned away, and
\* its vector read ranks every stored chunk, up to its limit, whatever fails
\* or dies anywhere but between DROP TABLE and CREATE VIRTUAL TABLE.
THEOREM RefreshesServe ==
    ASSUME OneProcess, NeverDiesInTheGap
    PROVE  SessionSpec => RefreshesKeepServing
<1> DEFINE stored == {i \in DOMAIN ChunkOrder : HasChunk(i)}
           Serving == served =>
              /\ ~RejectVectorState /\ ~RejectQuery
              /\ ReadVectors => Len(vector') = Min({Reader!ComponentLimit, Cardinality(stored)})
<1>1. ASSUME ServedInvariant PROVE Serving
  <2> SUFFICES ASSUME served PROVE Serving
    OBVIOUS
  <2>1. /\ db.state # None /\ Serves(db) /\ db.state.fingerprint = session
        /\ db.vecDim = session[2] /\ session \in Fingerprints
    BY <1>1, ServiceFacts DEF ServedInvariant, ServedHolds, InService
  <2>2. Index.space = session /\ Index.dimension = [f \in Fingerprints |-> f[2]][session]
    BY <2>1 DEF Index
  <2>3. ~RejectVectorState /\ ~RejectQuery
    BY <2>2 DEF RejectVectorState, RejectQuery, Reader!RejectVectorState, Reader!RejectQuery,
                Reader!TableTakesQuery
  <2>4. ASSUME ReadVectors
        PROVE  Len(vector') = Min({Reader!ComponentLimit, Cardinality(stored)})
    <3>0. PICK r \in Reader!NearestOrders :
             vector' = Reader!Prefix(Reader!Read(r), Reader!ComponentLimit)
      BY <2>4 DEF ReadVectors, Reader!ReadVectors
    <3> DEFINE n == Reader!ComponentLimit
               all == {i \in Places : HasChunk(i) /\ db.vec[ChunkOrder[i]] # None}
    <3>1. reading = "vector" /\ vector' = Reader!Prefix(Reader!Read(r), n)
      BY <2>4, <3>0 DEF ReadVectors, Reader!ReadVectors
    <3>2. n \in Nat
      BY <1>1, <3>1, LimitsAreNumbers DEF ServedInvariant, SessionInvariant, RequestUnderWay
    <3>3. r \in Seq(Places) /\ Enumerates(r, Len(r), all)
      BY NearestAreOnce
    <3> HIDE DEF n, all
    <3>4. Len(r) \in Nat /\ Len(r) = Cardinality(stored)
      <4>1. Len(r) \in Nat
        BY <3>3
      <4>2. Cardinality(all) = Len(r)
        BY <3>3, <4>1, EnumerationCounts
      <4>3. Cardinality(all) = Len(VectorRanking)
        <5>1. VectorRanking \in Seq(Places) /\ Enumerates(VectorRanking, Len(VectorRanking), all)
          BY VectorRankingIsOnce DEF all
        <5>2. Len(VectorRanking) \in Nat
          BY <5>1
        <5> QED
          BY <5>1, <5>2, EnumerationCounts
      <4>4. Len(VectorRanking) = Cardinality(stored)
        BY <1>1, <2>1, ServiceRanksAll DEF ServedInvariant, Places
      <4> QED
        BY <4>1, <4>2, <4>3, <4>4
    <3>5. Len(vector') = IF Len(r) < n THEN Len(r) ELSE n
      BY <3>1, <3>2, <3>3, ReadsAreOnce
    <3> HIDE DEF stored
    <3>6. Min({n, Cardinality(stored)}) = IF Len(r) < n THEN Len(r) ELSE n
      BY <3>2, <3>4, MinOfTwo
    <3> QED
      BY <3>5, <3>6 DEF n
  <2> QED
    BY <2>3, <2>4
<1>2. ServedInvariant /\ [SessionNext]_sessionVars => [Serving]_sessionVars
  BY <1>1
<1>3. ServedInvariant /\ [SessionNext]_sessionVars => ServedInvariant'
  BY ServedNextKeeps
<1> QED
  BY ServedInitEstablishes, <1>2, <1>3, PTL DEF SessionSpec, RefreshesKeepServing
=============================================================================
