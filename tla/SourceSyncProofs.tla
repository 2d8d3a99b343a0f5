-------------------------- MODULE SourceSyncProofs --------------------------
(***************************************************************************)
(* Proofs about SourceSync, for every set of sources, paths, contents,     *)
(* bounds, providers and connections.                                      *)
(*                                                                         *)
(* First what every state is: typed, with chunks and both indexes those of *)
(* the stored documents.  Then what every commit does: it replaces one     *)
(* source and nothing else, its counters tell the truth, and seen from     *)
(* outside it is the one-step replacement of KnowledgeBase.                *)
(***************************************************************************)
EXTENDS SourceSync, FiniteSetTheorems, TLAPS

----------------------------------------------------------------------------
(* What the statements do to the tables.                                   *)

\* The texts chunking yields are texts.
LEMMA ChunkTextsType ==
    ASSUME NEW content \in Contents, NEW bound \in Bounds
    PROVE  ChunkTexts(content, bound) \in [Positions -> Texts \cup {None}]
BY SplitAssumption DEF ChunkTexts

\* A chunk id is a document and a position in it.
LEMMA ChunkParts ==
    ASSUME NEW k \in Chunks
    PROVE  DocumentOf(k) \in Documents /\ PositionOf(k) \in Positions
BY DEF Chunks, DocumentOf, PositionOf

\* What a set of tables has after a document was replaced wholesale.
DocumentReplaced(W, T, d, row) ==
    LET texts == ChunkTexts(row.content, row.bound)
    IN  /\ W \in Tables
        /\ W.sources = T.sources
        /\ W.documents = [T.documents EXCEPT ![d] = row]
        /\ \A k \in Chunks : W.chunks[k] =
              IF DocumentOf(k) = d THEN texts[PositionOf(k)] ELSE T.chunks[k]
        /\ \A k \in Chunks : W.fts[k] =
              IF DocumentOf(k) = d
              THEN IF texts[PositionOf(k)] = None THEN <<>> ELSE <<texts[PositionOf(k)]>>
              ELSE T.fts[k]
        /\ W.vec = T.vec /\ W.vecDim = T.vecDim /\ W.state = T.state

\* Replacing a document (upsert, two deletes, two inserts) leaves exactly
\* its new row, chunks and lexical entries, and nothing else changed.
LEMMA WithDocumentEffect ==
    ASSUME NEW T \in Tables, NEW d \in Documents, NEW row \in Rows
    PROVE  DocumentReplaced(WithDocument(T, d, row), T, d, row)
<1> DEFINE texts == ChunkTexts(row.content, row.bound)
           T1 == UpsertDocument(T, d, row)
           T2 == DeleteFts(T1, d)
           T3 == DeleteChunks(T2, d)
           T4 == InsertChunks(T3, d, texts)
           T5 == InsertFts(T4, d, texts)
<1>0. texts \in [Positions -> Texts \cup {None}]
  BY ChunkTextsType DEF Rows
<1>1. /\ T1 \in Tables
      /\ T1.sources = T.sources /\ T1.documents = [T.documents EXCEPT ![d] = row]
      /\ T1.chunks = T.chunks /\ T1.fts = T.fts
      /\ T1.vec = T.vec /\ T1.vecDim = T.vecDim /\ T1.state = T.state
  BY DEF UpsertDocument, Tables
<1>2. /\ T2 \in Tables
      /\ T2.sources = T.sources /\ T2.documents = T1.documents
      /\ T2.chunks = T.chunks
      /\ T2.fts = [k \in Chunks |-> IF DocumentOf(k) = d THEN <<>> ELSE T.fts[k]]
      /\ T2.vec = T.vec /\ T2.vecDim = T.vecDim /\ T2.state = T.state
  <2> HIDE DEF T1
  <2>1. \A k \in Chunks : (IF DocumentOf(k) = d THEN <<>> ELSE T.fts[k]) \in Seq(Texts)
    BY DEF Tables
  <2> QED
    BY <1>1, <2>1 DEF DeleteFts, Tables
<1>3. /\ T3 \in Tables
      /\ T3.sources = T.sources /\ T3.documents = T1.documents
      /\ T3.chunks = [k \in Chunks |-> IF DocumentOf(k) = d THEN None ELSE T.chunks[k]]
      /\ T3.fts = T2.fts
      /\ T3.vec = T.vec /\ T3.vecDim = T.vecDim /\ T3.state = T.state
  <2> HIDE DEF T2, T1
  <2> QED
    BY <1>2 DEF DeleteChunks, Tables
<1>4. /\ T4 \in Tables
      /\ T4.sources = T.sources /\ T4.documents = T1.documents
      /\ T4.chunks = [k \in Chunks |-> IF Supplied(k, d, texts) THEN texts[PositionOf(k)]
                                       ELSE T3.chunks[k]]
      /\ T4.fts = T2.fts
      /\ T4.vec = T.vec /\ T4.vecDim = T.vecDim /\ T4.state = T.state
  <2> HIDE DEF T3, T2, T1, texts
  <2>1. \A k \in Chunks : (IF Supplied(k, d, texts) THEN texts[PositionOf(k)]
                           ELSE T3.chunks[k]) \in Texts \cup {None}
    BY <1>0, <1>3, ChunkParts DEF Tables
  <2> QED
    BY <1>3, <2>1 DEF InsertChunks, Tables
<1>5. /\ T5 \in Tables
      /\ T5.sources = T.sources /\ T5.documents = T1.documents
      /\ T5.chunks = T4.chunks
      /\ T5.fts = [k \in Chunks |-> IF Supplied(k, d, texts)
                                    THEN Append(T2.fts[k], texts[PositionOf(k)])
                                    ELSE T2.fts[k]]
      /\ T5.vec = T.vec /\ T5.vecDim = T.vecDim /\ T5.state = T.state
  <2> HIDE DEF T4, T3, T2, T1, texts
  <2>1. ASSUME NEW k \in Chunks
        PROVE  (IF Supplied(k, d, texts) THEN Append(T2.fts[k], texts[PositionOf(k)])
                ELSE T2.fts[k]) \in Seq(Texts)
    <3>1. T2.fts[k] \in Seq(Texts)
      BY <1>2 DEF Tables
    <3>2. CASE Supplied(k, d, texts)
      <4>1. texts[PositionOf(k)] \in Texts
        BY <1>0, <3>2, ChunkParts DEF Supplied
      <4> QED
        BY <3>1, <3>2, <4>1
    <3> QED
      BY <3>1, <3>2
  <2> QED
    BY <1>4, <2>1 DEF InsertFts, Tables
<1>6. T5 = WithDocument(T, d, row)
  BY DEF WithDocument
<1>7. ASSUME NEW k \in Chunks
      PROVE  T5.chunks[k] = IF DocumentOf(k) = d THEN texts[PositionOf(k)] ELSE T.chunks[k]
  <2> HIDE DEF T5, T4, T3, T2, T1, texts
  <2> QED
    BY <1>3, <1>4, <1>5 DEF Supplied
<1>8. ASSUME NEW k \in Chunks
      PROVE  T5.fts[k] = IF DocumentOf(k) = d
                         THEN IF texts[PositionOf(k)] = None THEN <<>>
                              ELSE <<texts[PositionOf(k)]>>
                         ELSE T.fts[k]
  <2> HIDE DEF T5, T4, T3, T2, T1, texts
  <2>1. T5.fts[k] = IF Supplied(k, d, texts)
                    THEN Append(T2.fts[k], texts[PositionOf(k)]) ELSE T2.fts[k]
    BY <1>5
  <2>2. T2.fts[k] = IF DocumentOf(k) = d THEN <<>> ELSE T.fts[k]
    BY <1>2
  <2>3. CASE Supplied(k, d, texts)
    BY <2>1, <2>2, <2>3 DEF Supplied
  <2>4. CASE ~Supplied(k, d, texts)
    BY <2>1, <2>2, <2>4 DEF Supplied
  <2> QED
    BY <2>3, <2>4
<1> HIDE DEF T5, T4, T3, T2, T1
<1> QED
  BY <1>1, <1>5, <1>6, <1>7, <1>8 DEF DocumentReplaced

\* What replacing the vectors of a document does.
VectorsReplaced(W, T, d, row, fingerprint) ==
    LET texts == ChunkTexts(row.content, row.bound)
    IN  /\ W \in Tables
        /\ W.sources = T.sources /\ W.documents = T.documents
        /\ W.chunks = T.chunks /\ W.fts = T.fts
        /\ W.vecDim = T.vecDim /\ W.state = T.state
        /\ \A k \in Chunks : W.vec[k] =
              IF DocumentOf(k) = d
              THEN IF texts[PositionOf(k)] = None THEN None
                   ELSE Embedding(fingerprint, texts[PositionOf(k)])
              ELSE T.vec[k]

\* _write_vectors leaves the document's new vectors and no others of its.
LEMMA WithVectorsEffect ==
    ASSUME NEW T \in Tables, NEW d \in Documents, NEW row \in Rows,
           NEW fingerprint \in Fingerprints
    PROVE  VectorsReplaced(WithVectors(T, d, row, fingerprint), T, d, row, fingerprint)
<1> DEFINE texts == ChunkTexts(row.content, row.bound)
           T1 == DeleteVectors(T, d)
           T2 == InsertVectors(T1, d, texts, fingerprint)
<1>0. texts \in [Positions -> Texts \cup {None}]
  BY ChunkTextsType DEF Rows
<1>1. /\ T1 \in Tables
      /\ T1.sources = T.sources /\ T1.documents = T.documents
      /\ T1.chunks = T.chunks /\ T1.fts = T.fts
      /\ T1.vec = [k \in Chunks |-> IF DocumentOf(k) = d THEN None ELSE T.vec[k]]
      /\ T1.vecDim = T.vecDim /\ T1.state = T.state
  BY DEF DeleteVectors, Tables
<1>2. \A k \in Chunks :
         (IF Supplied(k, d, texts) THEN Embedding(fingerprint, texts[PositionOf(k)])
          ELSE T1.vec[k]) \in Vectors \cup {None}
  <2> HIDE DEF T1, texts
  <2>1. ASSUME NEW k \in Chunks, Supplied(k, d, texts)
        PROVE  Embedding(fingerprint, texts[PositionOf(k)]) \in Vectors
    <3>1. texts[PositionOf(k)] \in Texts
      BY <1>0, <2>1, ChunkParts DEF Supplied
    <3> QED
      BY <3>1 DEF Embedding, Vectors
  <2> QED
    BY <1>1, <2>1 DEF Tables
<1>3. /\ T2 \in Tables
      /\ T2.sources = T.sources /\ T2.documents = T.documents
      /\ T2.chunks = T.chunks /\ T2.fts = T.fts
      /\ T2.vec = [k \in Chunks |->
                     IF Supplied(k, d, texts)
                     THEN Embedding(fingerprint, texts[PositionOf(k)]) ELSE T1.vec[k]]
      /\ T2.vecDim = T.vecDim /\ T2.state = T.state
  <2> HIDE DEF T1, texts
  <2> QED
    BY <1>1, <1>2 DEF InsertVectors, Tables
<1>4. T2 = WithVectors(T, d, row, fingerprint)
  BY DEF WithVectors
<1>5. ASSUME NEW k \in Chunks
      PROVE  T2.vec[k] = IF DocumentOf(k) = d
                         THEN IF texts[PositionOf(k)] = None THEN None
                              ELSE Embedding(fingerprint, texts[PositionOf(k)])
                         ELSE T.vec[k]
  <2> HIDE DEF T2, T1, texts
  <2>1. T2.vec[k] = IF Supplied(k, d, texts)
                    THEN Embedding(fingerprint, texts[PositionOf(k)]) ELSE T1.vec[k]
    BY <1>3
  <2>2. T1.vec[k] = IF DocumentOf(k) = d THEN None ELSE T.vec[k]
    BY <1>1
  <2>3. CASE Supplied(k, d, texts)
    BY <2>1, <2>3 DEF Supplied
  <2>4. CASE ~Supplied(k, d, texts)
    BY <2>1, <2>2, <2>4 DEF Supplied
  <2> QED
    BY <2>3, <2>4
<1> HIDE DEF T2, T1
<1> QED
  BY <1>3, <1>4, <1>5 DEF VectorsReplaced

\* What a set of tables has after a document was deleted.
DocumentRemoved(W, T, d) ==
    /\ W \in Tables
    /\ W.sources = T.sources
    /\ W.documents = [T.documents EXCEPT ![d] = None]
    /\ \A k \in Chunks : W.chunks[k] = IF DocumentOf(k) = d THEN None ELSE T.chunks[k]
    /\ \A k \in Chunks : W.fts[k] = IF DocumentOf(k) = d THEN <<>> ELSE T.fts[k]
    /\ \A k \in Chunks : W.vec[k] =
          IF DocumentOf(k) = d /\ IndexActive(T) THEN None ELSE T.vec[k]
    /\ W.vecDim = T.vecDim /\ W.state = T.state

\* The deletion loop takes the document's row, chunks, lexical entries and,
\* while an index is active, vectors.
LEMMA WithoutDocumentEffect ==
    ASSUME NEW T \in Tables, NEW d \in Documents
    PROVE  DocumentRemoved(WithoutDocument(T, d), T, d)
<1> DEFINE T1 == DeleteFts(T, d)
           T2 == IF IndexActive(T) THEN DeleteVectors(T1, d) ELSE T1
           T3 == DeleteChunks(T2, d)
           T4 == [T3 EXCEPT !.documents[d] = None]
<1>1. /\ T1 \in Tables
      /\ T1.sources = T.sources /\ T1.documents = T.documents
      /\ T1.chunks = T.chunks
      /\ T1.fts = [k \in Chunks |-> IF DocumentOf(k) = d THEN <<>> ELSE T.fts[k]]
      /\ T1.vec = T.vec /\ T1.vecDim = T.vecDim /\ T1.state = T.state
  <2>1. \A k \in Chunks : (IF DocumentOf(k) = d THEN <<>> ELSE T.fts[k]) \in Seq(Texts)
    BY DEF Tables
  <2> QED
    BY <2>1 DEF DeleteFts, Tables
<1>2. /\ T2 \in Tables
      /\ T2.sources = T.sources /\ T2.documents = T.documents
      /\ T2.chunks = T.chunks /\ T2.fts = T1.fts
      /\ \A k \in Chunks : T2.vec[k] =
            IF DocumentOf(k) = d /\ IndexActive(T) THEN None ELSE T.vec[k]
      /\ T2.vecDim = T.vecDim /\ T2.state = T.state
  <2> HIDE DEF T1
  <2>1. CASE IndexActive(T)
    BY <1>1, <2>1 DEF DeleteVectors, Tables
  <2>2. CASE ~IndexActive(T)
    BY <1>1, <2>2 DEF Tables
  <2> QED
    BY <2>1, <2>2
<1>3. /\ T3 \in Tables
      /\ T3.sources = T.sources /\ T3.documents = T.documents
      /\ T3.chunks = [k \in Chunks |-> IF DocumentOf(k) = d THEN None ELSE T.chunks[k]]
      /\ T3.fts = T1.fts /\ T3.vec = T2.vec
      /\ T3.vecDim = T.vecDim /\ T3.state = T.state
  <2> HIDE DEF T2, T1
  <2> QED
    BY <1>2 DEF DeleteChunks, Tables
<1>4. /\ T4 \in Tables
      /\ T4.sources = T.sources /\ T4.documents = [T.documents EXCEPT ![d] = None]
      /\ T4.chunks = T3.chunks /\ T4.fts = T1.fts /\ T4.vec = T2.vec
      /\ T4.vecDim = T.vecDim /\ T4.state = T.state
  <2> HIDE DEF T3, T2, T1
  <2> QED
    BY <1>3 DEF Tables
<1>5. T4 = WithoutDocument(T, d)
  BY DEF WithoutDocument, DeleteDocumentRow
<1> HIDE DEF T4, T3, T2, T1
<1> QED
  BY <1>1, <1>2, <1>3, <1>4, <1>5 DEF DocumentRemoved

----------------------------------------------------------------------------
(* The statements sync_source groups keep the tables consistent.           *)

Consistent(T) == ChunksMatch(T) /\ LexicalAgrees(T) /\ VectorsAgree(T)

\* Chunks and lexical entries are those of the new row, where the document
\* was, and untouched elsewhere.
LEMMA ReplacedKeepsText ==
    ASSUME NEW T \in Tables, NEW d \in Documents, NEW row \in Rows, NEW W,
           DocumentReplaced(W, T, d, row), ChunksMatch(T), LexicalAgrees(T)
    PROVE  ChunksMatch(W) /\ LexicalAgrees(W)
<1>1. ChunksMatch(W)
  <2> SUFFICES ASSUME NEW k \in Chunks
               PROVE  W.chunks[k] =
                        IF W.documents[DocumentOf(k)] = None THEN None
                        ELSE ChunkTexts(W.documents[DocumentOf(k)].content,
                                        W.documents[DocumentOf(k)].bound)[PositionOf(k)]
    BY DEF ChunksMatch
  <2>1. T.documents \in [Documents -> Rows \cup {None}]
    BY DEF Tables
  <2>2. CASE DocumentOf(k) = d
    BY <2>1, <2>2, RowsAssumption DEF DocumentReplaced
  <2>3. CASE DocumentOf(k) # d
    BY <2>1, <2>3, ChunkParts DEF DocumentReplaced, ChunksMatch
  <2> QED
    BY <2>2, <2>3
<1>2. LexicalAgrees(W)
  BY DEF DocumentReplaced, LexicalAgrees
<1> QED
  BY <1>1, <1>2

\* The same when the document goes.
LEMMA RemovedKeepsText ==
    ASSUME NEW T \in Tables, NEW d \in Documents, NEW W,
           DocumentRemoved(W, T, d), ChunksMatch(T), LexicalAgrees(T)
    PROVE  ChunksMatch(W) /\ LexicalAgrees(W)
<1>1. ChunksMatch(W)
  <2> SUFFICES ASSUME NEW k \in Chunks
               PROVE  W.chunks[k] =
                        IF W.documents[DocumentOf(k)] = None THEN None
                        ELSE ChunkTexts(W.documents[DocumentOf(k)].content,
                                        W.documents[DocumentOf(k)].bound)[PositionOf(k)]
    BY DEF ChunksMatch
  <2>1. T.documents \in [Documents -> Rows \cup {None}]
    BY DEF Tables
  <2>2. CASE DocumentOf(k) = d
    BY <2>1, <2>2 DEF DocumentRemoved
  <2>3. CASE DocumentOf(k) # d
    BY <2>1, <2>3, ChunkParts DEF DocumentRemoved, ChunksMatch
  <2> QED
    BY <2>2, <2>3
<1>2. LexicalAgrees(W)
  BY DEF DocumentRemoved, LexicalAgrees
<1> QED
  BY <1>1, <1>2

\* Replacing a document without an active index keeps the tables consistent.
LEMMA ReplacedStaysConsistent ==
    ASSUME NEW T \in Tables, NEW d \in Documents, NEW row \in Rows,
           Consistent(T), ~IndexActive(T)
    PROVE  Consistent(WithDocument(T, d, row))
<1> DEFINE W == WithDocument(T, d, row)
<1>1. DocumentReplaced(W, T, d, row)
  BY WithDocumentEffect
<1> HIDE DEF W
<1>2. ChunksMatch(W) /\ LexicalAgrees(W)
  BY <1>1, ReplacedKeepsText DEF Consistent
<1>3. VectorsAgree(W)
  BY <1>1 DEF DocumentReplaced, Consistent, VectorsAgree, IndexActive
<1> QED
  BY <1>2, <1>3 DEF W, Consistent

\* Replacing a document and its vectors, in the space of the active index,
\* keeps the tables consistent.
LEMMA ReindexedStaysConsistent ==
    ASSUME NEW T \in Tables, NEW d \in Documents, NEW row \in Rows,
           Consistent(T), IndexActive(T)
    PROVE  Consistent(WithVectors(WithDocument(T, d, row), d, row, T.state.fingerprint))
<1> DEFINE V == WithDocument(T, d, row)
           W == WithVectors(V, d, row, T.state.fingerprint)
<1>0. T.state.fingerprint \in Fingerprints
  BY DEF Tables, IndexStates, IndexActive
<1>1. DocumentReplaced(V, T, d, row)
  BY WithDocumentEffect
<1>2. VectorsReplaced(W, V, d, row, T.state.fingerprint)
  <2>1. V \in Tables
    BY <1>1 DEF DocumentReplaced
  <2> HIDE DEF V
  <2> QED
    BY <1>0, <2>1, WithVectorsEffect
<1> HIDE DEF V, W
<1>3. ChunksMatch(V) /\ LexicalAgrees(V)
  BY <1>1, ReplacedKeepsText DEF Consistent
<1>4. ChunksMatch(W) /\ LexicalAgrees(W)
  BY <1>2, <1>3 DEF VectorsReplaced, ChunksMatch, LexicalAgrees
<1>5. VectorsAgree(W)
  <2> SUFFICES ASSUME NEW k \in Chunks
               PROVE  W.vec[k] = IF W.chunks[k] = None THEN None
                                 ELSE Embedding(T.state.fingerprint, W.chunks[k])
    BY <1>1, <1>2 DEF VectorsAgree, DocumentReplaced, VectorsReplaced, IndexActive
  <2>1. CASE DocumentOf(k) = d
    BY <1>1, <1>2, <2>1 DEF DocumentReplaced, VectorsReplaced
  <2>2. CASE DocumentOf(k) # d
    BY <1>1, <1>2, <2>2 DEF DocumentReplaced, VectorsReplaced, Consistent, VectorsAgree
  <2> QED
    BY <2>1, <2>2
<1> QED
  BY <1>4, <1>5 DEF V, W, Consistent

\* Deleting a document keeps the tables consistent.
LEMMA RemovedStaysConsistent ==
    ASSUME NEW T \in Tables, NEW d \in Documents, Consistent(T)
    PROVE  Consistent(WithoutDocument(T, d))
<1> DEFINE W == WithoutDocument(T, d)
<1>1. DocumentRemoved(W, T, d)
  BY WithoutDocumentEffect
<1> HIDE DEF W
<1>2. ChunksMatch(W) /\ LexicalAgrees(W)
  BY <1>1, RemovedKeepsText DEF Consistent
<1>3. VectorsAgree(W)
  <2> SUFFICES ASSUME NEW k \in Chunks
               PROVE  W.vec[k] = IF ~IndexActive(T) \/ W.chunks[k] = None THEN None
                                 ELSE Embedding(T.state.fingerprint, W.chunks[k])
    BY <1>1 DEF VectorsAgree, DocumentRemoved, IndexActive
  <2>1. W.vec[k] = IF DocumentOf(k) = d /\ IndexActive(T) THEN None ELSE T.vec[k]
    BY <1>1 DEF DocumentRemoved
  <2>2. W.chunks[k] = IF DocumentOf(k) = d THEN None ELSE T.chunks[k]
    BY <1>1 DEF DocumentRemoved
  <2>3. T.vec[k] = IF ~IndexActive(T) \/ T.chunks[k] = None THEN None
                   ELSE Embedding(T.state.fingerprint, T.chunks[k])
    BY DEF Consistent, VectorsAgree
  <2> QED
    BY <2>1, <2>2, <2>3
<1> QED
  BY <1>2, <1>3 DEF W, Consistent

----------------------------------------------------------------------------
(* The invariant of every state.                                           *)

\* What is true of a call in progress: the connection that writes is the one
\* that holds the lock, it writes documents its snapshot has, and what it
\* read of the active index when it began is still so.
CallInProgress(c) ==
    /\ pc[c] # "idle" => call[c] \in Calls
    /\ pc[c] = "writing" =>
          /\ owner = c
          /\ pending[c] \subseteq Present(call[c].incoming)
          /\ ~Incompatible(draft, c)

\* Both what is committed and what a transaction has so far done to it are
\* consistent: the transaction is so after every document, not only at the end.
SyncInvariant ==
    /\ TypeOK
    /\ \A c \in Connections : CallInProgress(c)
    /\ Consistent(db)
    /\ Consistent(draft)

LEMMA InitialTablesConsistent ==
    ASSUME NEW T \in InitialTables
    PROVE  T \in Tables /\ Consistent(T)
<1> USE DEF Consistent, ChunksMatch, LexicalAgrees, VectorsAgree, IndexActive
<1>1. EmptyTables \in Tables
  BY DEF EmptyTables, Tables, NoVectors
<1>2. /\ EmptyTables.documents = [d \in Documents |-> None]
      /\ EmptyTables.chunks = [k \in Chunks |-> None]
      /\ EmptyTables.fts = [k \in Chunks |-> <<>>]
      /\ EmptyTables.vec = [k \in Chunks |-> None]
  BY DEF EmptyTables, NoVectors
<1>3. CASE T = EmptyTables
  BY <1>1, <1>2, <1>3, ChunkParts
<1>4. ASSUME NEW p \in Providers,
             T = [EmptyTables EXCEPT !.vecDim = p.dimension,
                                     !.state = [fingerprint |-> EmbeddingFingerprint(p),
                                                dimension |-> p.dimension]]
      PROVE  T \in Tables /\ Consistent(T)
  <2>1. [fingerprint |-> EmbeddingFingerprint(p), dimension |-> p.dimension] \in IndexStates
    BY DEF Providers, EmbeddingFingerprint, Fingerprints, IndexStates
  <2>2. /\ T \in Tables
        /\ T.documents = EmptyTables.documents /\ T.chunks = EmptyTables.chunks
        /\ T.fts = EmptyTables.fts /\ T.vec = EmptyTables.vec
    BY <1>1, <1>4, <2>1 DEF Providers, Tables
  <2> QED
    BY <1>2, <2>2, ChunkParts
<1> QED
  BY <1>3, <1>4 DEF InitialTables

LEMMA InitEstablishes == Init => SyncInvariant
<1> SUFFICES ASSUME Init PROVE SyncInvariant
  OBVIOUS
<1>1. PICK T \in InitialTables : StoreInit(T)
  BY DEF Init
<1>2. db \in Tables /\ draft \in Tables /\ Consistent(db) /\ Consistent(draft)
  BY <1>1, InitialTablesConsistent DEF StoreInit
<1>3. TypeOK
  BY <1>1, <1>2 DEF Init, StoreInit, SyncInit, TypeOK, StoreTypeOK, NoCounts
<1>4. \A c \in Connections : CallInProgress(c)
  BY DEF Init, SyncInit, CallInProgress
<1> QED
  BY <1>2, <1>3, <1>4 DEF SyncInvariant

\* A step that ends a call and leaves the store to Rollback keeps the
\* invariant: whatever the transaction did is replaced by what is committed.
LEMMA RollbackPreserves ==
    ASSUME SyncInvariant, NEW c \in Connections, Rollback(c), Return(c), UNCHANGED clock
    PROVE  SyncInvariant'
<1> USE DEF SyncInvariant
<1>1. /\ db' = db
      /\ draft' \in {draft, db}
      /\ owner' \in {owner, None}
      /\ owner = c \/ (owner' = owner /\ draft' = draft)
  BY DEF Rollback, storeVars
<1>2. TypeOK'
  BY <1>1 DEF TypeOK, StoreTypeOK, Return, NoCounts
<1>3. \A e \in Connections : CallInProgress(e)'
  <2> SUFFICES ASSUME NEW e \in Connections PROVE CallInProgress(e)'
    OBVIOUS
  <2>1. CASE e = c
    BY <2>1 DEF Return, CallInProgress, TypeOK
  <2>2. CASE e # c
    <3>1. pc'[e] = pc[e] /\ call'[e] = call[e] /\ pending'[e] = pending[e]
      BY <2>2 DEF Return, TypeOK
    <3>2. CASE pc[e] = "writing"
      <4>1. owner' = owner /\ draft' = draft
        BY <1>1, <2>2, <3>2 DEF CallInProgress
      <4> QED
        BY <3>1, <4>1 DEF CallInProgress, Incompatible, IncomingFingerprint
    <3>3. CASE pc[e] # "writing"
      BY <3>1, <3>3 DEF CallInProgress
    <3> QED
      BY <3>2, <3>3
  <2> QED
    BY <2>1, <2>2
<1>4. Consistent(db)' /\ Consistent(draft)'
  BY <1>1 DEF Consistent, ChunksMatch, LexicalAgrees, VectorsAgree, IndexActive
<1> QED
  BY <1>2, <1>3, <1>4

\* A statement of the lock's holder that keeps the tables well typed and
\* consistent, and the active index what it is, keeps the invariant.
LEMMA StatementPreserves ==
    ASSUME SyncInvariant, NEW c \in Connections, pc[c] = "writing",
           NEW W \in Tables, Consistent(W), W.state = draft.state,
           Execute(c, W), UNCHANGED <<pc, call, clock>>,
           tally' \in [Connections -> [Counters -> Nat]],
           pending' \in [Connections -> SUBSET Paths],
           \A e \in Connections : pending'[e] \subseteq pending[e],
           doomed' \in [Connections -> SUBSET Paths]
    PROVE  SyncInvariant'
<1> USE DEF SyncInvariant
<1>1. db' = db /\ draft' = W /\ owner' = c /\ owner = c
  BY DEF Execute, CallInProgress
<1>2. TypeOK'
  BY <1>1 DEF TypeOK, StoreTypeOK
<1>3. \A e \in Connections : CallInProgress(e)'
  BY <1>1 DEF CallInProgress, Incompatible, IncomingFingerprint
<1>4. Consistent(db)' /\ Consistent(draft)'
  BY <1>1 DEF Consistent, ChunksMatch, LexicalAgrees, VectorsAgree, IndexActive
<1> QED
  BY <1>2, <1>3, <1>4

\* Counting a document once more leaves counters counters.
LEMMA CountType ==
    ASSUME TypeOK, NEW c \in Connections, NEW names, Count(c, names)
    PROVE  tally' \in [Connections -> [Counters -> Nat]]
BY DEF TypeOK, Count

\* Taking a path off one connection's list takes none onto another's.
LEMMA ShrinkType ==
    ASSUME NEW f \in [Connections -> SUBSET Paths], NEW c \in Connections, NEW path
    PROVE  /\ [f EXCEPT ![c] = @ \ {path}] \in [Connections -> SUBSET Paths]
           /\ \A e \in Connections : [f EXCEPT ![c] = @ \ {path}][e] \subseteq f[e]
OBVIOUS

\* Entering sync_source touches neither tables nor other calls.
LEMMA CallPreserves ==
    ASSUME SyncInvariant, NEW c \in Connections, NEW s \in Sources,
           NEW snapshot \in Snapshots, NEW bound \in Bounds,
           NEW provider \in Providers \cup {None}, Call(c, s, snapshot, bound, provider)
    PROVE  SyncInvariant'
<1> USE DEF SyncInvariant
<1>1. clock' \in Nat
  BY DEF TypeOK, Call
<1>2. call'[c] \in Calls
  BY <1>1 DEF TypeOK, Call, Calls
<1>3. TypeOK'
  BY <1>1, <1>2 DEF TypeOK, StoreTypeOK, Call
<1>4. ASSUME NEW e \in Connections PROVE CallInProgress(e)'
  <2>1. CASE e = c
    BY <1>2, <2>1 DEF Call, CallInProgress, TypeOK
  <2>2. CASE e # c
    BY <2>2 DEF Call, CallInProgress, TypeOK, Incompatible, IncomingFingerprint
  <2> QED
    BY <2>1, <2>2
<1>5. Consistent(db)' /\ Consistent(draft)'
  BY DEF Call, Consistent, ChunksMatch, LexicalAgrees, VectorsAgree, IndexActive
<1> QED
  BY <1>3, <1>4, <1>5

\* Taking the lock starts the transaction from what is committed.
LEMMA BeginSyncPreserves ==
    ASSUME SyncInvariant, NEW c \in Connections, BeginSync(c)
    PROVE  SyncInvariant'
<1> USE DEF SyncInvariant
<1> DEFINE W == UpsertSource(db, call[c].source)
<1>0. call[c] \in Calls /\ pc[c] = "waiting"
  BY DEF BeginSync, CallInProgress
<1>1. W \in Tables /\ W = [db EXCEPT !.sources = db.sources \cup {call[c].source}]
  BY <1>0 DEF TypeOK, StoreTypeOK, UpsertSource, Tables, Calls
<1>2. /\ W.documents = db.documents /\ W.chunks = db.chunks /\ W.fts = db.fts
      /\ W.vec = db.vec /\ W.state = db.state
  BY <1>1 DEF TypeOK, StoreTypeOK, Tables
<1> HIDE DEF W
<1>3. Consistent(W)
  BY <1>2 DEF Consistent, ChunksMatch, LexicalAgrees, VectorsAgree, IndexActive
<1>4. db' = db /\ draft' = W /\ owner' = c /\ owner \in {None, c}
  BY DEF BeginSync, Execute, W
<1>5. TypeOK'
  <2>1. /\ pc' \in [Connections -> {"idle", "waiting", "writing"}]
        /\ pending' \in [Connections -> SUBSET Paths]
        /\ doomed' \in [Connections -> SUBSET Paths]
    BY DEF TypeOK, BeginSync, Present, Stored
  <2> QED
    BY <1>1, <1>4, <2>1 DEF TypeOK, StoreTypeOK, BeginSync
<1>6. ASSUME NEW e \in Connections PROVE CallInProgress(e)'
  <2>1. CASE e = c
    BY <1>0, <1>2, <1>4, <2>1
       DEF BeginSync, CallInProgress, TypeOK, Incompatible, IncomingFingerprint, Present
  <2>2. CASE e # c
    <3>1. pc[e] # "writing"
      BY <1>4, <2>2, ConnectionsAssumption DEF CallInProgress
    <3> QED
      BY <2>2, <3>1 DEF BeginSync, CallInProgress, TypeOK
  <2> QED
    BY <2>1, <2>2
<1>7. Consistent(db)' /\ Consistent(draft)'
  BY <1>3, <1>4 DEF Consistent, ChunksMatch, LexicalAgrees, VectorsAgree, IndexActive
<1> QED
  BY <1>5, <1>6, <1>7

\* A call that ends before its transaction began leaves the store alone.
LEMMA EarlyReturnPreserves ==
    ASSUME SyncInvariant, NEW c \in Connections, Return(c),
           UNCHANGED <<db, owner, draft, clock>>
    PROVE  SyncInvariant'
<1> USE DEF SyncInvariant
<1>1. TypeOK'
  BY DEF TypeOK, StoreTypeOK, Return, NoCounts
<1>2. ASSUME NEW e \in Connections PROVE CallInProgress(e)'
  BY DEF Return, CallInProgress, TypeOK, Incompatible, IncomingFingerprint
<1>3. Consistent(db)' /\ Consistent(draft)'
  BY DEF Consistent, ChunksMatch, LexicalAgrees, VectorsAgree, IndexActive
<1> QED
  BY <1>1, <1>2, <1>3

LEMMA KeepUnchangedPreserves ==
    ASSUME SyncInvariant, NEW c \in Connections, NEW path \in Paths, KeepUnchanged(c, path)
    PROVE  SyncInvariant'
<1> USE DEF SyncInvariant
<1>1. /\ pending' \in [Connections -> SUBSET Paths]
      /\ \A e \in Connections : pending'[e] \subseteq pending[e]
  BY ShrinkType DEF KeepUnchanged, TypeOK
<1>2. tally' \in [Connections -> [Counters -> Nat]]
  BY CountType DEF KeepUnchanged
<1>3. TypeOK'
  BY <1>1, <1>2 DEF TypeOK, StoreTypeOK, KeepUnchanged
<1>4. ASSUME NEW e \in Connections PROVE CallInProgress(e)'
  BY <1>1 DEF KeepUnchanged, CallInProgress, Incompatible, IncomingFingerprint
<1>5. Consistent(db)' /\ Consistent(draft)'
  BY DEF KeepUnchanged, Consistent, ChunksMatch, LexicalAgrees, VectorsAgree, IndexActive
<1> QED
  BY <1>3, <1>4, <1>5

\* A document is written together with its vectors exactly when the index is
\* active, and then in the active space.
LEMMA WriteDocumentPreserves ==
    ASSUME SyncInvariant, NEW c \in Connections, NEW path \in Paths, WriteDocument(c, path)
    PROVE  SyncInvariant'
<1> USE DEF SyncInvariant
<1> DEFINE d == Doc(c, path)
           row == NewRow(c, path)
           written == WithDocument(draft, d, row)
           W == IF WritesVectors(c) THEN WithVectors(written, d, row, IncomingFingerprint(c))
                ELSE written
<1>0. pc[c] = "writing" /\ call[c] \in Calls /\ ~Incompatible(draft, c)
  BY DEF WriteDocument, CallInProgress
<1>1. d \in Documents
  BY <1>0 DEF Doc, Calls, Documents
<1>2. row \in Rows
  <2>1. call[c].incoming[path] # None
    BY <1>0 DEF WriteDocument, CallInProgress, Present
  <2>2. call[c].incoming[path] \in Contents
    BY <1>0, <2>1 DEF Calls, Snapshots
  <2> QED
    BY <1>0, <2>2 DEF NewRow, Rows, Calls
<1>3. draft \in Tables
  BY DEF TypeOK, StoreTypeOK
<1>4. W \in Tables /\ Consistent(W) /\ W.state = draft.state
  <2> HIDE DEF d, row
  <2>1. CASE WritesVectors(c)
    <3>1. IndexActive(draft) /\ IncomingFingerprint(c) = draft.state.fingerprint
      BY <1>0, <2>1 DEF WritesVectors, Incompatible, IndexActive
    <3>2. draft.state.fingerprint \in Fingerprints
      BY <1>3, <3>1 DEF Tables, IndexStates, IndexActive
    <3>3. DocumentReplaced(written, draft, d, row)
      BY <1>1, <1>2, <1>3, WithDocumentEffect
    <3>4. written \in Tables /\ written.state = draft.state
      BY <3>3 DEF DocumentReplaced
    <3> HIDE DEF written
    <3>5. VectorsReplaced(WithVectors(written, d, row, draft.state.fingerprint),
                          written, d, row, draft.state.fingerprint)
      BY <1>1, <1>2, <3>2, <3>4, WithVectorsEffect
    <3>6. Consistent(WithVectors(written, d, row, draft.state.fingerprint))
      BY <1>1, <1>2, <1>3, <3>1, ReindexedStaysConsistent DEF written
    <3> QED
      BY <2>1, <3>1, <3>4, <3>5, <3>6 DEF VectorsReplaced
  <2>2. CASE ~WritesVectors(c)
    <3>1. ~IndexActive(draft)
      BY <2>2 DEF WriteDocument, Writable
    <3>2. DocumentReplaced(written, draft, d, row)
      BY <1>1, <1>2, <1>3, WithDocumentEffect
    <3>3. Consistent(written)
      BY <1>1, <1>2, <1>3, <3>1, ReplacedStaysConsistent
    <3> QED
      BY <2>2, <3>2, <3>3 DEF DocumentReplaced
  <2> QED
    BY <2>1, <2>2
<1>5. Execute(c, W) /\ UNCHANGED <<pc, call, clock>>
  BY DEF WriteDocument
<1>6. tally' \in [Connections -> [Counters -> Nat]]
  BY CountType DEF WriteDocument
<1>7. /\ pending' \in [Connections -> SUBSET Paths]
      /\ \A e \in Connections : pending'[e] \subseteq pending[e]
  BY ShrinkType DEF WriteDocument, TypeOK
<1>8. doomed' \in [Connections -> SUBSET Paths]
  BY DEF WriteDocument, TypeOK
<1> HIDE DEF W
<1> QED
  BY <1>0, <1>4, <1>5, <1>6, <1>7, <1>8, StatementPreserves

LEMMA DeleteMissingPreserves ==
    ASSUME SyncInvariant, NEW c \in Connections, NEW path \in Paths, DeleteMissing(c, path)
    PROVE  SyncInvariant'
<1> USE DEF SyncInvariant
<1> DEFINE d == Doc(c, path)
           W == WithoutDocument(draft, d)
<1>0. pc[c] = "writing" /\ call[c] \in Calls
  BY DEF DeleteMissing, CallInProgress
<1>1. d \in Documents
  BY <1>0 DEF Doc, Calls, Documents
<1>2. draft \in Tables
  BY DEF TypeOK, StoreTypeOK
<1>3. W \in Tables /\ W.state = draft.state
  BY <1>1, <1>2, WithoutDocumentEffect DEF DocumentRemoved
<1>4. Consistent(W)
  BY <1>1, <1>2, RemovedStaysConsistent
<1>5. Execute(c, W) /\ UNCHANGED <<pc, call, pending, clock>>
  BY DEF DeleteMissing
<1>6. tally' \in [Connections -> [Counters -> Nat]]
  BY CountType DEF DeleteMissing
<1>7. doomed' \in [Connections -> SUBSET Paths]
  BY ShrinkType DEF DeleteMissing, TypeOK
<1>8. pending' \in [Connections -> SUBSET Paths]
  BY <1>5 DEF TypeOK
<1> HIDE DEF W
<1> QED
  BY <1>0, <1>3, <1>4, <1>5, <1>6, <1>7, <1>8, StatementPreserves

\* The commit publishes tables that were consistent all along.
LEMMA CommitPreserves ==
    ASSUME SyncInvariant, NEW c \in Connections, CommitSync(c)
    PROVE  SyncInvariant'
<1> USE DEF SyncInvariant
<1>1. owner = c /\ db' = draft /\ owner' = None /\ draft' = draft
  BY DEF CommitSync, Commit
<1>2. TypeOK'
  BY <1>1 DEF TypeOK, StoreTypeOK, CommitSync, Return, NoCounts
<1>3. ASSUME NEW e \in Connections PROVE CallInProgress(e)'
  <2>1. CASE e = c
    BY <2>1 DEF CommitSync, Return, CallInProgress, TypeOK
  <2>2. CASE e # c
    <3>1. pc[e] # "writing"
      BY <1>1, <2>2 DEF CallInProgress
    <3> QED
      BY <2>2, <3>1 DEF CommitSync, Return, CallInProgress, TypeOK
  <2> QED
    BY <2>1, <2>2
<1>4. Consistent(db)' /\ Consistent(draft)'
  BY <1>1 DEF Consistent, ChunksMatch, LexicalAgrees, VectorsAgree, IndexActive
<1> QED
  BY <1>2, <1>3, <1>4

LEMMA NextPreserves == SyncInvariant /\ [Next]_vars => SyncInvariant'
<1> SUFFICES ASSUME SyncInvariant, [Next]_vars PROVE SyncInvariant'
  OBVIOUS
<1>1. ASSUME NEW c \in Connections, NEW s \in Sources, NEW snapshot \in Snapshots,
             NEW bound \in Bounds, NEW provider \in Providers \cup {None},
             Call(c, s, snapshot, bound, provider)
      PROVE  SyncInvariant'
  BY <1>1, CallPreserves
<1>2. ASSUME NEW c \in Connections, SyncStep(c) PROVE SyncInvariant'
  <2>1. CASE BeginSync(c)
    BY <2>1, BeginSyncPreserves
  <2>2. CASE RejectIncompatible(c)
    BY <2>2, EarlyReturnPreserves DEF RejectIncompatible
  <2>3. CASE LockTimeout(c)
    BY <2>3, EarlyReturnPreserves DEF LockTimeout
  <2>4. CASE \E path \in Paths : KeepUnchanged(c, path)
    BY <2>4, KeepUnchangedPreserves
  <2>5. CASE \E path \in Paths : WriteDocument(c, path)
    BY <2>5, WriteDocumentPreserves
  <2>6. CASE \E path \in Paths : RejectWrite(c, path)
    BY <2>6, RollbackPreserves DEF RejectWrite
  <2>7. CASE \E path \in Paths : DeleteMissing(c, path)
    BY <2>7, DeleteMissingPreserves
  <2>8. CASE RejectDelete(c)
    BY <2>8, RollbackPreserves DEF RejectDelete
  <2>9. CASE CommitSync(c)
    BY <2>9, CommitPreserves
  <2> QED
    BY <1>2, <2>1, <2>2, <2>3, <2>4, <2>5, <2>6, <2>7, <2>8, <2>9 DEF SyncStep
<1>3. ASSUME NEW c \in Connections, Abort(c) PROVE SyncInvariant'
  BY <1>3, RollbackPreserves DEF Abort
<1>4. CASE UNCHANGED vars
  BY <1>4 DEF SyncInvariant, TypeOK, StoreTypeOK, vars, CallInProgress, Incompatible,
              IncomingFingerprint, Consistent, ChunksMatch, LexicalAgrees, VectorsAgree,
              IndexActive
<1>5. CASE Quiescent
  BY <1>4, <1>5 DEF Quiescent
<1> QED
  BY <1>1, <1>2, <1>3, <1>4, <1>5 DEF Next

\* Every reachable state of any number of concurrent sync_source calls
\* satisfies the invariant.
THEOREM Invariance == Spec => []SyncInvariant
BY InitEstablishes, NextPreserves, PTL DEF Spec

\* The tables and the calls in progress are always what their types say.
THEOREM TypeCorrect == Spec => []TypeOK
<1>1. SyncInvariant => TypeOK
  BY DEF SyncInvariant
<1> QED
  BY Invariance, <1>1, PTL

\* No interleaving of ingestions, failures and rollbacks leaves a stored
\* chunk that is not the current chunking of a stored document, or loses one.
THEOREM ChunksCurrent == Spec => []StoredChunksAreCurrent
<1>1. SyncInvariant => StoredChunksAreCurrent
  BY DEF SyncInvariant, Consistent, StoredChunksAreCurrent
<1> QED
  BY Invariance, <1>1, PTL

\* The lexical index has one row per stored chunk, with its text.
THEOREM LexicalIndexExact == Spec => []LexicalIndexAgrees
<1>1. SyncInvariant => LexicalIndexAgrees
  BY DEF SyncInvariant, Consistent, LexicalIndexAgrees
<1> QED
  BY Invariance, <1>1, PTL

\* Syncs alone never leave an active vector index partial, stale or mixed.
THEOREM VectorIndexExact == Spec => []VectorIndexAgrees
<1>1. SyncInvariant => VectorIndexAgrees
  BY DEF SyncInvariant, Consistent, VectorIndexAgrees
<1> QED
  BY Invariance, <1>1, PTL

----------------------------------------------------------------------------
(* The invariant of a transaction and its counters.                        *)

New(c) == Present(call[c].incoming)

\* How far the open transaction has replaced the document at a path: not yet,
\* written (or kept, when content and bound are the ones stored), or deleted.
Replaced(c, path) ==
    LET row == draft.documents[Doc(c, path)]
        old == db.documents[Doc(c, path)]
    IN  /\ path \in pending[c] \cup doomed[c] => row = old
        /\ path \in New(c) \ pending[c] =>
              /\ row # None
              /\ row.content = call[c].incoming[path]
              /\ row.bound = call[c].bound
              /\ row = old \/ old = None \/ row.content # old.content \/ row.bound # old.bound
        /\ path \notin New(c) \cup doomed[c] => row = None

\* What a transaction has done to the tables: it is working through the
\* documents of its source, and has touched neither those of others nor what
\* is recorded of the vector index.
TransactionScope(c) ==
    pc[c] = "writing" =>
        /\ draft.state = db.state /\ draft.vecDim = db.vecDim
        /\ doomed[c] \subseteq Stored(db, call[c].source) \ New(c)
        /\ \A d \in Documents : d[1] # call[c].source => draft.documents[d] = db.documents[d]
        /\ \A path \in Paths : Replaced(c, path)

\* The documents a transaction has dealt with, by what it made of them, told
\* from what is committed and from the call alone.
Done(c) == New(c) \ pending[c]
Old(c, path) == db.documents[Doc(c, path)]
CreatedSoFar(c) == {path \in Done(c) : Old(c, path) = None}
UpdatedSoFar(c) ==
    {path \in Done(c) : Old(c, path) # None /\ Old(c, path).content # call[c].incoming[path]}
ReprocessedSoFar(c) ==
    {path \in Done(c) : /\ Old(c, path) # None
                        /\ Old(c, path).content = call[c].incoming[path]
                        /\ Old(c, path).bound # call[c].bound}
UnchangedSoFar(c) ==
    {path \in Done(c) : /\ Old(c, path) # None
                        /\ Old(c, path).content = call[c].incoming[path]
                        /\ Old(c, path).bound = call[c].bound}
DeletedSoFar(c) == (Stored(db, call[c].source) \ New(c)) \ doomed[c]

\* The counters are the sizes of these sets; while an index is active every
\* document written was also indexed again.
TallyIsExact(c) ==
    pc[c] = "writing" =>
        /\ tally[c]["created"] = Cardinality(CreatedSoFar(c))
        /\ tally[c]["updated"] = Cardinality(UpdatedSoFar(c))
        /\ tally[c]["reprocessed"] = Cardinality(ReprocessedSoFar(c))
        /\ tally[c]["unchanged"] = Cardinality(UnchangedSoFar(c))
        /\ tally[c]["deleted"] = Cardinality(DeletedSoFar(c))
        /\ tally[c]["reindexed"] =
              IF IndexActive(db)
              THEN tally[c]["created"] + tally[c]["updated"] + tally[c]["reprocessed"]
              ELSE 0

\* The counters of a call that has not begun its transaction are zero.
TallyStartsAtZero(c) == pc[c] # "writing" => tally[c] = NoCounts

\* vec_chunks has the dimension recorded for it.
IndexFits == db.state # None => db.vecDim = db.state.dimension

Progress(c) == TransactionScope(c) /\ TallyIsExact(c) /\ TallyStartsAtZero(c)

CommitInvariant ==
    /\ SyncInvariant
    /\ IndexFits
    /\ \A c \in Connections : Progress(c)

----------------------------------------------------------------------------
(* The scope of a transaction.  These lemmas ask nothing of the tables but *)
(* their types, so they serve for databases a rebuild has left, too.       *)

LEMMA BeginsInScope ==
    ASSUME TypeOK, NEW c \in Connections, CallInProgress(c), BeginSync(c)
    PROVE  TransactionScope(c)'
<1> DEFINE W == UpsertSource(db, call[c].source)
<1>0. /\ call[c] \in Calls /\ call' = call /\ db' = db /\ draft' = W
      /\ pending'[c] = New(c)
      /\ doomed'[c] = Stored(db, call[c].source) \ New(c)
  BY DEF BeginSync, Execute, CallInProgress, TypeOK, New
<1>1. W.documents = db.documents /\ W.state = db.state /\ W.vecDim = db.vecDim
  BY <1>0 DEF TypeOK, StoreTypeOK, UpsertSource, Tables
<1> HIDE DEF W
<1>2. /\ draft'.state = db'.state /\ draft'.vecDim = db'.vecDim
      /\ draft'.documents = db'.documents
  BY <1>0, <1>1
<1>3. doomed'[c] = Stored(db', call'[c].source) \ New(c)'
  BY <1>0 DEF New
<1>4. ASSUME NEW path \in Paths PROVE Replaced(c, path)'
  <2>1. draft'.documents[Doc(c, path)'] = db'.documents[Doc(c, path)']
    BY <1>2
  <2>2. New(c)' \ pending'[c] = {}
    BY <1>0 DEF New
  <2>3. path \notin New(c)' \cup doomed'[c] => db'.documents[Doc(c, path)'] = None
    BY <1>3 DEF Stored, Doc
  <2> QED
    BY <2>1, <2>2, <2>3 DEF Replaced
<1> QED
  BY <1>2, <1>3, <1>4 DEF TransactionScope

\* A document left as it is is stored as it came in.
LEMMA KeepUnchangedInScope ==
    ASSUME TypeOK, NEW c \in Connections, TransactionScope(c),
           NEW path \in Paths, KeepUnchanged(c, path)
    PROVE  TransactionScope(c)'
<1>0. /\ pc[c] = "writing" /\ path \in pending[c]
      /\ call' = call /\ doomed' = doomed /\ db' = db /\ draft' = draft
      /\ pending'[c] = pending[c] \ {path}
  BY DEF KeepUnchanged, TypeOK
<1>1. draft.documents[Doc(c, path)] = Old(c, path)
  BY <1>0 DEF TransactionScope, Replaced, Old
<1>2. /\ Old(c, path) # None /\ Old(c, path).content = call[c].incoming[path]
      /\ Old(c, path).bound = call[c].bound
  BY <1>1 DEF KeepUnchanged, Unchanged
<1>3. ASSUME NEW p \in Paths PROVE Replaced(c, p)'
  <2>1. Replaced(c, p)
    BY <1>0 DEF TransactionScope
  <2> QED
    BY <1>0, <1>1, <1>2, <2>1 DEF Replaced, Doc, New, Old
<1> QED
  BY <1>0, <1>3 DEF TransactionScope, New

\* Writing a document changes its own row, of all rows and of all that is
\* recorded of the vector index.
LEMMA WriteDocumentRows ==
    ASSUME TypeOK, NEW c \in Connections, CallInProgress(c),
           NEW path \in Paths, WriteDocument(c, path)
    PROVE  /\ Doc(c, path) \in Documents /\ NewRow(c, path) \in Rows
           /\ draft'.documents = [draft.documents EXCEPT ![Doc(c, path)] = NewRow(c, path)]
           /\ draft'.state = draft.state /\ draft'.vecDim = draft.vecDim
<1> DEFINE d == Doc(c, path)
           row == NewRow(c, path)
           written == WithDocument(draft, d, row)
<1>0. pc[c] = "writing" /\ call[c] \in Calls /\ draft \in Tables
  BY DEF WriteDocument, CallInProgress, TypeOK, StoreTypeOK
<1>1. d \in Documents
  BY <1>0 DEF Doc, Calls, Documents
<1>2. row \in Rows
  <2>1. call[c].incoming[path] # None
    BY <1>0 DEF WriteDocument, CallInProgress, Present
  <2>2. call[c].incoming[path] \in Contents
    BY <1>0, <2>1 DEF Calls, Snapshots
  <2> QED
    BY <1>0, <2>2 DEF NewRow, Rows, Calls
<1> HIDE DEF d, row
<1>3. DocumentReplaced(written, draft, d, row)
  BY <1>0, <1>1, <1>2, WithDocumentEffect
<1>4. /\ written \in Tables
      /\ written.documents = [draft.documents EXCEPT ![d] = row]
      /\ written.state = draft.state /\ written.vecDim = draft.vecDim
  BY <1>3 DEF DocumentReplaced
<1> HIDE DEF written
<1>5. CASE WritesVectors(c)
  <2>1. IncomingFingerprint(c) \in Fingerprints
    BY <1>0, <1>5 DEF WritesVectors, IncomingFingerprint, Calls, Providers,
                      EmbeddingFingerprint, Fingerprints
  <2>2. VectorsReplaced(WithVectors(written, d, row, IncomingFingerprint(c)),
                        written, d, row, IncomingFingerprint(c))
    BY <1>1, <1>2, <1>4, <2>1, WithVectorsEffect
  <2>3. draft' = WithVectors(written, d, row, IncomingFingerprint(c))
    BY <1>5 DEF WriteDocument, Execute, written, d, row
  <2> QED
    BY <1>1, <1>2, <1>4, <2>2, <2>3 DEF VectorsReplaced, d, row
<1>6. CASE ~WritesVectors(c)
  <2>1. draft' = written
    BY <1>6 DEF WriteDocument, Execute, written, d, row
  <2> QED
    BY <1>1, <1>2, <1>4, <2>1 DEF d, row
<1> QED
  BY <1>5, <1>6

LEMMA WriteDocumentInScope ==
    ASSUME TypeOK, NEW c \in Connections, CallInProgress(c), TransactionScope(c),
           NEW path \in Paths, WriteDocument(c, path)
    PROVE  TransactionScope(c)'
<1>0. /\ pc[c] = "writing" /\ path \in pending[c] /\ call[c] \in Calls
      /\ call' = call /\ doomed' = doomed /\ db' = db
      /\ pending'[c] = pending[c] \ {path}
  BY DEF WriteDocument, Execute, CallInProgress, TypeOK
<1>1. draft.documents[Doc(c, path)] = Old(c, path)
  BY <1>0 DEF TransactionScope, Replaced, Old
<1>2. /\ draft'.documents = [draft.documents EXCEPT ![Doc(c, path)] = NewRow(c, path)]
      /\ draft'.state = draft.state /\ draft'.vecDim = draft.vecDim
      /\ NewRow(c, path) # None /\ Doc(c, path) \in Documents
  BY WriteDocumentRows, RowsAssumption
<1>3. /\ draft.documents \in [Documents -> Rows \cup {None}]
      /\ draft.state = db.state /\ draft.vecDim = db.vecDim
  BY <1>0 DEF TypeOK, StoreTypeOK, Tables, TransactionScope
<1>4. \/ Old(c, path) = None \/ Old(c, path).content # call[c].incoming[path]
      \/ Old(c, path).bound # call[c].bound
  BY <1>1 DEF WriteDocument, Unchanged
<1>5. /\ NewRow(c, path).content = call[c].incoming[path]
      /\ NewRow(c, path).bound = call[c].bound
  BY DEF NewRow
<1>6. ASSUME NEW p \in Paths PROVE Replaced(c, p)'
  <2>0. Replaced(c, p) /\ Doc(c, p) \in Documents
    BY <1>0 DEF TransactionScope, Doc, Documents, Calls
  <2>1. CASE p = path
    <3>1. draft'.documents[Doc(c, p)'] = NewRow(c, path)
      BY <1>0, <1>2, <1>3, <2>1 DEF Doc
    <3>2. path \notin pending'[c] /\ path \in New(c)' /\ path \notin doomed'[c]
      BY <1>0 DEF CallInProgress, New, TransactionScope
    <3>3. db'.documents[Doc(c, p)'] = Old(c, path)
      BY <1>0, <2>1 DEF Doc, Old
    <3> QED
      BY <1>0, <1>2, <1>4, <1>5, <2>1, <3>1, <3>2, <3>3 DEF Replaced
  <2>2. CASE p # path
    <3>1. draft'.documents[Doc(c, p)'] = draft.documents[Doc(c, p)]
      BY <1>0, <1>2, <1>3, <2>0, <2>2 DEF Doc
    <3> QED
      BY <1>0, <2>0, <2>2, <3>1 DEF Replaced, Doc, New
  <2> QED
    BY <2>1, <2>2
<1>7. ASSUME NEW d \in Documents, d[1] # call[c].source
      PROVE  draft'.documents[d] = db'.documents[d]
  <2>1. d # Doc(c, path)
    BY <1>7 DEF Doc
  <2>2. draft.documents[d] = db.documents[d]
    BY <1>0, <1>7 DEF TransactionScope
  <2> QED
    BY <1>0, <1>2, <1>3, <2>1, <2>2
<1>8. doomed'[c] \subseteq Stored(db', call'[c].source) \ New(c)'
  BY <1>0 DEF TransactionScope, New
<1> QED
  BY <1>0, <1>2, <1>3, <1>6, <1>7, <1>8 DEF TransactionScope

LEMMA DeleteMissingInScope ==
    ASSUME TypeOK, NEW c \in Connections, CallInProgress(c), TransactionScope(c),
           NEW path \in Paths, DeleteMissing(c, path)
    PROVE  TransactionScope(c)'
<1> DEFINE d == Doc(c, path)
<1>0. /\ pc[c] = "writing" /\ path \in doomed[c] /\ call[c] \in Calls
      /\ call' = call /\ pending' = pending /\ db' = db
      /\ doomed'[c] = doomed[c] \ {path}
      /\ draft' = WithoutDocument(draft, d)
  BY DEF DeleteMissing, Execute, CallInProgress, TypeOK
<1>1. d \in Documents /\ draft \in Tables
  BY <1>0 DEF Doc, Calls, Documents, TypeOK, StoreTypeOK
<1>2. /\ draft'.documents = [draft.documents EXCEPT ![d] = None]
      /\ draft'.state = draft.state /\ draft'.vecDim = draft.vecDim
  BY <1>0, <1>1, WithoutDocumentEffect DEF DocumentRemoved
<1>3. draft.documents \in [Documents -> Rows \cup {None}]
  BY <1>1 DEF Tables
<1>4. path \in Stored(db, call[c].source) \ New(c)
  BY <1>0 DEF TransactionScope
<1> HIDE DEF d
<1>5. ASSUME NEW p \in Paths PROVE Replaced(c, p)'
  <2>0. Replaced(c, p) /\ Doc(c, p) \in Documents
    BY <1>0 DEF TransactionScope, Doc, Documents, Calls
  <2>1. CASE p = path
    <3>1. draft'.documents[Doc(c, p)'] = None
      BY <1>0, <1>1, <1>2, <1>3, <2>1 DEF Doc, d
    <3>2. p \notin New(c)' /\ p \notin pending'[c] \cup doomed'[c]
      BY <1>0, <1>4, <2>1 DEF CallInProgress, New
    <3> QED
      BY <3>1, <3>2 DEF Replaced
  <2>2. CASE p # path
    <3>1. draft'.documents[Doc(c, p)'] = draft.documents[Doc(c, p)]
      BY <1>0, <1>2, <1>3, <2>0, <2>2 DEF Doc, d
    <3> QED
      BY <1>0, <2>0, <2>2, <3>1 DEF Replaced, Doc, New
  <2> QED
    BY <2>1, <2>2
<1>6. ASSUME NEW e \in Documents, e[1] # call[c].source
      PROVE  draft'.documents[e] = db'.documents[e]
  <2>1. e # d
    BY <1>6 DEF Doc, d
  <2>2. draft.documents[e] = db.documents[e]
    BY <1>0, <1>6 DEF TransactionScope
  <2> QED
    BY <1>0, <1>2, <1>3, <2>1, <2>2
<1>7. doomed'[c] \subseteq Stored(db', call'[c].source) \ New(c)'
  BY <1>0 DEF TransactionScope, New
<1> QED
  BY <1>0, <1>2, <1>5, <1>6, <1>7 DEF TransactionScope

\* The rows of the source after a commit, and of the others.
LEMMA CommittedRows ==
    ASSUME NEW c \in Connections, CallInProgress(c), TransactionScope(c), CommitSync(c)
    PROVE  /\ call[c] \in Calls
           /\ db'.state = db.state /\ db'.vecDim = db.vecDim
           /\ \A d \in Documents : d[1] # call[c].source => db'.documents[d] = db.documents[d]
           /\ \A path \in New(c) :
                 LET row == db'.documents[Doc(c, path)]
                     old == Old(c, path)
                 IN  /\ row # None
                     /\ row.content = call[c].incoming[path] /\ row.bound = call[c].bound
                     /\ row = old \/ old = None \/ row.content # old.content
                           \/ row.bound # old.bound
           /\ \A path \in Paths \ New(c) : db'.documents[Doc(c, path)] = None
<1>1. /\ pc[c] = "writing" /\ pending[c] = {} /\ doomed[c] = {} /\ db' = draft
      /\ call[c] \in Calls
  BY DEF CommitSync, Commit, CallInProgress
<1>2. TransactionScope(c) /\ \A path \in Paths : Replaced(c, path)
  BY <1>1 DEF TransactionScope
<1>3. New(c) \subseteq Paths
  BY DEF New, Present
<1> QED
  BY <1>1, <1>2, <1>3 DEF TransactionScope, Replaced, Old

----------------------------------------------------------------------------
(* Steps of one connection and what the others know.                       *)

\* Nothing is lost of what is known of a call none of whose state changes.
LEMMA OthersUndisturbed ==
    ASSUME NEW e \in Connections, Progress(e),
           pc'[e] = pc[e], call'[e] = call[e], pending'[e] = pending[e],
           doomed'[e] = doomed[e], tally'[e] = tally[e],
           pc[e] = "writing" => db' = db /\ draft' = draft
    PROVE  Progress(e)'
<1>1. CASE pc[e] # "writing"
  BY <1>1 DEF Progress, TransactionScope, TallyIsExact, TallyStartsAtZero
<1>2. CASE pc[e] = "writing"
  <2> USE <1>2 DEF New, Doc, Old, Done
  <2>1. TransactionScope(e)'
    BY DEF Progress, TransactionScope, Replaced
  <2>2. /\ CreatedSoFar(e)' = CreatedSoFar(e)
        /\ UpdatedSoFar(e)' = UpdatedSoFar(e)
        /\ ReprocessedSoFar(e)' = ReprocessedSoFar(e)
        /\ UnchangedSoFar(e)' = UnchangedSoFar(e)
        /\ DeletedSoFar(e)' = DeletedSoFar(e)
    BY DEF CreatedSoFar, UpdatedSoFar, ReprocessedSoFar, UnchangedSoFar, DeletedSoFar
  <2>3. TallyIsExact(e)'
    BY <2>2 DEF Progress, TallyIsExact, IndexActive
  <2> QED
    BY <2>1, <2>3 DEF Progress, TallyStartsAtZero
<1> QED
  BY <1>1, <1>2

\* While one connection holds the lock no other is writing.
LEMMA OneWriter ==
    ASSUME SyncInvariant, NEW c \in Connections, owner = c,
           NEW e \in Connections, e # c
    PROVE  pc[e] # "writing"
BY DEF SyncInvariant, CallInProgress

\* A call that is over has no transaction and no counts.
LEMMA ReturnEndsProgress ==
    ASSUME TypeOK, NEW c \in Connections, Return(c)
    PROVE  Progress(c)'
BY DEF TypeOK, Return, Progress, TransactionScope, TallyIsExact, TallyStartsAtZero

\* Ending a call without commit keeps what is known of the others.
LEMMA GivingUpPreserves ==
    ASSUME CommitInvariant, NEW c \in Connections, Return(c), UNCHANGED clock,
           Rollback(c) \/ UNCHANGED storeVars
    PROVE  IndexFits' /\ \A e \in Connections : Progress(e)'
<1> USE DEF CommitInvariant
<1>1. db' = db
  BY DEF Rollback, storeVars
<1>2. IndexFits'
  BY <1>1 DEF IndexFits
<1>3. Progress(c)'
  BY ReturnEndsProgress DEF SyncInvariant
<1>4. ASSUME NEW e \in Connections, e # c PROVE Progress(e)'
  <2>1. pc[e] = "writing" => draft' = draft
    BY <1>4 DEF Rollback, storeVars, SyncInvariant, CallInProgress
  <2>2. /\ pc'[e] = pc[e] /\ call'[e] = call[e] /\ pending'[e] = pending[e]
        /\ doomed'[e] = doomed[e] /\ tally'[e] = tally[e]
    BY <1>4 DEF Return, SyncInvariant, TypeOK
  <2> QED
    BY <1>1, <2>1, <2>2, OthersUndisturbed
<1> QED
  BY <1>2, <1>3, <1>4

LEMMA CallKeepsProgress ==
    ASSUME CommitInvariant, NEW c \in Connections, NEW s \in Sources,
           NEW snapshot \in Snapshots, NEW bound \in Bounds,
           NEW provider \in Providers \cup {None}, Call(c, s, snapshot, bound, provider)
    PROVE  IndexFits' /\ \A e \in Connections : Progress(e)'
<1> USE DEF CommitInvariant
<1>1. IndexFits'
  BY DEF Call, IndexFits
<1>2. Progress(c)'
  BY DEF Call, SyncInvariant, TypeOK, Progress, TransactionScope, TallyIsExact, TallyStartsAtZero
<1>3. ASSUME NEW e \in Connections, e # c PROVE Progress(e)'
  <2>1. /\ pc'[e] = pc[e] /\ call'[e] = call[e] /\ pending'[e] = pending[e]
        /\ doomed'[e] = doomed[e] /\ tally'[e] = tally[e] /\ db' = db /\ draft' = draft
    BY <1>3 DEF Call, SyncInvariant, TypeOK
  <2> QED
    BY <2>1, OthersUndisturbed
<1> QED
  BY <1>1, <1>2, <1>3

\* A transaction begins with everything to do and nothing counted.
LEMMA BeginStartsProgress ==
    ASSUME CommitInvariant, NEW c \in Connections, BeginSync(c)
    PROVE  IndexFits' /\ \A e \in Connections : Progress(e)'
<1> USE DEF CommitInvariant
<1> DEFINE W == UpsertSource(db, call[c].source)
<1>0. /\ call[c] \in Calls /\ pc[c] = "waiting" /\ TypeOK
      /\ pc'[c] = "writing" /\ call' = call /\ tally' = tally
      /\ pending'[c] = New(c)
      /\ doomed'[c] = Stored(db, call[c].source) \ New(c)
  BY DEF BeginSync, SyncInvariant, CallInProgress, TypeOK, New
<1>1. db' = db /\ draft' = W /\ owner \in {None, c}
  BY DEF BeginSync, Execute
<1>2. W.documents = db.documents /\ W.state = db.state /\ W.vecDim = db.vecDim
  BY <1>0 DEF TypeOK, StoreTypeOK, UpsertSource, Tables
<1>3. IndexFits'
  BY <1>1 DEF IndexFits
<1> HIDE DEF W
<1>4. TransactionScope(c)'
  BY BeginsInScope DEF SyncInvariant
<1>5. TallyIsExact(c)'
  <2>1. Done(c)' = {} /\ DeletedSoFar(c)' = {}
    BY <1>0, <1>1 DEF Done, New, DeletedSoFar
  <2>2. /\ CreatedSoFar(c)' = {} /\ UpdatedSoFar(c)' = {} /\ ReprocessedSoFar(c)' = {}
        /\ UnchangedSoFar(c)' = {}
    BY <2>1 DEF CreatedSoFar, UpdatedSoFar, ReprocessedSoFar, UnchangedSoFar
  <2>3. tally'[c] = NoCounts
    BY <1>0 DEF Progress, TallyStartsAtZero
  <2> QED
    BY <2>1, <2>2, <2>3, FS_EmptySet DEF TallyIsExact, NoCounts, Counters
<1>6. Progress(c)'
  BY <1>0, <1>4, <1>5 DEF Progress, TallyStartsAtZero
<1>7. ASSUME NEW e \in Connections, e # c PROVE Progress(e)'
  <2>1. pc[e] # "writing"
    BY <1>1, <1>7, ConnectionsAssumption DEF SyncInvariant, CallInProgress
  <2>2. /\ pc'[e] = pc[e] /\ call'[e] = call[e] /\ pending'[e] = pending[e]
        /\ doomed'[e] = doomed[e] /\ tally'[e] = tally[e]
    BY <1>0, <1>7 DEF BeginSync, TypeOK
  <2> QED
    BY <2>1, <2>2, OthersUndisturbed
<1> QED
  BY <1>3, <1>6, <1>7

----------------------------------------------------------------------------
(* Working through the documents.                                          *)

\* Counting changes the counters named, of the one connection.
LEMMA CountEffect ==
    ASSUME TypeOK, NEW c \in Connections, NEW names, Count(c, names)
    PROVE  /\ \A x \in Counters :
                 tally'[c][x] = IF x \in names THEN tally[c][x] + 1 ELSE tally[c][x]
           /\ \A e \in Connections : e # c => tally'[e] = tally[e]
BY DEF TypeOK, Count

\* A finite set with one path more, or as it was.
LEMMA OneMore ==
    ASSUME NEW S \in SUBSET Paths, NEW path \in Paths, path \notin S, NEW W, NEW b \in BOOLEAN,
           W = IF b THEN S \cup {path} ELSE S
    PROVE  Cardinality(W) = Cardinality(S) + (IF b THEN 1 ELSE 0) /\ Cardinality(S) \in Nat
<1>1. IsFiniteSet(S)
  BY SyncAssumption, FS_Subset
<1>2. Cardinality(S) \in Nat
  BY <1>1, FS_CardinalityType
<1>3. Cardinality(S \cup {path}) = Cardinality(S) + 1
  BY <1>1, FS_AddElement
<1> QED
  BY <1>2, <1>3

\* Dealing with one more document enlarges exactly one of the sets counted.
LEMMA DoneGrows ==
    ASSUME SyncInvariant, NEW c \in Connections, pc[c] = "writing",
           NEW path \in Paths, path \in pending[c],
           pending'[c] = pending[c] \ {path}, call'[c] = call[c],
           doomed'[c] = doomed[c], db' = db
    PROVE  LET old == Old(c, path)
               content == call[c].incoming[path]
               bound == call[c].bound
           IN  /\ Cardinality(CreatedSoFar(c)') =
                     Cardinality(CreatedSoFar(c)) + (IF old = None THEN 1 ELSE 0)
               /\ Cardinality(UpdatedSoFar(c)') =
                     Cardinality(UpdatedSoFar(c))
                       + (IF old # None /\ old.content # content THEN 1 ELSE 0)
               /\ Cardinality(ReprocessedSoFar(c)') =
                     Cardinality(ReprocessedSoFar(c))
                       + (IF old # None /\ old.content = content /\ old.bound # bound
                          THEN 1 ELSE 0)
               /\ Cardinality(UnchangedSoFar(c)') =
                     Cardinality(UnchangedSoFar(c))
                       + (IF old # None /\ old.content = content /\ old.bound = bound
                          THEN 1 ELSE 0)
               /\ DeletedSoFar(c)' = DeletedSoFar(c)
<1> DEFINE old == Old(c, path)
           content == call[c].incoming[path]
           bound == call[c].bound
           created == old = None
           updated == old # None /\ old.content # content
           reprocessed == old # None /\ old.content = content /\ old.bound # bound
           unchanged == old # None /\ old.content = content /\ old.bound = bound
<1>1. path \in New(c) /\ path \notin Done(c) /\ Done(c) \subseteq Paths
  BY DEF SyncInvariant, CallInProgress, New, Present, Done
<1>2. Done(c)' = Done(c) \cup {path}
  BY <1>1 DEF Done, New
<1>3. \A p \in Paths : Old(c, p)' = Old(c, p) /\ call'[c].incoming[p] = call[c].incoming[p]
  BY DEF Old, Doc
<1>4. /\ CreatedSoFar(c)' = IF created THEN CreatedSoFar(c) \cup {path} ELSE CreatedSoFar(c)
      /\ CreatedSoFar(c) \subseteq Done(c)
  BY <1>1, <1>2, <1>3 DEF CreatedSoFar
<1>5. /\ UpdatedSoFar(c)' = IF updated THEN UpdatedSoFar(c) \cup {path} ELSE UpdatedSoFar(c)
      /\ UpdatedSoFar(c) \subseteq Done(c)
  BY <1>1, <1>2, <1>3 DEF UpdatedSoFar
<1>6. /\ ReprocessedSoFar(c)' =
            IF reprocessed THEN ReprocessedSoFar(c) \cup {path} ELSE ReprocessedSoFar(c)
      /\ ReprocessedSoFar(c) \subseteq Done(c)
  BY <1>1, <1>2, <1>3 DEF ReprocessedSoFar
<1>7. /\ UnchangedSoFar(c)' =
            IF unchanged THEN UnchangedSoFar(c) \cup {path} ELSE UnchangedSoFar(c)
      /\ UnchangedSoFar(c) \subseteq Done(c)
  BY <1>1, <1>2, <1>3 DEF UnchangedSoFar
<1>8. DeletedSoFar(c)' = DeletedSoFar(c)
  BY DEF DeletedSoFar, New
<1>9. created \in BOOLEAN /\ updated \in BOOLEAN /\ reprocessed \in BOOLEAN /\ unchanged \in BOOLEAN
  OBVIOUS
<1> HIDE DEF created, updated, reprocessed, unchanged
<1>10. Cardinality(CreatedSoFar(c)') = Cardinality(CreatedSoFar(c)) + (IF created THEN 1 ELSE 0)
  BY <1>1, <1>4, <1>9, OneMore
<1>11. Cardinality(UpdatedSoFar(c)') = Cardinality(UpdatedSoFar(c)) + (IF updated THEN 1 ELSE 0)
  BY <1>1, <1>5, <1>9, OneMore
<1>12. Cardinality(ReprocessedSoFar(c)') =
          Cardinality(ReprocessedSoFar(c)) + (IF reprocessed THEN 1 ELSE 0)
  BY <1>1, <1>6, <1>9, OneMore
<1>13. Cardinality(UnchangedSoFar(c)') =
          Cardinality(UnchangedSoFar(c)) + (IF unchanged THEN 1 ELSE 0)
  BY <1>1, <1>7, <1>9, OneMore
<1> QED
  BY <1>8, <1>10, <1>11, <1>12, <1>13 DEF created, updated, reprocessed, unchanged

\* Leaving a document as it is completes it: it is stored as it came in.
LEMMA KeepUnchangedKeepsProgress ==
    ASSUME CommitInvariant, NEW c \in Connections, NEW path \in Paths, KeepUnchanged(c, path)
    PROVE  IndexFits' /\ \A e \in Connections : Progress(e)'
<1> USE DEF CommitInvariant
<1>0. /\ pc[c] = "writing" /\ path \in pending[c] /\ TypeOK
      /\ pc' = pc /\ call' = call /\ doomed' = doomed /\ db' = db /\ draft' = draft
      /\ pending' = [pending EXCEPT ![c] = @ \ {path}]
      /\ pending'[c] = pending[c] \ {path}
      /\ Count(c, {"unchanged"})
  BY DEF KeepUnchanged, SyncInvariant, TypeOK
<1>1. draft.documents[Doc(c, path)] = Old(c, path)
  BY <1>0 DEF Progress, TransactionScope, Replaced, Old
<1>2. /\ Old(c, path) # None /\ Old(c, path).content = call[c].incoming[path]
      /\ Old(c, path).bound = call[c].bound
  BY <1>1 DEF KeepUnchanged, Unchanged
<1>3. TransactionScope(c)'
  BY KeepUnchangedInScope DEF SyncInvariant, Progress
<1>4. TallyIsExact(c)'
  <2>1. /\ tally'[c]["created"] = tally[c]["created"]
        /\ tally'[c]["updated"] = tally[c]["updated"]
        /\ tally'[c]["reprocessed"] = tally[c]["reprocessed"]
        /\ tally'[c]["unchanged"] = tally[c]["unchanged"] + 1
        /\ tally'[c]["deleted"] = tally[c]["deleted"]
        /\ tally'[c]["reindexed"] = tally[c]["reindexed"]
    BY <1>0, CountEffect DEF Counters
  <2>2. /\ Cardinality(CreatedSoFar(c)') = Cardinality(CreatedSoFar(c)) + 0
        /\ Cardinality(UpdatedSoFar(c)') = Cardinality(UpdatedSoFar(c)) + 0
        /\ Cardinality(ReprocessedSoFar(c)') = Cardinality(ReprocessedSoFar(c)) + 0
        /\ Cardinality(UnchangedSoFar(c)') = Cardinality(UnchangedSoFar(c)) + 1
        /\ DeletedSoFar(c)' = DeletedSoFar(c)
    BY <1>0, <1>2, DoneGrows
  <2>3. tally[c] \in [Counters -> Nat]
    BY <1>0 DEF TypeOK
  <2> QED
    BY <1>0, <2>1, <2>2, <2>3 DEF Progress, TallyIsExact, IndexActive, Counters
<1>5. Progress(c)'
  BY <1>0, <1>3, <1>4 DEF Progress, TallyStartsAtZero
<1>6. ASSUME NEW e \in Connections, e # c PROVE Progress(e)'
  <2>1. pending'[e] = pending[e] /\ tally'[e] = tally[e]
    BY <1>0, <1>6, CountEffect DEF TypeOK
  <2> QED
    BY <1>0, <2>1, OthersUndisturbed
<1> QED
  BY <1>0, <1>5, <1>6 DEF IndexFits

LEMMA WriteDocumentKeepsProgress ==
    ASSUME CommitInvariant, NEW c \in Connections, NEW path \in Paths, WriteDocument(c, path)
    PROVE  IndexFits' /\ \A e \in Connections : Progress(e)'
<1> USE DEF CommitInvariant
<1> DEFINE names == {Outcome(c, path)} \cup (IF WritesVectors(c) THEN {"reindexed"} ELSE {})
<1>0. /\ pc[c] = "writing" /\ path \in pending[c] /\ TypeOK /\ call[c] \in Calls
      /\ pc' = pc /\ call' = call /\ doomed' = doomed /\ db' = db /\ owner = c
      /\ pending' = [pending EXCEPT ![c] = @ \ {path}]
      /\ pending'[c] = pending[c] \ {path}
      /\ Count(c, names)
  BY DEF WriteDocument, Execute, SyncInvariant, CallInProgress, TypeOK
<1>1. draft.documents[Doc(c, path)] = Old(c, path)
  BY <1>0 DEF Progress, TransactionScope, Replaced, Old
<1>2. /\ draft'.documents = [draft.documents EXCEPT ![Doc(c, path)] = NewRow(c, path)]
      /\ draft'.state = draft.state /\ draft'.vecDim = draft.vecDim
      /\ NewRow(c, path) # None /\ Doc(c, path) \in Documents
  BY <1>0, WriteDocumentRows, RowsAssumption DEF SyncInvariant
<1>3. /\ draft.documents \in [Documents -> Rows \cup {None}]
      /\ draft.state = db.state /\ draft.vecDim = db.vecDim
  BY <1>0 DEF TypeOK, StoreTypeOK, Tables, Progress, TransactionScope
<1>4. \/ Old(c, path) = None \/ Old(c, path).content # call[c].incoming[path]
      \/ Old(c, path).bound # call[c].bound
  BY <1>1 DEF WriteDocument, Unchanged
<1>5. /\ NewRow(c, path).content = call[c].incoming[path]
      /\ NewRow(c, path).bound = call[c].bound
  BY DEF NewRow
<1>6. TransactionScope(c)'
  BY WriteDocumentInScope DEF SyncInvariant, Progress
<1>7. TallyIsExact(c)'
  <2>0. WritesVectors(c) <=> IndexActive(db)
    BY <1>3 DEF WriteDocument, Writable, WritesVectors, IndexActive
  <2>1. Outcome(c, path) = IF Old(c, path) = None THEN "created"
                           ELSE IF Old(c, path).content # call[c].incoming[path] THEN "updated"
                           ELSE "reprocessed"
    BY <1>1 DEF Outcome
  <2> HIDE DEF names
  <2>2. \A x \in Counters :
           tally'[c][x] = IF x \in names THEN tally[c][x] + 1 ELSE tally[c][x]
    BY <1>0, CountEffect
  <2>3. tally[c] \in [Counters -> Nat]
    BY <1>0 DEF TypeOK
  <2>4. TallyIsExact(c)
    BY <1>0 DEF Progress
  <2>5. tally'[c]["unchanged"] = tally[c]["unchanged"] /\ tally'[c]["deleted"] = tally[c]["deleted"]
    BY <2>1, <2>2 DEF Counters, names
  <2>6. tally'[c]["reindexed"] =
           IF IndexActive(db) THEN tally[c]["reindexed"] + 1 ELSE tally[c]["reindexed"]
    BY <2>0, <2>1, <2>2 DEF Counters, names
  <2>7. pc'[c] = "writing" /\ (IndexActive(db') <=> IndexActive(db))
    BY <1>0
  <2>8. CASE Old(c, path) = None
    <3>1. /\ tally'[c]["created"] = tally[c]["created"] + 1
          /\ tally'[c]["updated"] = tally[c]["updated"]
          /\ tally'[c]["reprocessed"] = tally[c]["reprocessed"]
      BY <2>1, <2>2, <2>8 DEF Counters, names
    <3>2. /\ Cardinality(CreatedSoFar(c)') = Cardinality(CreatedSoFar(c)) + 1
          /\ Cardinality(UpdatedSoFar(c)') = Cardinality(UpdatedSoFar(c)) + 0
          /\ Cardinality(ReprocessedSoFar(c)') = Cardinality(ReprocessedSoFar(c)) + 0
          /\ Cardinality(UnchangedSoFar(c)') = Cardinality(UnchangedSoFar(c)) + 0
          /\ DeletedSoFar(c)' = DeletedSoFar(c)
      BY <1>0, <2>8, DoneGrows
    <3> QED
      BY <1>0, <2>3, <2>4, <2>5, <2>6, <2>7, <3>1, <3>2 DEF TallyIsExact, Counters
  <2>9. CASE Old(c, path) # None /\ Old(c, path).content # call[c].incoming[path]
    <3>1. /\ tally'[c]["created"] = tally[c]["created"]
          /\ tally'[c]["updated"] = tally[c]["updated"] + 1
          /\ tally'[c]["reprocessed"] = tally[c]["reprocessed"]
      BY <2>1, <2>2, <2>9 DEF Counters, names
    <3>2. /\ Cardinality(CreatedSoFar(c)') = Cardinality(CreatedSoFar(c)) + 0
          /\ Cardinality(UpdatedSoFar(c)') = Cardinality(UpdatedSoFar(c)) + 1
          /\ Cardinality(ReprocessedSoFar(c)') = Cardinality(ReprocessedSoFar(c)) + 0
          /\ Cardinality(UnchangedSoFar(c)') = Cardinality(UnchangedSoFar(c)) + 0
          /\ DeletedSoFar(c)' = DeletedSoFar(c)
      BY <1>0, <2>9, DoneGrows
    <3> QED
      BY <1>0, <2>3, <2>4, <2>5, <2>6, <2>7, <3>1, <3>2 DEF TallyIsExact, Counters
  <2>10. CASE Old(c, path) # None /\ Old(c, path).content = call[c].incoming[path]
    <3>1. /\ tally'[c]["created"] = tally[c]["created"]
          /\ tally'[c]["updated"] = tally[c]["updated"]
          /\ tally'[c]["reprocessed"] = tally[c]["reprocessed"] + 1
      BY <2>1, <2>2, <2>10 DEF Counters, names
    <3>2. /\ Cardinality(CreatedSoFar(c)') = Cardinality(CreatedSoFar(c)) + 0
          /\ Cardinality(UpdatedSoFar(c)') = Cardinality(UpdatedSoFar(c)) + 0
          /\ Cardinality(ReprocessedSoFar(c)') = Cardinality(ReprocessedSoFar(c)) + 1
          /\ Cardinality(UnchangedSoFar(c)') = Cardinality(UnchangedSoFar(c)) + 0
          /\ DeletedSoFar(c)' = DeletedSoFar(c)
      BY <1>0, <1>4, <2>10, DoneGrows
    <3> QED
      BY <1>0, <2>3, <2>4, <2>5, <2>6, <2>7, <3>1, <3>2 DEF TallyIsExact, Counters
  <2> QED
    BY <2>8, <2>9, <2>10
<1>8. Progress(c)'
  BY <1>0, <1>6, <1>7 DEF Progress, TallyStartsAtZero
<1>9. ASSUME NEW e \in Connections, e # c PROVE Progress(e)'
  <2>1. pending'[e] = pending[e] /\ tally'[e] = tally[e] /\ pc[e] # "writing"
    BY <1>0, <1>9, CountEffect, OneWriter DEF TypeOK
  <2> QED
    BY <1>0, <2>1, OthersUndisturbed
<1> QED
  BY <1>0, <1>8, <1>9 DEF IndexFits

LEMMA DeleteMissingKeepsProgress ==
    ASSUME CommitInvariant, NEW c \in Connections, NEW path \in Paths, DeleteMissing(c, path)
    PROVE  IndexFits' /\ \A e \in Connections : Progress(e)'
<1> USE DEF CommitInvariant
<1> DEFINE d == Doc(c, path)
<1>0. /\ pc[c] = "writing" /\ path \in doomed[c] /\ TypeOK /\ call[c] \in Calls
      /\ pc' = pc /\ call' = call /\ pending' = pending /\ db' = db /\ owner = c
      /\ doomed' = [doomed EXCEPT ![c] = @ \ {path}]
      /\ doomed'[c] = doomed[c] \ {path}
      /\ draft' = WithoutDocument(draft, d)
      /\ Count(c, {"deleted"})
  BY DEF DeleteMissing, Execute, SyncInvariant, CallInProgress, TypeOK
<1>1. d \in Documents /\ draft \in Tables
  BY <1>0 DEF Doc, Calls, Documents, TypeOK, StoreTypeOK
<1>2. /\ draft'.documents = [draft.documents EXCEPT ![d] = None]
      /\ draft'.state = draft.state /\ draft'.vecDim = draft.vecDim
  BY <1>0, <1>1, WithoutDocumentEffect DEF DocumentRemoved
<1>3. draft.documents \in [Documents -> Rows \cup {None}]
  BY <1>1 DEF Tables
<1>4. path \in Stored(db, call[c].source) \ New(c)
  BY <1>0 DEF Progress, TransactionScope
<1> HIDE DEF d
<1>5. TransactionScope(c)'
  BY DeleteMissingInScope DEF SyncInvariant, Progress
<1>6. TallyIsExact(c)'
  <2>1. /\ tally'[c]["created"] = tally[c]["created"]
        /\ tally'[c]["updated"] = tally[c]["updated"]
        /\ tally'[c]["reprocessed"] = tally[c]["reprocessed"]
        /\ tally'[c]["unchanged"] = tally[c]["unchanged"]
        /\ tally'[c]["deleted"] = tally[c]["deleted"] + 1
        /\ tally'[c]["reindexed"] = tally[c]["reindexed"]
    BY <1>0, CountEffect DEF Counters
  <2>2. Cardinality(DeletedSoFar(c)') = Cardinality(DeletedSoFar(c)) + 1
    <3>1. DeletedSoFar(c)' = DeletedSoFar(c) \cup {path} /\ path \notin DeletedSoFar(c)
      BY <1>0, <1>4 DEF DeletedSoFar, New
    <3>2. DeletedSoFar(c) \subseteq Paths
      BY DEF DeletedSoFar, Stored
    <3> QED
      BY <3>1, <3>2, OneMore
  <2>3. /\ CreatedSoFar(c)' = CreatedSoFar(c) /\ UpdatedSoFar(c)' = UpdatedSoFar(c)
        /\ ReprocessedSoFar(c)' = ReprocessedSoFar(c) /\ UnchangedSoFar(c)' = UnchangedSoFar(c)
    BY <1>0 DEF CreatedSoFar, UpdatedSoFar, ReprocessedSoFar, UnchangedSoFar, Done, New, Old, Doc
  <2>4. TallyIsExact(c)
    BY DEF Progress
  <2> QED
    BY <1>0, <2>1, <2>2, <2>3, <2>4 DEF TallyIsExact, IndexActive
<1>7. Progress(c)'
  BY <1>0, <1>5, <1>6 DEF Progress, TallyStartsAtZero
<1>8. ASSUME NEW e \in Connections, e # c PROVE Progress(e)'
  <2>1. doomed'[e] = doomed[e] /\ tally'[e] = tally[e] /\ pc[e] # "writing"
    BY <1>0, <1>8, CountEffect, OneWriter DEF TypeOK
  <2> QED
    BY <1>0, <2>1, OthersUndisturbed
<1> QED
  BY <1>0, <1>7, <1>8 DEF IndexFits

LEMMA CommitKeepsProgress ==
    ASSUME CommitInvariant, NEW c \in Connections, CommitSync(c)
    PROVE  IndexFits' /\ \A e \in Connections : Progress(e)'
<1> USE DEF CommitInvariant
<1>0. pc[c] = "writing" /\ owner = c /\ db' = draft
  BY DEF CommitSync, Commit
<1>1. IndexFits'
  BY <1>0 DEF IndexFits, Progress, TransactionScope
<1>2. Progress(c)'
  BY ReturnEndsProgress DEF SyncInvariant, CommitSync
<1>3. ASSUME NEW e \in Connections, e # c PROVE Progress(e)'
  <2>1. pc[e] # "writing"
    BY <1>0, <1>3, OneWriter
  <2>2. /\ pc'[e] = pc[e] /\ call'[e] = call[e] /\ pending'[e] = pending[e]
        /\ doomed'[e] = doomed[e] /\ tally'[e] = tally[e]
    BY <1>3 DEF CommitSync, Return, SyncInvariant, TypeOK
  <2> QED
    BY <2>1, <2>2, OthersUndisturbed
<1> QED
  BY <1>1, <1>2, <1>3

LEMMA InitStartsProgress == Init => CommitInvariant
<1> SUFFICES ASSUME Init PROVE CommitInvariant
  OBVIOUS
<1>1. SyncInvariant
  BY InitEstablishes
<1>2. IndexFits
  <2>1. PICK T \in InitialTables : db = T
    BY DEF Init, StoreInit
  <2>2. CASE T = EmptyTables
    BY <2>1, <2>2 DEF EmptyTables, IndexFits
  <2>3. ASSUME NEW p \in Providers,
               T = [EmptyTables EXCEPT !.vecDim = p.dimension,
                                       !.state = [fingerprint |-> EmbeddingFingerprint(p),
                                                  dimension |-> p.dimension]]
        PROVE  IndexFits
    BY <2>1, <2>3 DEF EmptyTables, IndexFits
  <2> QED
    BY <2>1, <2>2, <2>3 DEF InitialTables
<1>3. \A c \in Connections : Progress(c)
  BY DEF Init, SyncInit, Progress, TransactionScope, TallyIsExact, TallyStartsAtZero
<1> QED
  BY <1>1, <1>2, <1>3 DEF CommitInvariant

LEMMA NextKeepsProgress == CommitInvariant /\ [Next]_vars => CommitInvariant'
<1> SUFFICES ASSUME CommitInvariant, [Next]_vars
             PROVE  IndexFits' /\ \A e \in Connections : Progress(e)'
  BY NextPreserves DEF CommitInvariant
<1>1. ASSUME NEW c \in Connections, NEW s \in Sources, NEW snapshot \in Snapshots,
             NEW bound \in Bounds, NEW provider \in Providers \cup {None},
             Call(c, s, snapshot, bound, provider)
      PROVE  IndexFits' /\ \A e \in Connections : Progress(e)'
  BY <1>1, CallKeepsProgress
<1>2. ASSUME NEW c \in Connections, SyncStep(c)
      PROVE  IndexFits' /\ \A e \in Connections : Progress(e)'
  <2>1. CASE BeginSync(c)
    BY <2>1, BeginStartsProgress
  <2>2. CASE RejectIncompatible(c)
    BY <2>2, GivingUpPreserves DEF RejectIncompatible, storeVars
  <2>3. CASE LockTimeout(c)
    BY <2>3, GivingUpPreserves DEF LockTimeout, storeVars
  <2>4. CASE \E path \in Paths : KeepUnchanged(c, path)
    BY <2>4, KeepUnchangedKeepsProgress
  <2>5. CASE \E path \in Paths : WriteDocument(c, path)
    BY <2>5, WriteDocumentKeepsProgress
  <2>6. CASE \E path \in Paths : RejectWrite(c, path)
    BY <2>6, GivingUpPreserves DEF RejectWrite
  <2>7. CASE \E path \in Paths : DeleteMissing(c, path)
    BY <2>7, DeleteMissingKeepsProgress
  <2>8. CASE RejectDelete(c)
    BY <2>8, GivingUpPreserves DEF RejectDelete
  <2>9. CASE CommitSync(c)
    BY <2>9, CommitKeepsProgress
  <2> QED
    BY <1>2, <2>1, <2>2, <2>3, <2>4, <2>5, <2>6, <2>7, <2>8, <2>9 DEF SyncStep
<1>3. ASSUME NEW c \in Connections, Abort(c)
      PROVE  IndexFits' /\ \A e \in Connections : Progress(e)'
  BY <1>3, GivingUpPreserves DEF Abort
<1>4. CASE UNCHANGED vars
  <2>1. IndexFits'
    BY <1>4 DEF vars, IndexFits, CommitInvariant
  <2>2. ASSUME NEW e \in Connections PROVE Progress(e)'
    BY <1>4, OthersUndisturbed DEF vars, CommitInvariant
  <2> QED
    BY <2>1, <2>2
<1>5. CASE Quiescent
  BY <1>4, <1>5 DEF Quiescent
<1> QED
  BY <1>1, <1>2, <1>3, <1>4, <1>5 DEF Next

\* What a transaction has done, and has counted, is always told by what is
\* committed, the call, and the paths it still has before it.
THEOREM CommitInvariance == Spec => []CommitInvariant
BY InitStartsProgress, NextKeepsProgress, PTL DEF Spec

----------------------------------------------------------------------------
(* What a commit does.                                                     *)

\* A commit rewrites what changed in its own source, and nothing else.
THEOREM CommitsScoped == Spec => CommitsAreSourceScoped
<1> DEFINE Scoped(c) ==
      /\ db'.state = db.state /\ db'.vecDim = db.vecDim
      /\ \A d \in Documents :
            LET before == db.documents[d]
                after == db'.documents[d]
            IN  before # after =>
                  /\ d[1] = call[c].source
                  /\ \/ before = None \/ after = None
                     \/ before.content # after.content
                     \/ before.bound # after.bound
<1>1. ASSUME CommitInvariant, NEW c \in Connections, CommitSync(c)
      PROVE  Scoped(c)
  <2>0. CallInProgress(c) /\ TransactionScope(c)
    BY <1>1 DEF CommitInvariant, SyncInvariant, Progress
  <2>1. ASSUME NEW d \in Documents, db.documents[d] # db'.documents[d]
        PROVE  /\ d[1] = call[c].source
               /\ \/ db.documents[d] = None \/ db'.documents[d] = None
                  \/ db.documents[d].content # db'.documents[d].content
                  \/ db.documents[d].bound # db'.documents[d].bound
    <3>1. d[1] = call[c].source
      BY <1>1, <2>0, <2>1, CommittedRows
    <3>2. PICK path \in Paths : d = Doc(c, path)
      BY <3>1 DEF Doc, Documents
    <3>3. CASE path \in New(c)
      BY <1>1, <2>0, <2>1, <3>1, <3>2, <3>3, CommittedRows DEF Old
    <3>4. CASE path \notin New(c)
      BY <1>1, <2>0, <3>1, <3>2, <3>4, CommittedRows
    <3> QED
      BY <3>3, <3>4
  <2> QED
    BY <1>1, <2>0, <2>1, CommittedRows
<1>2. CommitInvariant => [\A c \in Connections : CommitSync(c) => Scoped(c)]_vars
  BY <1>1
<1> QED
  BY <1>2, CommitInvariance, PTL DEF CommitsAreSourceScoped

\* The result a sync returns is true of the database its commit replaced.
THEOREM CountsTrue == Spec => CountsDescribeCommit
<1>1. ASSUME CommitInvariant, NEW c \in Connections, CommitSync(c)
      PROVE  CountsDescribe(c)
  <2> DEFINE s == call[c].source
             kept == {path \in Stored(db, s) : path \in Stored(db', s)}
  <2>0. /\ pc[c] = "writing" /\ pending[c] = {} /\ doomed[c] = {} /\ TallyIsExact(c)
        /\ New(c) \subseteq Paths /\ CallInProgress(c) /\ TransactionScope(c)
    BY <1>1 DEF CommitSync, CommitInvariant, SyncInvariant, Progress, New, Present
  <2>1. Done(c) = New(c)
    BY <2>0 DEF Done
  <2>2. \A path \in Paths : Doc(c, path) = <<s, path>>
    BY DEF Doc
  <2>3. Stored(db', s) = New(c)
    BY <1>1, <2>0, <2>2, CommittedRows DEF Stored
  <2>4. CreatedSoFar(c) = Stored(db', s) \ Stored(db, s)
    BY <2>0, <2>1, <2>2, <2>3 DEF CreatedSoFar, Old, Stored
  <2>5. DeletedSoFar(c) = Stored(db, s) \ Stored(db', s)
    BY <2>0, <2>3 DEF DeletedSoFar
  <2>6. kept = {path \in New(c) : Old(c, path) # None}
    BY <2>0, <2>2, <2>3 DEF Stored, Old
  <2>7. ASSUME NEW path \in New(c)
        PROVE  /\ db.documents[<<s, path>>] = Old(c, path)
               /\ db'.documents[<<s, path>>].content = call[c].incoming[path]
               /\ db'.documents[<<s, path>>].bound = call[c].bound
               /\ \/ db'.documents[<<s, path>>] = Old(c, path) \/ Old(c, path) = None
                  \/ Old(c, path).content # call[c].incoming[path]
                  \/ Old(c, path).bound # call[c].bound
    BY <1>1, <2>0, <2>2, CommittedRows DEF Old
  <2> HIDE DEF s, kept
  <2>8. UnchangedSoFar(c) =
          {path \in kept : db.documents[<<s, path>>] = db'.documents[<<s, path>>]}
    BY <2>1, <2>6, <2>7 DEF UnchangedSoFar
  <2>9. UpdatedSoFar(c) =
          {path \in kept : ~(db.documents[<<s, path>>].content
                               = db'.documents[<<s, path>>].content)}
    BY <2>1, <2>6, <2>7 DEF UpdatedSoFar
  <2>10. ReprocessedSoFar(c) =
          {path \in kept :
              /\ db.documents[<<s, path>>].content = db'.documents[<<s, path>>].content
              /\ ~(db.documents[<<s, path>>] = db'.documents[<<s, path>>])}
    BY <2>1, <2>6, <2>7 DEF ReprocessedSoFar
  <2> QED
    BY <2>0, <2>4, <2>5, <2>8, <2>9, <2>10 DEF CountsDescribe, TallyIsExact, s, kept
<1>2. CommitInvariant => [\A c \in Connections : CommitSync(c) => CountsDescribe(c)]_vars
  BY <1>1
<1> QED
  BY <1>2, CommitInvariance, PTL DEF CountsDescribeCommit
----------------------------------------------------------------------------
(* sync_source implements the knowledge base.                              *)

\* The two modules share their vocabulary.
LEMMA SharedVocabulary ==
    /\ KB!Documents = Documents /\ KB!Chunks = Chunks /\ KB!Fingerprints = Fingerprints
    /\ \A k : KB!DocumentOf(k) = DocumentOf(k) /\ KB!PositionOf(k) = PositionOf(k)
    /\ \A content, bound : KB!ChunkTexts(content, bound) = ChunkTexts(content, bound)
    /\ \A f, text : KB!Embedding(f, text) = Embedding(f, text)
BY DEF KB!Documents, Documents, KB!Chunks, Chunks, KB!Fingerprints, Fingerprints,
       KB!DocumentOf, DocumentOf, KB!PositionOf, PositionOf, KB!ChunkTexts, ChunkTexts,
       KB!Embedding, Embedding

\* A vector index can be searched when its table has the dimension recorded.
Serves(T) == T.state # None /\ T.vecDim = T.state.dimension

\* Then it holds the embedding of every chunk, and otherwise nothing.
SearchExact(T) ==
    \A k \in Chunks :
        T.vec[k] = IF ~Serves(T) \/ T.chunks[k] = None THEN None
                   ELSE Embedding(T.state.fingerprint, T.chunks[k])

\* What outsiders see of the database is a state of the knowledge base.
Seen ==
    /\ FoundLexically = KB!LexicalView(StoredLibrary)
    /\ db.vec = KB!SemanticView(FoundLexically, ActiveFingerprint)

\* What lexical and vector search find in exact tables is what the stored
\* library stands for.
LEMMA ViewsAreExact ==
    ASSUME db \in Tables, ChunksMatch(db), LexicalAgrees(db), SearchExact(db)
    PROVE  Seen
<1>0. /\ db.chunks \in [Chunks -> Texts \cup {None}]
      /\ db.documents \in [Documents -> Rows \cup {None}]
      /\ db.vec \in [Chunks -> Vectors \cup {None}]
  BY DEF Tables
<1>1. ASSUME NEW k \in Chunks PROVE FoundLexically[k] = db.chunks[k]
  <2>1. db.fts[k] = IF db.chunks[k] = None THEN <<>> ELSE <<db.chunks[k]>>
    BY DEF LexicalAgrees
  <2>2. <<db.chunks[k]>> # <<>>
    OBVIOUS
  <2>3. FoundLexically[k] = IF db.fts[k] = <<>> THEN None ELSE db.chunks[k]
    BY DEF FoundLexically
  <2> QED
    BY <2>1, <2>2, <2>3
<1>2. ASSUME NEW d \in Documents
      PROVE  /\ db.documents[d] = None => StoredLibrary[d] = None
             /\ db.documents[d] # None =>
                   /\ StoredLibrary[d] # None
                   /\ StoredLibrary[d].content = db.documents[d].content
                   /\ StoredLibrary[d].bound = db.documents[d].bound
  <2>1. StoredLibrary[d] =
           IF db.documents[d] = None THEN None
           ELSE [content |-> db.documents[d].content, bound |-> db.documents[d].bound]
    BY DEF StoredLibrary
  <2>2. db.documents[d] # None =>
           [content |-> db.documents[d].content, bound |-> db.documents[d].bound]
              \in [content : Contents, bound : Bounds]
    BY <1>0 DEF Rows
  <2> QED
    BY <2>1, <2>2, AbsenceAssumption
<1>3. FoundLexically = KB!LexicalView(StoredLibrary)
  <2>1. ASSUME NEW k \in Chunks
        PROVE  FoundLexically[k] =
                 IF StoredLibrary[DocumentOf(k)] = None THEN None
                 ELSE ChunkTexts(StoredLibrary[DocumentOf(k)].content,
                                 StoredLibrary[DocumentOf(k)].bound)[PositionOf(k)]
    BY <1>1, <1>2, ChunkParts DEF ChunksMatch
  <2>2. FoundLexically = [k \in Chunks |-> FoundLexically[k]]
    BY DEF FoundLexically
  <2> QED
    BY <2>1, <2>2, SharedVocabulary DEF KB!LexicalView
<1>4. db.vec = KB!SemanticView(FoundLexically, ActiveFingerprint)
  <2>1. /\ Serves(db) => ActiveFingerprint = db.state.fingerprint
        /\ Serves(db) => ActiveFingerprint # None
        /\ ~Serves(db) => ActiveFingerprint = None
    <3>1. db.state # None => db.state.fingerprint \in Fingerprints
      BY DEF Tables, IndexStates
    <3> QED
      BY <3>1, AbsenceAssumption DEF Serves, ActiveFingerprint
  <2>2. ASSUME NEW k \in Chunks
        PROVE  db.vec[k] = IF ActiveFingerprint = None \/ FoundLexically[k] = None THEN None
                           ELSE Embedding(ActiveFingerprint, FoundLexically[k])
    <3>1. db.vec[k] = IF ~Serves(db) \/ db.chunks[k] = None THEN None
                      ELSE Embedding(db.state.fingerprint, db.chunks[k])
      BY DEF SearchExact
    <3> QED
      BY <1>1, <2>1, <3>1
  <2>3. db.vec = [k \in Chunks |-> db.vec[k]]
    BY <1>0
  <2> QED
    BY <2>2, <2>3, SharedVocabulary DEF KB!SemanticView
<1> QED
  BY <1>3, <1>4 DEF Seen

\* Tables that sync_source alone has written are exact.
LEMMA ConsistentIsSeen == CommitInvariant => Seen
<1> SUFFICES ASSUME CommitInvariant PROVE Seen
  OBVIOUS
<1>1. SearchExact(db)
  BY DEF CommitInvariant, SyncInvariant, IndexFits, Consistent, VectorsAgree, IndexActive,
         SearchExact, Serves
<1> QED
  BY <1>1, ViewsAreExact DEF CommitInvariant, SyncInvariant, TypeOK, StoreTypeOK, Consistent

LEMMA SeenAfterStep == CommitInvariant' => Seen'
BY ConsistentIsSeen, PTL

\* A new database is an empty knowledge base, with an index or without.
LEMMA InitRefines == Init => KB!Init
<1> SUFFICES ASSUME Init PROVE KB!Init
  OBVIOUS
<1>1. CommitInvariant
  BY InitStartsProgress
<1>2. db \in Tables /\ Seen
  BY <1>1, ConsistentIsSeen DEF CommitInvariant, SyncInvariant, TypeOK, StoreTypeOK
<1>3. \A d \in Documents : db.documents[d] = None
  <2>1. PICK T \in InitialTables : db = T
    BY DEF Init, StoreInit
  <2>2. T.documents = EmptyTables.documents
    BY DEF InitialTables, EmptyTables
  <2> QED
    BY <2>1, <2>2 DEF EmptyTables
<1>4. StoredLibrary = [d \in KB!Documents |-> None]
  BY <1>3, SharedVocabulary DEF StoredLibrary
<1>5. ActiveFingerprint \in KB!Fingerprints \cup {None}
  BY <1>2, SharedVocabulary DEF ActiveFingerprint, Tables, IndexStates
<1> QED
  BY <1>2, <1>4, <1>5 DEF KB!Init, Seen

\* A commit is a replacement of the call's source by its snapshot.
LEMMA CommitReplaces ==
    ASSUME NEW c \in Connections, CallInProgress(c), TransactionScope(c), CommitSync(c), Seen'
    PROVE  KB!Replace(call[c].source, call[c].incoming, call[c].bound)
<1> DEFINE s == call[c].source
           snapshot == call[c].incoming
           bound == call[c].bound
           entry(d) == IF db.documents[d] = None THEN None
                       ELSE [content |-> db.documents[d].content,
                             bound |-> db.documents[d].bound]
<1>1. ASSUME NEW d \in Documents
      PROVE  StoredLibrary'[d] =
               IF d[1] # s THEN StoredLibrary[d]
               ELSE IF snapshot[d[2]] = None THEN None
               ELSE [content |-> snapshot[d[2]], bound |-> bound]
  <2>1. StoredLibrary'[d] = entry(d)' /\ StoredLibrary[d] = entry(d)
    BY DEF StoredLibrary
  <2>2. CASE d[1] # s
    <3>1. db'.documents[d] = db.documents[d]
      BY <2>2, CommittedRows
    <3> QED
      BY <2>1, <2>2, <3>1
  <2>3. CASE d[1] = s
    <3>1. d[2] \in Paths /\ d = Doc(c, d[2])
      BY <2>3 DEF Documents, Doc
    <3>2. CASE snapshot[d[2]] = None
      <4>1. db'.documents[d] = None
        BY <3>1, <3>2, CommittedRows DEF New, Present
      <4> QED
        BY <2>1, <2>3, <3>2, <4>1
    <3>3. CASE snapshot[d[2]] # None
      <4>1. /\ db'.documents[d] # None
            /\ db'.documents[d].content = snapshot[d[2]] /\ db'.documents[d].bound = bound
        BY <3>1, <3>3, CommittedRows DEF New, Present
      <4> QED
        BY <2>1, <2>3, <3>3, <4>1
    <3> QED
      BY <3>2, <3>3
  <2> QED
    BY <2>2, <2>3
<1>2. StoredLibrary' = KB!Replaced(s, snapshot, bound)
  <2>1. StoredLibrary' = [d \in Documents |-> StoredLibrary'[d]]
    BY DEF StoredLibrary
  <2> QED
    BY <1>1, <2>1, SharedVocabulary DEF KB!Replaced
<1>3. ActiveFingerprint' = ActiveFingerprint
  BY CommittedRows DEF ActiveFingerprint
<1> QED
  BY <1>2, <1>3 DEF KB!Replace, Seen

\* Every other step leaves what is committed alone.
LEMMA OnlyCommitsWrite ==
    ASSUME CommitInvariant, [Next]_vars
    PROVE  db' = db \/ \E c \in Connections : CommitSync(c)
<1>1. ASSUME NEW c \in Connections, SyncStep(c), ~CommitSync(c)
      PROVE  db' = db
  BY <1>1 DEF SyncStep, BeginSync, RejectIncompatible, LockTimeout, KeepUnchanged,
              WriteDocument, RejectWrite, DeleteMissing, RejectDelete, Execute, Rollback,
              storeVars
<1>2. ASSUME NEW c \in Connections, Abort(c) PROVE db' = db
  BY <1>2 DEF Abort, Rollback, storeVars
<1> QED
  BY <1>1, <1>2 DEF Next, Call, Quiescent, vars

\* sync_source, in any number of processes that fail and die, implements the
\* one-step replacement of a source by its snapshot: what is searched and what
\* is stored change together, at the commit, and only for its source.
THEOREM SyncImplementsKnowledgeBase == Spec => ImplementsKnowledgeBase
<1>1. CommitInvariant /\ CommitInvariant' /\ [Next]_vars => [KB!Next]_(KB!vars)
  <2> SUFFICES ASSUME CommitInvariant, CommitInvariant', [Next]_vars
               PROVE  [KB!Next]_(KB!vars)
    OBVIOUS
  <2>1. CASE db' = db
    <3>1. /\ StoredLibrary' = StoredLibrary /\ FoundLexically' = FoundLexically
          /\ ActiveFingerprint' = ActiveFingerprint
      BY <2>1 DEF StoredLibrary, FoundLexically, ActiveFingerprint
    <3> QED
      BY <2>1, <3>1 DEF KB!vars
  <2>2. ASSUME NEW c \in Connections, CommitSync(c)
        PROVE  KB!Next
    <3>0. CallInProgress(c) /\ TransactionScope(c)
      BY DEF CommitInvariant, SyncInvariant, Progress
    <3>1. KB!Replace(call[c].source, call[c].incoming, call[c].bound)
      BY <2>2, <3>0, CommitReplaces, SeenAfterStep
    <3>2. call[c] \in Calls
      BY <2>2, <3>0, CommittedRows
    <3> QED
      BY <3>1, <3>2 DEF KB!Next, Calls, Snapshots
  <2> QED
    BY <2>1, <2>2, OnlyCommitsWrite
<1> QED
  BY <1>1, InitRefines, CommitInvariance, PTL DEF Spec, ImplementsKnowledgeBase, KB!Spec
=============================================================================
