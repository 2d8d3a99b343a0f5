----------------------------- MODULE SqliteStore ----------------------------
(***************************************************************************)
(* The tables of one database file, the statements SqliteRepository runs   *)
(* on them, and the transactions Python's sqlite3 puts around statements.  *)
(*                                                                         *)
(* sqlite3 opens a transaction before the first INSERT, UPDATE or DELETE   *)
(* and never before DDL, so a CREATE or DROP outside a transaction is      *)
(* committed on its own, inside a `with connection:` block too.  A         *)
(* transaction that has written holds the file's write lock until it ends; *)
(* its changes live in `draft` and reach `db` at commit.  SELECTs outside  *)
(* a transaction read `db`.                                                *)
(***************************************************************************)
EXTENDS Corpus, Sequences

CONSTANT Connections   \* open SqliteRepository objects, one per process

ASSUME ConnectionsAssumption == None \notin Connections

VARIABLES
    db,     \* committed contents of the tables
    owner,  \* the connection whose transaction holds the write lock, or None
    draft   \* the tables as the owner's transaction sees them

storeVars == <<db, owner, draft>>

Rows == [content : Contents, bound : Bounds, ingestedAt : Nat]
IndexStates == [fingerprint : Fingerprints, dimension : Dimensions]

\* A missing row is not a row.
ASSUME RowsAssumption == None \notin Rows

\* Nor is what is absent a document, a vector or anything about an index.
ASSUME AbsenceAssumption ==
    /\ None \notin [content : Contents, bound : Bounds]
    /\ None \notin Fingerprints
    /\ None \notin Vectors
    /\ None \notin IndexStates

\* vecDim is the dimension vec_chunks was created with, 0 when there is no
\* such table; fts holds the rows chunk_fts has under a chunk id.
Tables ==
    [sources   : SUBSET Sources,
     documents : [Documents -> Rows \cup {None}],
     chunks    : [Chunks -> Texts \cup {None}],
     fts       : [Chunks -> Seq(Texts)],
     vec       : [Chunks -> Vectors \cup {None}],
     vecDim    : Dimensions \cup {0},
     state     : IndexStates \cup {None}]

NoVectors == [k \in Chunks |-> None]

EmptyTables ==
    [sources   |-> {},
     documents |-> [d \in Documents |-> None],
     chunks    |-> [k \in Chunks |-> None],
     fts       |-> [k \in Chunks |-> <<>>],
     vec       |-> NoVectors,
     vecDim    |-> 0,
     state     |-> None]

StoreTypeOK ==
    /\ db \in Tables
    /\ owner \in Connections \cup {None}
    /\ draft \in Tables

----------------------------------------------------------------------------
(* Statements, as functions from tables to tables.                         *)

UpsertSource(T, s) == [T EXCEPT !.sources = @ \cup {s}]

UpsertDocument(T, d, row) == [T EXCEPT !.documents[d] = row]

\* Mutants of the deletions below: the statement is forgotten.
KeepFts(T, d) == T
KeepChunks(T, d) == T
KeepVectors(T, d) == T

DeleteFts(T, d) ==
    [T EXCEPT !.fts = [k \in Chunks |-> IF DocumentOf(k) = d THEN <<>> ELSE T.fts[k]]]

DeleteChunks(T, d) ==
    [T EXCEPT !.chunks = [k \in Chunks |-> IF DocumentOf(k) = d THEN None ELSE T.chunks[k]]]

DeleteVectors(T, d) ==
    [T EXCEPT !.vec = [k \in Chunks |-> IF DocumentOf(k) = d THEN None ELSE T.vec[k]]]

\* Deleting a documents row cascades to its chunks, and to nothing else.
DeleteDocumentRow(T, d) == [DeleteChunks(T, d) EXCEPT !.documents[d] = None]

\* A chunk of document d that a list of chunk texts has.
Supplied(k, d, texts) == DocumentOf(k) = d /\ texts[PositionOf(k)] # None

InsertChunks(T, d, texts) ==
    [T EXCEPT !.chunks = [k \in Chunks |->
        IF Supplied(k, d, texts) THEN texts[PositionOf(k)] ELSE T.chunks[k]]]

\* Mutant: a lexical entry for every position, whether a chunk is there or not.
InsertFtsBlanks(T, d, texts) ==
    [T EXCEPT !.fts = [k \in Chunks |->
        IF DocumentOf(k) = d THEN Append(T.fts[k], texts[PositionOf(k)]) ELSE T.fts[k]]]

InsertFts(T, d, texts) ==
    [T EXCEPT !.fts = [k \in Chunks |->
        IF Supplied(k, d, texts) THEN Append(T.fts[k], texts[PositionOf(k)])
        ELSE T.fts[k]]]

InsertVectors(T, d, texts, fingerprint) ==
    [T EXCEPT !.vec = [k \in Chunks |->
        IF Supplied(k, d, texts) THEN Embedding(fingerprint, texts[PositionOf(k)])
        ELSE T.vec[k]]]

----------------------------------------------------------------------------
(* Transactions.                                                           *)

StoreInit(initial) ==
    /\ db = initial
    /\ owner = None
    /\ draft = initial

\* A data statement: begins the transaction when none is open, and needs
\* the write lock, which at most one connection has.
Execute(c, result) ==
    /\ owner \in {None, c}
    /\ owner' = c
    /\ draft' = result
    /\ UNCHANGED db

\* A schema statement outside a transaction: committed at once.
ExecuteSchema(c, result) ==
    /\ owner = None
    /\ db' = result
    /\ draft' = result
    /\ UNCHANGED owner

Commit(c) ==
    /\ owner = c
    /\ db' = draft
    /\ owner' = None
    /\ UNCHANGED draft

\* The end of the block by an exception, and of the process: SQLite undoes
\* the open transaction, and only that.
Rollback(c) ==
    IF owner = c
    THEN /\ owner' = None
         /\ draft' = db
         /\ UNCHANGED db
    ELSE UNCHANGED storeVars

Locked(c) == owner \notin {None, c}

\* The abstract view of the committed tables.
StoredLibrary ==
    [d \in Documents |->
        IF db.documents[d] = None THEN None
        ELSE [content |-> db.documents[d].content, bound |-> db.documents[d].bound]]

\* What lexical search returns under a chunk id: chunk_fts joined with chunks.
FoundLexically ==
    [k \in Chunks |-> IF db.fts[k] = <<>> THEN None ELSE db.chunks[k]]

\* The space vector search answers in: a query against a missing table, or
\* one of another dimension than recorded, is an error.
ActiveFingerprint ==
    IF db.state = None THEN None
    ELSE IF db.vecDim # db.state.dimension THEN None
    ELSE db.state.fingerprint
=============================================================================
