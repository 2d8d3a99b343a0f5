--------------------------- MODULE SchemaMigration --------------------------
(***************************************************************************)
(* SqliteRepository._initialize_schema: what opening a database does to    *)
(* its schema, statement by statement, with several processes opening one  *)
(* file and any of them dying on the way.                                  *)
(*                                                                         *)
(* `with self._connection` opens no transaction for DDL or PRAGMA: each    *)
(* CREATE commits on its own (executescript runs in autocommit as well).   *)
(* Only the INSERTs of the version-1 backfill begin one, and what follows  *)
(* them is inside it.                                                      *)
(***************************************************************************)
EXTENDS Naturals, Sequences, FiniteSets

CONSTANTS
    Openers,       \* processes opening the file for writing
    Readers,       \* processes opening it read-only
    OldChunks,     \* chunks a database of an earlier version holds
    FirstVersions, \* versions the file may have at the start
    MaxOpens,      \* bound: attempts to open in a behaviour
    None

ASSUME OpenAssumption ==
    /\ Openers \cap Readers = {}
    /\ None \notin Openers \cup Readers
    /\ FirstVersions \subseteq Nat
    /\ MaxOpens \in Nat

SchemaVersion == 3

\* The statements of _NORMALIZED_SCHEMA_SQL, by what they create, in order.
NormalizedSchema ==
    <<"document_sources", "documents", "documents_source_relative_path",
      "chunks", "chunks_document_id", "vector_index_state">>

NormalizedTables == {NormalizedSchema[i] : i \in 1..Len(NormalizedSchema)}
AllTables == NormalizedTables \cup {"chunk_fts"}

\* Version 1 had neither the lexical index nor the vector metadata, version
\* 2 had the lexical index.
SchemaOf(version) ==
    CASE version = 0 -> {}
      [] version = 1 -> NormalizedTables \ {"vector_index_state"}
      [] version = 2 -> AllTables \ {"vector_index_state"}
      [] OTHER       -> AllTables

VARIABLES
    file,     \* committed: user_version, the tables, chunks and chunk_fts rows
    owner,    \* the process with an open write transaction, or None
    draft,    \* the file as that transaction sees it
    pc,       \* where each process is in opening
    created,  \* how much of the normalized schema its script has created
    opens     \* attempts to open so far

vars == <<file, owner, draft, pc, created, opens>>

Processes == Openers \cup Readers

Files ==
    [version : Nat, tables : SUBSET AllTables,
     chunks : SUBSET OldChunks, indexed : SUBSET OldChunks]

Labels == {"closed", "version", "script", "fts", "stamp", "fts1", "backfill",
           "state1", "stamp1", "commit1", "state2", "stamp2", "ready"}

TypeOK ==
    /\ file \in Files
    /\ draft \in Files
    /\ owner \in Openers \cup {None}
    /\ pc \in [Processes -> Labels]
    /\ created \in [Processes -> 0..Len(NormalizedSchema)]
    /\ opens \in Nat

InitialFile(version) ==
    [version |-> version,
     tables  |-> SchemaOf(version),
     chunks  |-> IF version = 0 THEN {} ELSE OldChunks,
     indexed |-> IF version < 2 THEN {} ELSE OldChunks]

Init ==
    /\ \E version \in FirstVersions :
          file = InitialFile(version) /\ draft = InitialFile(version)
    /\ owner = None
    /\ pc = [p \in Processes |-> "closed"]
    /\ created = [p \in Processes |-> 0]
    /\ opens = 0

----------------------------------------------------------------------------

GoTo(p, label) == pc' = [pc EXCEPT ![p] = label]

\* A statement in autocommit mode: needs the lock for its own duration.
Autocommit(result) ==
    /\ owner = None
    /\ file' = result /\ draft' = result
    /\ UNCHANGED owner

\* Connect; "PRAGMA user_version" is the next statement.
Open(p) ==
    /\ pc[p] = "closed"
    /\ opens < MaxOpens
    /\ opens' = opens + 1
    /\ GoTo(p, "version")
    /\ UNCHANGED <<file, owner, draft, created>>

\* Mutants: version 1 is migrated like version 2, and version 2 like version 1.
FirstStepSkippingFts(version) == <<"script", "state2", "state2", "ready">>[version + 1]
FirstStepRepeatingFts(version) == <<"script", "fts1", "fts1", "ready">>[version + 1]

\* The migration of each version begins at a step of its own.
FirstStep(version) == <<"script", "fts1", "state2", "ready">>[version + 1]

\* Mutants: a read-only connection does not look at the version, and it
\* migrates like a writable one.
EntryTrusting(p) ==
    IF p \in Readers THEN "ready"
    ELSE IF file.version > SchemaVersion THEN "closed" ELSE FirstStep(file.version)
EntryAlike(p) == IF file.version > SchemaVersion THEN "closed" ELSE FirstStep(file.version)

\* A read-only connection takes the current version or nothing, a writable
\* one nothing newer.
Entry(p) ==
    IF file.version > SchemaVersion \/ (p \in Readers /\ file.version # SchemaVersion)
    THEN "closed"
    ELSE FirstStep(file.version)

\* PRAGMA user_version.
ReadVersion(p) ==
    /\ pc[p] = "version"
    /\ GoTo(p, Entry(p))
    /\ UNCHANGED <<file, owner, draft, created, opens>>

\* Version 0: the next CREATE of the script.
CreateNormalized(p) ==
    LET table == NormalizedSchema[created[p] + 1]
    IN  /\ pc[p] = "script"
        /\ table \notin file.tables
        /\ Autocommit([file EXCEPT !.tables = @ \cup {table}])
        /\ created' = [created EXCEPT ![p] = @ + 1]
        /\ GoTo(p, IF created'[p] = Len(NormalizedSchema) THEN "fts" ELSE "script")
        /\ UNCHANGED opens

\* Versions 0 and 1: _create_fts_table.
CreateFts(p) ==
    /\ pc[p] \in {"fts", "fts1"}
    /\ "chunk_fts" \notin file.tables
    /\ Autocommit([file EXCEPT !.tables = @ \cup {"chunk_fts"}])
    /\ GoTo(p, IF pc[p] = "fts" THEN "stamp" ELSE "backfill")
    /\ UNCHANGED <<created, opens>>

\* Version 1: the backfill inserts begin the transaction.
Backfill(p) ==
    /\ pc[p] = "backfill"
    /\ owner = None
    /\ owner' = p
    /\ draft' = [file EXCEPT !.indexed = file.chunks]
    /\ GoTo(p, "state1")
    /\ UNCHANGED <<file, created, opens>>

\* CREATE TABLE IF NOT EXISTS vector_index_state, inside it.
CreateStateInTransaction(p) ==
    /\ pc[p] = "state1"
    /\ owner = p
    /\ draft' = [draft EXCEPT !.tables = @ \cup {"vector_index_state"}]
    /\ GoTo(p, "stamp1")
    /\ UNCHANGED <<file, owner, created, opens>>

StampInTransaction(p) ==
    /\ pc[p] = "stamp1"
    /\ owner = p
    /\ draft' = [draft EXCEPT !.version = SchemaVersion]
    /\ GoTo(p, "commit1")
    /\ UNCHANGED <<file, owner, created, opens>>

CommitMigration(p) ==
    /\ pc[p] = "commit1"
    /\ owner = p
    /\ file' = draft
    /\ owner' = None
    /\ GoTo(p, "ready")
    /\ UNCHANGED <<draft, created, opens>>

\* Version 2: the same CREATE, on its own.
CreateState(p) ==
    /\ pc[p] = "state2"
    /\ Autocommit([file EXCEPT !.tables = @ \cup {"vector_index_state"}])
    /\ GoTo(p, "stamp2")
    /\ UNCHANGED <<created, opens>>

\* Versions 0 and 2: PRAGMA user_version, on its own.
StampVersion(p) ==
    /\ pc[p] \in {"stamp", "stamp2"}
    /\ Autocommit([file EXCEPT !.version = SchemaVersion])
    /\ GoTo(p, "ready")
    /\ UNCHANGED <<created, opens>>

\* The end of an attempt, or of the connection: an open transaction of the
\* process is undone, what was committed stays.
Leave(p) ==
    /\ GoTo(p, "closed")
    /\ created' = [created EXCEPT ![p] = 0]
    /\ IF owner = p THEN owner' = None /\ draft' = file /\ UNCHANGED file
       ELSE UNCHANGED <<file, owner, draft>>
    /\ UNCHANGED opens

\* Mutant: only the script's CREATEs can clash.
ClashesInScript(p) == pc[p] = "script" /\ NormalizedSchema[created[p] + 1] \in file.tables

\* The next CREATE finds its table there.
Clashes(p) ==
    \/ pc[p] = "script" /\ NormalizedSchema[created[p] + 1] \in file.tables
    \/ pc[p] \in {"fts", "fts1"} /\ "chunk_fts" \in file.tables

\* sqlite3.OperationalError leaves __init__.
AlreadyExists(p) == Clashes(p) /\ Leave(p)

\* A statement waits for another process's transaction and gives up.
LockTimeout(p) ==
    /\ pc[p] \in {"script", "fts", "stamp", "fts1", "backfill", "state2", "stamp2"}
    /\ owner \notin {None, p}
    /\ Leave(p)

\* A statement fails (a full disk, an I/O error) or the process dies.
Abort(p) ==
    /\ pc[p] \notin {"closed", "ready"}
    /\ Leave(p)

Close(p) == pc[p] = "ready" /\ Leave(p)

OpenStep(p) ==
    \/ ReadVersion(p)
    \/ CreateNormalized(p) \/ CreateFts(p) \/ StampVersion(p)
    \/ Backfill(p) \/ CreateStateInTransaction(p) \/ StampInTransaction(p)
    \/ CommitMigration(p)
    \/ CreateState(p)
    \/ AlreadyExists(p) \/ LockTimeout(p)

Next ==
    \/ \E p \in Processes : Open(p)
    \/ \E p \in Processes : OpenStep(p)
    \/ \E p \in Processes : Close(p)
    \/ \E p \in Processes : Abort(p)

Spec == Init /\ [][Next]_vars

\* A process that is opening a database keeps going.
FairSpec == Spec /\ \A p \in Processes : WF_vars(OpenStep(p))

----------------------------------------------------------------------------

Complete(f) == f.tables = AllTables /\ f.indexed = f.chunks

\* Only a finished migration is stamped with the current version: a file of
\* that version has every table, and a lexical entry for every chunk, also
\* after crashes and races between processes opening it.
CurrentVersionIsComplete == file.version = SchemaVersion => Complete(file)

\* A repository object that could be constructed, read-only ones included,
\* works on a complete database for as long as it is open.
ReadyMeansComplete ==
    \A p \in Processes : pc[p] = "ready" => file.version = SchemaVersion /\ Complete(file)

\* Opening ends: with a repository or with an error.
OpensReturn == \A p \in Processes : pc[p] = "version" ~> pc[p] \in {"closed", "ready"}

\* The first process to open a database of any earlier version can: no
\* CREATE of its migration finds its table there unless another attempt to
\* open the file, racing or cut short, came before.
FirstOpenSucceeds == [][\A p \in Processes : AlreadyExists(p) => opens > 1]_vars
=============================================================================
