----------------------- MODULE SchemaMigrationProofs ------------------------
(***************************************************************************)
(* Proofs about SchemaMigration, for any number of processes opening one   *)
(* file, any chunks and any number of attempts.                            *)
(***************************************************************************)
EXTENDS SchemaMigration, TLAPS

\* The tables of version 1, and those of version 2.
OldTables == NormalizedTables \ {"vector_index_state"}
LexicalTables == OldTables \cup {"chunk_fts"}

\* The first n statements of the script.
ScriptTables(n) == {NormalizedSchema[i] : i \in 1..n}

LEMMA SchemaFacts ==
    /\ Len(NormalizedSchema) = 6
    /\ \A i \in 1..6 : NormalizedSchema[i] \in NormalizedTables
    /\ NormalizedTables = ScriptTables(6)
    /\ "vector_index_state" \in NormalizedTables
    /\ \A n \in 0..5 : ScriptTables(n + 1) \subseteq ScriptTables(n) \cup {NormalizedSchema[n + 1]}
    /\ ScriptTables(0) = {}
<1>1. Len(NormalizedSchema) = 6
  BY DEF NormalizedSchema
<1>2. NormalizedTables = ScriptTables(6)
  BY <1>1 DEF NormalizedTables, ScriptTables
<1>3. NormalizedSchema[6] = "vector_index_state"
  BY DEF NormalizedSchema
<1>4. \A i \in 1..6 : NormalizedSchema[i] \in NormalizedTables
  BY <1>1 DEF NormalizedTables
<1>5. \A n \in 0..5 : ScriptTables(n + 1) \subseteq ScriptTables(n) \cup {NormalizedSchema[n + 1]}
  BY DEF ScriptTables
<1>6. ScriptTables(0) = {}
  BY DEF ScriptTables
<1>7. "vector_index_state" \in NormalizedTables
  BY <1>3, <1>4
<1> QED
  BY <1>1, <1>2, <1>4, <1>5, <1>6, <1>7

----------------------------------------------------------------------------

\* What the version of a file says about it.
VersionHolds(f) ==
    /\ f.indexed \subseteq f.chunks
    /\ f.version = 0 => f.chunks = {}
    /\ f.version = 1 => OldTables \subseteq f.tables
    /\ f.version = 2 => LexicalTables \subseteq f.tables /\ f.indexed = f.chunks
    /\ f.version = SchemaVersion => Complete(f)

\* What a process knows of the file by where it is: every statement it has
\* executed has left its table there, since no statement removes one.
Knows(label, n, f) ==
    /\ label \in {"script", "fts", "stamp"} => f.chunks = {}
    /\ label = "script" => n < 6 /\ ScriptTables(n) \subseteq f.tables
    /\ label = "fts" => NormalizedTables \subseteq f.tables
    /\ label = "stamp" => AllTables \subseteq f.tables
    /\ label = "fts1" => OldTables \subseteq f.tables
    /\ label = "backfill" => LexicalTables \subseteq f.tables
    /\ label \in {"state2", "stamp2"} => LexicalTables \subseteq f.tables /\ f.indexed = f.chunks
    /\ label = "stamp2" => AllTables \subseteq f.tables
    /\ label = "ready" => f.version = SchemaVersion

\* The transaction of a version-1 migration: what it has done to the file.
Migrates(label, f, d) ==
    /\ LexicalTables \subseteq d.tables /\ f.tables \subseteq d.tables
    /\ d.chunks = f.chunks /\ d.indexed = d.chunks
    /\ label \in {"stamp1", "commit1"} => AllTables \subseteq d.tables
    /\ label = "commit1" => d.version = SchemaVersion

InTransaction == {"state1", "stamp1", "commit1"}

\* Inductive: what is committed is as its version says, every process is
\* right about it, and a transaction in progress will not undo any of it.
MigrationInvariant ==
    /\ TypeOK
    /\ VersionHolds(file)
    /\ \A p \in Processes : Knows(pc[p], created[p], file)
    /\ \A p \in Processes : pc[p] \in InTransaction => owner = p /\ Migrates(pc[p], file, draft)
    /\ \A p \in Processes : owner = p => pc[p] \in InTransaction
    /\ \A p \in Processes : pc[p] \in {"closed", "version"} => created[p] = 0
    /\ \A p \in Readers : pc[p] \in {"closed", "version", "ready"}

\* A file that has lost nothing: what others know of it stays true.
Extends(g, f) ==
    /\ f.tables \subseteq g.tables
    /\ g.chunks = f.chunks
    /\ f.indexed = f.chunks => g.indexed = g.chunks
    /\ f.version = SchemaVersion => g.version = SchemaVersion

\* What a process knows of a file, it knows of every file that extends it.
LEMMA KnowledgeLasts ==
    ASSUME NEW f \in Files, NEW g \in Files, Extends(g, f),
           NEW label, NEW n, Knows(label, n, f)
    PROVE  Knows(label, n, g)
BY DEF Extends, Knows

\* A statement in autocommit mode that adds to the file, keeps it as its
\* version says, and takes its process to a place that fits.
LEMMA StatementPreserves ==
    ASSUME MigrationInvariant, NEW p \in Openers, NEW result \in Files,
           NEW label \in Labels \ (InTransaction \cup {"closed", "version"}),
           Autocommit(result), Extends(result, file), VersionHolds(result),
           GoTo(p, label), opens' = opens,
           created' \in [Processes -> 0..Len(NormalizedSchema)],
           \A q \in Processes : q # p => created'[q] = created[q],
           Knows(label, created'[p], result)
    PROVE  MigrationInvariant'
<1> USE DEF MigrationInvariant, Processes
<1>1. owner = None /\ file' = result /\ draft' = result /\ owner' = None
  BY DEF Autocommit
<1>2. p \in Processes /\ None \notin Processes /\ p \notin Readers
  BY OpenAssumption
<1>3. pc' \in [Processes -> Labels] /\ \A q \in Processes : pc'[q] = IF q = p THEN label ELSE pc[q]
  BY DEF GoTo, TypeOK
<1>4. TypeOK'
  BY <1>1, <1>3 DEF TypeOK
<1>5. \A q \in Processes : Knows(pc'[q], created'[q], file')
  <2> TAKE q \in Processes
  <2>1. CASE q = p
    BY <1>1, <1>3, <2>1
  <2>2. CASE q # p
    BY <1>1, <1>3, <2>2, KnowledgeLasts DEF TypeOK
  <2> QED
    BY <2>1, <2>2
<1>6. \A q \in Processes : pc'[q] \notin InTransaction
  BY <1>1, <1>2, <1>3
<1>7. \A q \in Processes : pc'[q] \in {"closed", "version"} => created'[q] = 0
  BY <1>3
<1>8. \A q \in Readers : pc'[q] \in {"closed", "version", "ready"}
  BY <1>2, <1>3
<1> QED
  BY <1>1, <1>2, <1>4, <1>5, <1>6, <1>7, <1>8

\* Leaving, with or without an open transaction.
LEMMA LeavePreserves ==
    ASSUME MigrationInvariant, NEW p \in Processes, Leave(p)
    PROVE  MigrationInvariant'
<1> USE DEF MigrationInvariant
<1>1. None \notin Processes /\ file' = file /\ opens' = opens
  BY OpenAssumption DEF Leave, Processes
<1>2. pc' \in [Processes -> Labels] /\ \A q \in Processes : pc'[q] = IF q = p THEN "closed" ELSE pc[q]
  BY DEF Leave, GoTo, TypeOK, Labels
<1>3. /\ created' \in [Processes -> 0..Len(NormalizedSchema)]
      /\ \A q \in Processes : created'[q] = IF q = p THEN 0 ELSE created[q]
  BY SchemaFacts DEF Leave, TypeOK
<1>4. /\ draft' \in Files /\ owner' \in Openers \cup {None}
      /\ \A q \in Processes : owner' = q => owner = q /\ q # p
      /\ \A q \in Processes : owner = q /\ q # p => owner' = q /\ draft' = draft
  BY <1>1 DEF Leave, TypeOK
<1>5. TypeOK'
  BY <1>1, <1>2, <1>3, <1>4 DEF TypeOK
<1>6. \A q \in Processes : Knows(pc'[q], created'[q], file')
  <2>1. Knows("closed", 0, file)
    BY DEF Knows
  <2> QED
    BY <1>1, <1>2, <1>3, <2>1
<1>7. \A q \in Processes : pc'[q] \in InTransaction => owner' = q /\ Migrates(pc'[q], file', draft')
  BY <1>1, <1>2, <1>4 DEF InTransaction
<1>8. \A q \in Processes : owner' = q => pc'[q] \in InTransaction
  BY <1>2, <1>4
<1>9. \A q \in Processes : pc'[q] \in {"closed", "version"} => created'[q] = 0
  BY <1>2, <1>3
<1>10. \A q \in Readers : pc'[q] \in {"closed", "version", "ready"}
  BY <1>2 DEF Processes
<1> QED
  BY <1>1, <1>5, <1>6, <1>7, <1>8, <1>9, <1>10

----------------------------------------------------------------------------

\* Only a process that opens for writing gets past reading the version.
LEMMA WritersMigrate ==
    ASSUME MigrationInvariant, NEW p \in Processes,
           pc[p] \notin {"closed", "version", "ready"}
    PROVE  p \in Openers
BY DEF MigrationInvariant, Processes

\* A CREATE keeps a file as its version says: a complete one has the table.
LEMMA CreateExtends ==
    ASSUME NEW f \in Files, VersionHolds(f), NEW table \in AllTables
    PROVE  LET g == [f EXCEPT !.tables = @ \cup {table}]
           IN  /\ g \in Files /\ Extends(g, f) /\ VersionHolds(g)
               /\ g.tables = f.tables \cup {table} /\ g.indexed = f.indexed
<1> DEFINE g == [f EXCEPT !.tables = @ \cup {table}]
<1>1. /\ g \in Files /\ g.tables = f.tables \cup {table}
      /\ g.version = f.version /\ g.chunks = f.chunks /\ g.indexed = f.indexed
  BY DEF Files
<1>2. Extends(g, f)
  BY <1>1 DEF Extends
<1>3. VersionHolds(g)
  BY <1>1 DEF VersionHolds, Complete
<1> QED
  BY <1>1, <1>2, <1>3

\* The next statement of the script.
LEMMA CreateNormalizedPreserves ==
    ASSUME MigrationInvariant, NEW p \in Processes, CreateNormalized(p)
    PROVE  MigrationInvariant'
<1> DEFINE table == NormalizedSchema[created[p] + 1]
<1> DEFINE result == [file EXCEPT !.tables = @ \cup {table}]
<1> DEFINE label == IF created'[p] = 6 THEN "fts" ELSE "script"
<1>1. pc[p] = "script" /\ p \in Openers
  BY WritersMigrate DEF CreateNormalized
<1>2. /\ created[p] \in 0..5 /\ file.chunks = {}
      /\ ScriptTables(created[p]) \subseteq file.tables
  BY <1>1, SchemaFacts DEF MigrationInvariant, Knows, TypeOK
<1>3. /\ created' \in [Processes -> 0..6] /\ created'[p] = created[p] + 1
      /\ \A q \in Processes : q # p => created'[q] = created[q]
  BY <1>2, SchemaFacts DEF CreateNormalized, MigrationInvariant, TypeOK
<1>4. table \in AllTables
  BY <1>2, SchemaFacts DEF AllTables
<1>5. /\ result \in Files /\ Extends(result, file) /\ VersionHolds(result)
      /\ result.tables = file.tables \cup {table}
  BY <1>4, CreateExtends DEF MigrationInvariant, TypeOK
<1>6. ScriptTables(created'[p]) \subseteq result.tables
  BY <1>2, <1>3, <1>5, SchemaFacts
<1>7. result.chunks = {}
  BY <1>2, <1>5 DEF Extends
<1>8. Knows(label, created'[p], result)
  <2>1. CASE created'[p] = 6
    BY <1>6, <1>7, <2>1, SchemaFacts DEF Knows
  <2>2. CASE created'[p] # 6
    BY <1>2, <1>3, <1>6, <1>7, <2>2 DEF Knows
  <2> QED
    BY <2>1, <2>2
<1>9. /\ Autocommit(result) /\ GoTo(p, label) /\ opens' = opens
      /\ label \in Labels \ (InTransaction \cup {"closed", "version"})
  BY SchemaFacts DEF CreateNormalized, Labels, InTransaction
<1> HIDE DEF result, label
<1> QED
  BY <1>1, <1>3, <1>5, <1>8, <1>9, SchemaFacts, StatementPreserves

\* The lexical table of a new database, and of one of version 1.
LEMMA CreateFtsPreserves ==
    ASSUME MigrationInvariant, NEW p \in Processes, CreateFts(p)
    PROVE  MigrationInvariant'
<1> DEFINE result == [file EXCEPT !.tables = @ \cup {"chunk_fts"}]
<1> DEFINE label == IF pc[p] = "fts" THEN "stamp" ELSE "backfill"
<1>1. pc[p] \in {"fts", "fts1"} /\ p \in Openers
  BY WritersMigrate DEF CreateFts
<1>2. Knows(pc[p], created[p], file)
  BY DEF MigrationInvariant
<1>3. /\ result \in Files /\ Extends(result, file) /\ VersionHolds(result)
      /\ result.tables = file.tables \cup {"chunk_fts"}
  BY CreateExtends DEF MigrationInvariant, TypeOK, AllTables
<1>4. Knows(label, created[p], result)
  <2>1. CASE pc[p] = "fts"
    BY <1>2, <1>3, <2>1 DEF Knows, AllTables, Extends
  <2>2. CASE pc[p] = "fts1"
    BY <1>2, <1>3, <2>2 DEF Knows, LexicalTables
  <2> QED
    BY <1>1, <2>1, <2>2
<1>5. /\ Autocommit(result) /\ GoTo(p, label) /\ opens' = opens /\ created' = created
      /\ label \in Labels \ (InTransaction \cup {"closed", "version"})
  BY DEF CreateFts, Labels, InTransaction
<1> HIDE DEF result, label
<1> QED
  BY <1>1, <1>3, <1>4, <1>5, StatementPreserves DEF MigrationInvariant, TypeOK

\* The vector metadata table of a database of version 2.
LEMMA CreateStatePreserves ==
    ASSUME MigrationInvariant, NEW p \in Processes, CreateState(p)
    PROVE  MigrationInvariant'
<1> DEFINE result == [file EXCEPT !.tables = @ \cup {"vector_index_state"}]
<1>1. pc[p] = "state2" /\ p \in Openers
  BY WritersMigrate DEF CreateState
<1>2. LexicalTables \subseteq file.tables /\ file.indexed = file.chunks
  BY <1>1 DEF MigrationInvariant, Knows
<1>3. /\ result \in Files /\ Extends(result, file) /\ VersionHolds(result)
      /\ result.tables = file.tables \cup {"vector_index_state"}
      /\ result.indexed = file.indexed
  BY SchemaFacts, CreateExtends DEF MigrationInvariant, TypeOK, AllTables
<1>4. Knows("stamp2", created[p], result)
  BY <1>2, <1>3 DEF Knows, Extends, AllTables, LexicalTables, OldTables
<1>5. /\ Autocommit(result) /\ GoTo(p, "stamp2") /\ opens' = opens /\ created' = created
      /\ "stamp2" \in Labels \ (InTransaction \cup {"closed", "version"})
  BY DEF CreateState, Labels, InTransaction
<1> HIDE DEF result
<1> QED
  BY <1>1, <1>3, <1>4, <1>5, StatementPreserves DEF MigrationInvariant, TypeOK

\* The version of a new database, and of one of version 2: by then every
\* table is there, and every chunk has its entry.
LEMMA StampVersionPreserves ==
    ASSUME MigrationInvariant, NEW p \in Processes, StampVersion(p)
    PROVE  MigrationInvariant'
<1> DEFINE result == [file EXCEPT !.version = SchemaVersion]
<1>1. pc[p] \in {"stamp", "stamp2"} /\ p \in Openers
  BY WritersMigrate DEF StampVersion
<1>2. Knows(pc[p], created[p], file) /\ file \in Files /\ file.indexed \subseteq file.chunks
  BY DEF MigrationInvariant, TypeOK, VersionHolds
<1>3. file.tables = AllTables /\ file.indexed = file.chunks
  <2>1. AllTables \subseteq file.tables /\ file.indexed = file.chunks
    BY <1>1, <1>2 DEF Knows
  <2> QED
    BY <1>2, <2>1 DEF Files
<1>4. /\ result \in Files /\ result.version = 3 /\ result.tables = file.tables
      /\ result.chunks = file.chunks /\ result.indexed = file.indexed
  BY <1>2 DEF Files, SchemaVersion
<1>5. Extends(result, file) /\ VersionHolds(result)
  BY <1>3, <1>4 DEF Extends, VersionHolds, Complete, SchemaVersion
<1>6. Knows("ready", created[p], result)
  BY <1>4 DEF Knows, SchemaVersion
<1>7. /\ Autocommit(result) /\ GoTo(p, "ready") /\ opens' = opens /\ created' = created
      /\ "ready" \in Labels \ (InTransaction \cup {"closed", "version"})
  BY DEF StampVersion, Labels, InTransaction
<1> HIDE DEF result
<1> QED
  BY <1>1, <1>4, <1>5, <1>6, <1>7, StatementPreserves DEF MigrationInvariant, TypeOK

----------------------------------------------------------------------------

\* A step that leaves the file, the transaction and every script alone, and
\* takes its process from outside a transaction to a place that fits.
LEMMA MovePreserves ==
    ASSUME MigrationInvariant, NEW p \in Processes,
           pc[p] \in {"closed", "version"},
           NEW label \in Labels \ InTransaction,
           p \in Readers => label \in {"closed", "version", "ready"},
           Knows(label, 0, file), GoTo(p, label),
           UNCHANGED <<file, owner, draft, created>>, opens' \in Nat
    PROVE  MigrationInvariant'
<1> USE DEF MigrationInvariant
<1>1. pc' \in [Processes -> Labels] /\ \A q \in Processes : pc'[q] = IF q = p THEN label ELSE pc[q]
  BY DEF GoTo, TypeOK
<1>2. TypeOK'
  BY <1>1 DEF TypeOK
<1>3. created[p] = 0 /\ owner # p
  BY DEF InTransaction
<1>4. \A q \in Processes : Knows(pc'[q], created'[q], file')
  BY <1>1, <1>3
<1>5. \A q \in Processes : pc'[q] \in InTransaction => owner' = q /\ Migrates(pc'[q], file', draft')
  BY <1>1
<1>6. \A q \in Processes : owner' = q => pc'[q] \in InTransaction
  BY <1>1, <1>3
<1>7. \A q \in Processes : pc'[q] \in {"closed", "version"} => created'[q] = 0
  BY <1>1, <1>3
<1>8. \A q \in Readers : pc'[q] \in {"closed", "version", "ready"}
  BY <1>1 DEF Processes
<1> QED
  BY <1>2, <1>4, <1>5, <1>6, <1>7, <1>8

\* Connecting.
LEMMA OpenPreserves ==
    ASSUME MigrationInvariant, NEW p \in Processes, Open(p)
    PROVE  MigrationInvariant'
<1>1. Knows("version", 0, file)
  BY DEF Knows
<1>2. opens' \in Nat
  BY DEF Open, MigrationInvariant, TypeOK
<1>3. "version" \in Labels \ InTransaction
  BY DEF Labels, InTransaction
<1> QED
  BY <1>1, <1>2, <1>3, MovePreserves DEF Open

\* Reading the version: what it says is what the process may rely on.
LEMMA ReadVersionPreserves ==
    ASSUME MigrationInvariant, NEW p \in Processes, ReadVersion(p)
    PROVE  MigrationInvariant'
<1>1. file \in Files /\ VersionHolds(file)
  BY DEF MigrationInvariant, TypeOK
<1>2. file.version \in Nat
  BY <1>1 DEF Files
<1>3. /\ Entry(p) \in Labels \ InTransaction /\ Knows(Entry(p), 0, file)
      /\ p \in Readers => Entry(p) \in {"closed", "version", "ready"}
  <2>1. CASE Entry(p) = "closed"
    BY <2>1 DEF Labels, InTransaction, Knows
  <2>2. CASE Entry(p) # "closed" /\ file.version = 0
    <3>1. Entry(p) = "script" /\ p \notin Readers
      BY <2>2 DEF Entry, FirstStep, SchemaVersion
    <3> QED
      BY <1>1, <2>2, <3>1, SchemaFacts DEF Labels, InTransaction, Knows, VersionHolds
  <2>3. CASE Entry(p) # "closed" /\ file.version = 1
    <3>1. Entry(p) = "fts1" /\ p \notin Readers
      BY <2>3 DEF Entry, FirstStep, SchemaVersion
    <3> QED
      BY <1>1, <2>3, <3>1 DEF Labels, InTransaction, Knows, VersionHolds
  <2>4. CASE Entry(p) # "closed" /\ file.version = 2
    <3>1. Entry(p) = "state2" /\ p \notin Readers
      BY <2>4 DEF Entry, FirstStep, SchemaVersion
    <3> QED
      BY <1>1, <2>4, <3>1 DEF Labels, InTransaction, Knows, VersionHolds
  <2>5. CASE Entry(p) # "closed" /\ file.version = 3
    <3>1. Entry(p) = "ready"
      BY <2>5 DEF Entry, FirstStep, SchemaVersion
    <3> QED
      BY <2>5, <3>1 DEF Labels, InTransaction, Knows, SchemaVersion
  <2>6. Entry(p) = "closed" \/ file.version \in 0..3
    BY <1>2 DEF Entry, SchemaVersion
  <2> QED
    BY <2>1, <2>2, <2>3, <2>4, <2>5, <2>6
<1>4. /\ pc[p] = "version" /\ GoTo(p, Entry(p))
      /\ UNCHANGED <<file, owner, draft, created>> /\ opens' \in Nat
  BY DEF ReadVersion, MigrationInvariant, TypeOK
<1> QED
  BY <1>3, <1>4, MovePreserves

----------------------------------------------------------------------------

\* A step of a version-1 migration inside its transaction, from its first
\* insert to the stamp: only the draft changes.
LEMMA DraftPreserves ==
    ASSUME MigrationInvariant, NEW p \in Openers,
           owner \in {None, p}, owner' = p,
           NEW label \in InTransaction, GoTo(p, label),
           draft' \in Files, Migrates(label, file, draft'),
           UNCHANGED <<file, created, opens>>
    PROVE  MigrationInvariant'
<1> USE DEF MigrationInvariant, Processes
<1>1. p \in Processes /\ None \notin Processes /\ p \notin Readers
  BY OpenAssumption
<1>2. pc' \in [Processes -> Labels] /\ \A q \in Processes : pc'[q] = IF q = p THEN label ELSE pc[q]
  BY DEF GoTo, TypeOK, InTransaction, Labels
<1>3. TypeOK'
  BY <1>2 DEF TypeOK
<1>4. \A q \in Processes : Knows(pc'[q], created'[q], file')
  <2>1. Knows(label, created[p], file)
    BY DEF Knows, InTransaction
  <2> QED
    BY <1>2, <2>1
<1>5. \A q \in Processes : pc'[q] \in InTransaction => owner' = q /\ Migrates(pc'[q], file', draft')
  BY <1>1, <1>2
<1>6. \A q \in Processes : owner' = q => pc'[q] \in InTransaction
  BY <1>2
<1>7. \A q \in Processes : pc'[q] \in {"closed", "version"} => created'[q] = 0
  BY <1>2 DEF InTransaction
<1>8. \A q \in Readers : pc'[q] \in {"closed", "version", "ready"}
  BY <1>1, <1>2
<1> QED
  BY <1>3, <1>4, <1>5, <1>6, <1>7, <1>8

\* The inserts that begin the transaction give every chunk its entry.
LEMMA BackfillPreserves ==
    ASSUME MigrationInvariant, NEW p \in Processes, Backfill(p)
    PROVE  MigrationInvariant'
<1>1. p \in Openers /\ LexicalTables \subseteq file.tables /\ file \in Files
  BY WritersMigrate DEF Backfill, MigrationInvariant, TypeOK, Knows
<1>2. /\ draft' \in Files /\ draft'.tables = file.tables
      /\ draft'.chunks = file.chunks /\ draft'.indexed = file.chunks
  BY <1>1 DEF Backfill, Files
<1>3. Migrates("state1", file, draft') /\ "state1" \in InTransaction
  BY <1>1, <1>2 DEF Migrates, InTransaction
<1> QED
  BY <1>1, <1>2, <1>3, DraftPreserves DEF Backfill

\* The metadata table, in the transaction.
LEMMA CreateStateInTransactionPreserves ==
    ASSUME MigrationInvariant, NEW p \in Processes, CreateStateInTransaction(p)
    PROVE  MigrationInvariant'
<1>1. p \in Openers /\ Migrates("state1", file, draft) /\ draft \in Files
  BY WritersMigrate DEF CreateStateInTransaction, MigrationInvariant, TypeOK, InTransaction
<1>2. /\ draft' \in Files /\ draft'.tables = draft.tables \cup {"vector_index_state"}
      /\ draft'.chunks = draft.chunks /\ draft'.indexed = draft.indexed
  BY <1>1, SchemaFacts DEF CreateStateInTransaction, Files, AllTables
<1>3. Migrates("stamp1", file, draft') /\ "stamp1" \in InTransaction
  BY <1>1, <1>2 DEF Migrates, InTransaction, AllTables, LexicalTables, OldTables
<1> QED
  BY <1>1, <1>2, <1>3, DraftPreserves DEF CreateStateInTransaction

\* The version, in the transaction.
LEMMA StampInTransactionPreserves ==
    ASSUME MigrationInvariant, NEW p \in Processes, StampInTransaction(p)
    PROVE  MigrationInvariant'
<1>1. p \in Openers /\ Migrates("stamp1", file, draft) /\ draft \in Files
  BY WritersMigrate DEF StampInTransaction, MigrationInvariant, TypeOK, InTransaction
<1>2. /\ draft' \in Files /\ draft'.version = SchemaVersion /\ draft'.tables = draft.tables
      /\ draft'.chunks = draft.chunks /\ draft'.indexed = draft.indexed
  BY <1>1 DEF StampInTransaction, Files, SchemaVersion
<1>3. Migrates("commit1", file, draft') /\ "commit1" \in InTransaction
  BY <1>1, <1>2 DEF Migrates, InTransaction
<1> QED
  BY <1>1, <1>2, <1>3, DraftPreserves DEF StampInTransaction

\* The commit: the draft extends the file it replaces, so what every other
\* process knows stays true.
LEMMA CommitMigrationPreserves ==
    ASSUME MigrationInvariant, NEW p \in Processes, CommitMigration(p)
    PROVE  MigrationInvariant'
<1> USE DEF MigrationInvariant
<1>1. /\ pc[p] = "commit1" /\ owner = p /\ Migrates("commit1", file, draft)
      /\ p \in Openers /\ p \notin Readers /\ None \notin Processes
      /\ file \in Files /\ draft \in Files
  BY WritersMigrate, OpenAssumption DEF CommitMigration, InTransaction, TypeOK, Processes
<1>2. file' = draft /\ draft' = draft /\ owner' = None /\ UNCHANGED <<created, opens>>
  BY DEF CommitMigration
<1>3. pc' \in [Processes -> Labels] /\ \A q \in Processes : pc'[q] = IF q = p THEN "ready" ELSE pc[q]
  BY DEF CommitMigration, GoTo, TypeOK, Labels
<1>4. TypeOK'
  BY <1>2, <1>3 DEF TypeOK
<1>5. Extends(draft, file) /\ VersionHolds(draft)
  <2>1. draft.tables = AllTables /\ draft.indexed = draft.chunks /\ draft.version = 3
    BY <1>1 DEF Migrates, Files, SchemaVersion
  <2> QED
    BY <1>1, <2>1 DEF Migrates, Extends, VersionHolds, Complete, SchemaVersion
<1>6. \A q \in Processes : Knows(pc'[q], created'[q], file')
  <2> TAKE q \in Processes
  <2>1. CASE q = p
    BY <1>1, <1>2, <1>3, <2>1 DEF Knows, Migrates
  <2>2. CASE q # p
    BY <1>1, <1>2, <1>3, <1>5, <2>2, KnowledgeLasts
  <2> QED
    BY <2>1, <2>2
<1>7. \A q \in Processes : pc'[q] \notin InTransaction
  BY <1>1, <1>3 DEF InTransaction
<1>8. \A q \in Processes : pc'[q] \in {"closed", "version"} => created'[q] = 0
  BY <1>2, <1>3
<1>9. \A q \in Readers : pc'[q] \in {"closed", "version", "ready"}
  BY <1>3 DEF Processes
<1> QED
  BY <1>1, <1>2, <1>4, <1>5, <1>6, <1>7, <1>8, <1>9

----------------------------------------------------------------------------

\* A database of any earlier version is as its version says.
LEMMA InitHolds == Init => MigrationInvariant
<1> SUFFICES ASSUME Init PROVE MigrationInvariant
  OBVIOUS
<1>1. PICK version \in FirstVersions : file = InitialFile(version) /\ draft = InitialFile(version)
  BY DEF Init
<1>2. version \in Nat /\ None \notin Processes
  BY OpenAssumption DEF Processes
<1>3. /\ file.version = version /\ file.tables = SchemaOf(version)
      /\ file.chunks = IF version = 0 THEN {} ELSE OldChunks
      /\ file.indexed = IF version < 2 THEN {} ELSE OldChunks
  BY <1>1 DEF InitialFile
<1>4. SchemaOf(version) \subseteq AllTables
  BY DEF SchemaOf, AllTables
<1>5. file \in Files
  BY <1>1, <1>2, <1>4 DEF InitialFile, Files
<1>6. VersionHolds(file)
  <2>1. file.version = 1 => OldTables \subseteq file.tables
    BY <1>3 DEF SchemaOf, OldTables
  <2>2. file.version = 2 => LexicalTables \subseteq file.tables
    BY <1>3 DEF SchemaOf, OldTables, LexicalTables, AllTables
  <2>3. file.version = 3 => file.tables = AllTables
    BY <1>3 DEF SchemaOf
  <2>4. file.version >= 2 => file.indexed = file.chunks
    BY <1>2, <1>3
  <2> QED
    BY <1>2, <1>3, <2>1, <2>2, <2>3, <2>4 DEF VersionHolds, Complete, SchemaVersion
<1>7. \A p \in Processes : pc[p] = "closed" /\ created[p] = 0
  BY DEF Init
<1>8. TypeOK
  BY <1>1, <1>5, SchemaFacts DEF Init, TypeOK, Labels
<1>9. \A p \in Processes : Knows(pc[p], created[p], file)
  BY <1>7 DEF Knows
<1>10. owner = None
  BY DEF Init
<1> QED
  BY <1>2, <1>6, <1>7, <1>8, <1>9, <1>10 DEF MigrationInvariant, InTransaction, Processes

\* Every statement of every process, and every death, keeps the invariant.
LEMMA NextPreserves == MigrationInvariant /\ [Next]_vars => MigrationInvariant'
<1> SUFFICES ASSUME MigrationInvariant, [Next]_vars PROVE MigrationInvariant'
  OBVIOUS
<1>1. CASE UNCHANGED vars
  BY <1>1 DEF vars, MigrationInvariant, TypeOK
<1>2. ASSUME NEW p \in Processes, Open(p) PROVE MigrationInvariant'
  BY <1>2, OpenPreserves
<1>3. ASSUME NEW p \in Processes, OpenStep(p) PROVE MigrationInvariant'
  BY <1>3, ReadVersionPreserves, CreateNormalizedPreserves, CreateFtsPreserves,
     StampVersionPreserves, BackfillPreserves, CreateStateInTransactionPreserves,
     StampInTransactionPreserves, CommitMigrationPreserves, CreateStatePreserves,
     LeavePreserves DEF OpenStep, AlreadyExists, LockTimeout
<1>4. ASSUME NEW p \in Processes, Close(p) \/ Abort(p) PROVE MigrationInvariant'
  BY <1>4, LeavePreserves DEF Close, Abort
<1> QED
  BY <1>1, <1>2, <1>3, <1>4 DEF Next

\* The strengthening is an invariant of every behaviour.
THEOREM MigrationInvariance == Spec => []MigrationInvariant
BY InitHolds, NextPreserves, PTL DEF Spec

\* Every variable keeps its type.
THEOREM MigrationTypeCorrect == Spec => []TypeOK
<1>1. MigrationInvariant => TypeOK
  BY DEF MigrationInvariant
<1> QED
  BY <1>1, MigrationInvariance, PTL

\* A file stamped with the current version has every table, and a lexical
\* entry for every chunk, whatever raced or died while opening it.
THEOREM MigrationComplete == Spec => []CurrentVersionIsComplete
<1>1. MigrationInvariant => CurrentVersionIsComplete
  BY DEF MigrationInvariant, VersionHolds, CurrentVersionIsComplete
<1> QED
  BY <1>1, MigrationInvariance, PTL

\* An open repository works on a complete database of the current version.
THEOREM OpenMeansComplete == Spec => []ReadyMeansComplete
<1>1. MigrationInvariant => ReadyMeansComplete
  BY DEF MigrationInvariant, Knows, VersionHolds, ReadyMeansComplete
<1> QED
  BY <1>1, MigrationInvariance, PTL

----------------------------------------------------------------------------
(* The first attempt to open a file.                                       *)

\* What the only process that ever opened the file has found and made there.
Fresh(p) ==
    /\ pc[p] = "version" => file.tables = SchemaOf(file.version)
    /\ pc[p] = "script" => file.tables = ScriptTables(created[p])
    /\ pc[p] \in {"fts", "fts1"} => "chunk_fts" \notin file.tables

\* Until a second attempt is made nobody but the first is at work, on the
\* schema of a version and what it added to it.
FirstAttempt ==
    /\ opens = 0 =>
          /\ file.tables = SchemaOf(file.version)
          /\ \A p \in Processes : pc[p] = "closed"
    /\ opens = 1 =>
          \A p \in Processes : pc[p] # "closed" =>
              Fresh(p) /\ \A q \in Processes : q # p => pc[q] = "closed"

\* No statement of the script creates what an earlier one or _create_fts_table
\* does.
LEMMA ScriptIsDistinct ==
    /\ \A n \in 0..5 : NormalizedSchema[n + 1] \notin ScriptTables(n)
    /\ \A n \in 0..5 : ScriptTables(n + 1) = ScriptTables(n) \cup {NormalizedSchema[n + 1]}
    /\ "chunk_fts" \notin NormalizedTables
<1>1. \A n \in 0..5 : NormalizedSchema[n + 1] \notin ScriptTables(n)
  BY DEF ScriptTables, NormalizedSchema
<1>2. \A n \in 0..5 : ScriptTables(n + 1) = ScriptTables(n) \cup {NormalizedSchema[n + 1]}
  BY DEF ScriptTables
<1>3. "chunk_fts" \notin NormalizedTables
  BY DEF NormalizedTables, NormalizedSchema
<1> QED
  BY <1>1, <1>2, <1>3

LEMMA FirstAttemptInit == Init => FirstAttempt
BY DEF Init, InitialFile, FirstAttempt

\* A step of the process at work; the others stay where they are.
LEMMA StepKeepsFirst ==
    ASSUME FirstAttempt, NEW p \in Processes, pc[p] # "closed", opens' = opens,
           \A q \in Processes : q # p => pc'[q] = pc[q],
           opens = 1 => Fresh(p)'
    PROVE  FirstAttempt'
BY DEF FirstAttempt

LEMMA OpenKeepsFirst ==
    ASSUME MigrationInvariant, FirstAttempt, NEW p \in Processes, Open(p)
    PROVE  FirstAttempt'
<1>1. /\ opens \in Nat /\ opens' = opens + 1 /\ file' = file
      /\ \A q \in Processes : pc'[q] = IF q = p THEN "version" ELSE pc[q]
  BY DEF Open, GoTo, MigrationInvariant, TypeOK
<1>2. CASE opens = 0
  BY <1>1, <1>2 DEF FirstAttempt, Fresh
<1>3. CASE opens # 0
  BY <1>1, <1>3 DEF FirstAttempt
<1> QED
  BY <1>2, <1>3

LEMMA ReadVersionKeepsFirst ==
    ASSUME MigrationInvariant, FirstAttempt, NEW p \in Processes, ReadVersion(p)
    PROVE  FirstAttempt'
<1>1. /\ pc[p] = "version" /\ created[p] = 0 /\ opens' = opens /\ file' = file
      /\ created' = created /\ file.version \in Nat
      /\ \A q \in Processes : pc'[q] = IF q = p THEN Entry(p) ELSE pc[q]
  BY DEF ReadVersion, GoTo, MigrationInvariant, TypeOK, Files
<1>2. ASSUME opens = 1 PROVE Fresh(p)'
  <2>1. file.tables = SchemaOf(file.version)
    BY <1>1, <1>2 DEF FirstAttempt, Fresh
  <2>2. CASE Entry(p) = "closed"
    BY <1>1, <2>2 DEF Fresh
  <2>3. CASE Entry(p) # "closed" /\ file.version = 0
    <3>1. Entry(p) = "script"
      BY <2>3 DEF Entry, FirstStep
    <3> QED
      BY <1>1, <2>1, <2>3, <3>1, SchemaFacts DEF Fresh, SchemaOf
  <2>4. CASE Entry(p) # "closed" /\ file.version = 1
    <3>1. Entry(p) = "fts1"
      BY <2>4 DEF Entry, FirstStep
    <3> QED
      BY <1>1, <2>1, <2>4, <3>1, ScriptIsDistinct DEF Fresh, SchemaOf
  <2>5. CASE Entry(p) # "closed" /\ file.version \notin {0, 1}
    <3>1. file.version \in {2, 3}
      BY <1>1, <2>5 DEF Entry, SchemaVersion
    <3>2. Entry(p) \in {"state2", "ready"}
      BY <2>5, <3>1 DEF Entry, FirstStep
    <3> QED
      BY <1>1, <3>2 DEF Fresh
  <2> QED
    BY <2>2, <2>3, <2>4, <2>5
<1> QED
  BY <1>1, <1>2, StepKeepsFirst

LEMMA CreateNormalizedKeepsFirst ==
    ASSUME MigrationInvariant, FirstAttempt, NEW p \in Processes, CreateNormalized(p)
    PROVE  FirstAttempt'
<1> DEFINE n == created[p]
           table == NormalizedSchema[n + 1]
<1>1. /\ pc[p] = "script" /\ opens' = opens /\ n \in 0..5 /\ created'[p] = n + 1
      /\ file' = [file EXCEPT !.tables = @ \cup {table}]
      /\ file \in Files
      /\ \A q \in Processes : pc'[q] = IF q = p THEN IF n + 1 = 6 THEN "fts" ELSE "script"
                                       ELSE pc[q]
  <2>1. n \in 0..5
    BY SchemaFacts DEF CreateNormalized, MigrationInvariant, TypeOK, Knows
  <2> QED
    BY <2>1, SchemaFacts DEF CreateNormalized, Autocommit, GoTo, MigrationInvariant, TypeOK
<1>2. file'.tables = file.tables \cup {table}
  BY <1>1 DEF Files
<1>3. ASSUME opens = 1 PROVE Fresh(p)'
  <2>1. file.tables = ScriptTables(n)
    BY <1>1, <1>3 DEF FirstAttempt, Fresh
  <2>2. file'.tables = ScriptTables(n + 1)
    BY <1>1, <1>2, <2>1, ScriptIsDistinct
  <2>3. CASE n + 1 = 6
    BY <1>1, <2>2, <2>3, SchemaFacts, ScriptIsDistinct DEF Fresh
  <2>4. CASE n + 1 # 6
    BY <1>1, <2>2, <2>4 DEF Fresh
  <2> QED
    BY <2>3, <2>4
<1> QED
  BY <1>1, <1>3, StepKeepsFirst

\* Every other step ends the script and the two places where chunk_fts is made.
LEMMA FirstAttemptKept == MigrationInvariant /\ FirstAttempt /\ [Next]_vars => FirstAttempt'
<1> SUFFICES ASSUME MigrationInvariant, FirstAttempt, [Next]_vars PROVE FirstAttempt'
  OBVIOUS
<1>1. ASSUME NEW p \in Processes, NEW label, GoTo(p, label), opens' = opens, pc[p] # "closed",
             label \notin {"version", "script", "fts", "fts1"}
      PROVE  FirstAttempt'
  <2>1. /\ Fresh(p)'
        /\ \A q \in Processes : q # p => pc'[q] = pc[q]
    BY <1>1 DEF GoTo, Fresh, MigrationInvariant, TypeOK
  <2> QED
    BY <1>1, <2>1, StepKeepsFirst
<1>2. ASSUME NEW p \in Processes, Leave(p), pc[p] # "closed" PROVE FirstAttempt'
  BY <1>1, <1>2 DEF Leave
<1>3. ASSUME NEW p \in Processes, OpenStep(p) PROVE FirstAttempt'
  <2>1. CASE CreateFts(p)
    BY <1>1, <2>1 DEF CreateFts
  <2>2. CASE StampVersion(p)
    BY <1>1, <2>2 DEF StampVersion
  <2>3. CASE Backfill(p) \/ CreateStateInTransaction(p) \/ StampInTransaction(p)
                \/ CommitMigration(p) \/ CreateState(p)
    BY <1>1, <2>3 DEF Backfill, CreateStateInTransaction, StampInTransaction, CommitMigration,
                      CreateState
  <2>4. CASE AlreadyExists(p) \/ LockTimeout(p)
    BY <1>2, <2>4 DEF AlreadyExists, Clashes, LockTimeout
  <2> QED
    BY <1>3, <2>1, <2>2, <2>3, <2>4, ReadVersionKeepsFirst, CreateNormalizedKeepsFirst DEF OpenStep
<1>4. ASSUME NEW p \in Processes, Close(p) \/ Abort(p) PROVE FirstAttempt'
  BY <1>2, <1>4 DEF Close, Abort
<1>5. CASE UNCHANGED vars
  BY <1>5 DEF vars, FirstAttempt, Fresh
<1> QED
  BY <1>3, <1>4, <1>5, OpenKeepsFirst DEF Next

\* The first process to open a file of any earlier version meets no table of
\* its own migration: the schema each version has and the path its migration
\* takes fit each other.
THEOREM FirstOpenWorks == Spec => FirstOpenSucceeds
<1>1. MigrationInvariant /\ FirstAttempt /\ [Next]_vars =>
         [\A p \in Processes : AlreadyExists(p) => opens > 1]_vars
  <2> SUFFICES ASSUME MigrationInvariant, FirstAttempt, NEW p \in Processes, Clashes(p)
               PROVE  opens > 1
    BY DEF AlreadyExists
  <2>1. opens \in Nat
    BY DEF MigrationInvariant, TypeOK
  <2>2. opens # 0
    BY DEF FirstAttempt, Clashes
  <2>3. ASSUME opens = 1 PROVE FALSE
    <3>1. Fresh(p)
      BY <2>3 DEF FirstAttempt, Clashes
    <3>2. CASE pc[p] = "script"
      <4>1. created[p] \in 0..5
        BY <3>2, SchemaFacts DEF MigrationInvariant, TypeOK, Knows
      <4> QED
        BY <3>1, <3>2, <4>1, ScriptIsDistinct DEF Fresh, Clashes
    <3>3. CASE pc[p] \in {"fts", "fts1"}
      BY <3>1, <3>3 DEF Fresh, Clashes
    <3> QED
      BY <3>2, <3>3 DEF Clashes
  <2> QED
    BY <2>1, <2>2, <2>3
<1> QED
  BY FirstAttemptInit, FirstAttemptKept, MigrationInvariance, <1>1, PTL
     DEF Spec, FirstOpenSucceeds
=============================================================================
