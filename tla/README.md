# Verification of engineering-knowledge

TLA+ modules of the engineering-knowledge program (Python, SQLite), TLC
configurations that check them on small instances, and TLAPS proofs. Source
paths below are relative to `src/engineering_knowledge/` of the repository.

## 1. The system

Files of a source are ingested into one SQLite file and found again by lexical
(FTS5), vector (sqlite-vec) or hybrid search. Command-line processes write the
file; others, and an MCP server that opens it read-only, search it. Nothing
coordinates these processes except SQLite's lock and Python's implicit
transactions.

| component | state | operations | talks to |
|---|---|---|---|
| identity, fingerprints (`domain/`, `embeddings/fingerprint.py`) | none | derive ids and fingerprints | everyone |
| repository (`persistence/sqlite.py`) | tables `document_sources`, `documents`, `chunks`; derived `chunk_fts`, `vec_chunks`, `vector_index_state`; `user_version` | open and migrate, `sync_source`, `rebuild_vector_index`, `search`, `search_vector`, reads by id | SQLite |
| ingestion (`ingestion/`, `sources/`) | what it has read so far | list, read, process, embed, synchronize, report | file system, chunking, provider, repository |
| chunking (`chunking/`) | none that lasts | sections, paragraph units, packing | ingestion |
| retrieval (`retrieval/`) | none that lasts | lexical, vector and hybrid search, fusion | repository, provider |
| evaluation (`evaluation/`) | none that lasts | resolve golden references, run every query under every strategy, recall, reciprocal rank, means | retrieval |
| command line (`cli/`), MCP server (`mcp/`) | none | run one command; answer tool calls one at a time, passing on the errors they expect | everyone |
| configuration, composition | none | build the above | everyone |

What is hard here:

- **Transactions that are not where they seem.** `sqlite3` begins a transaction
  before INSERT, UPDATE and DELETE only. DDL inside `with connection:` commits
  on its own, so migration and the replacement of `vec_chunks` are not atomic.
- **State read before it is used.** A rebuild reads and embeds the chunks, then
  opens its transaction; a vector search checks the index's fingerprint, then
  queries; a hybrid search reads twice; an ingestion reads files one by one; an
  evaluation makes many searches of one dataset.
- **Derived tables without foreign keys.** `chunk_fts` and `vec_chunks` are kept
  in step by hand in every branch of `sync_source`.
- **Processes that differ.** Some have sqlite-vec and a provider, some have not;
  providers differ in model and dimension.
- **Failures in the middle**: lock timeouts, statement errors, death.
- **Small algorithms with many boundaries**: the chunk splitter, the Markdown
  scanner, section identities, the truncation probe under a capped candidate
  limit, the tie-break, means over queries.

What makes each component correct: chunks and both indexes are always those of
the stored documents (repository); a sync is one atomic replacement of one
source (repository); the current schema version means a complete schema
(migration); an answer's status and order are those of the whole index
(retrieval), and refreshing an index disturbs no search; chunks partition the text
and have unique identities (chunking); a commit is right about every file nobody
touched, and a committed run reports success (ingestion); a report measures the
index it was made on, and what could not be answered is not counted as nothing
found (evaluation).

## 2. The modules

| module | models | state | actions |
|---|---|---|---|
| `Corpus` | vocabulary: ids, fingerprints, chunk texts, embeddings | – | – |
| `KnowledgeBase` | the `Repository` contract, abstract | `library`, `lexical`, `semantic`, `active` | `Replace`, `Activate`, `Deactivate` |
| `SqliteStore` | tables, statements, transactions, the write lock | `db` (committed), `draft` (the open transaction's view), `owner` (its connection) | `Execute`, `ExecuteSchema`, `Commit`, `Rollback`, used by the next two |
| `SourceSync` | `sync_source` in several processes | per connection: `pc`, `call`, `pending`, `doomed`, `tally`; `clock` | `Call`, `BeginSync`, `RejectIncompatible`, `LockTimeout`, `KeepUnchanged`, `WriteDocument`, `RejectWrite`, `DeleteMissing`, `RejectDelete`, `CommitSync`, `Abort` |
| `VectorRebuild` | `rebuild_vector_index` beside `sync_source`: extends `SourceSync` | per connection: `step`, `provider`, `rows`, `seen` | one per statement outside the transaction, `ClearVectors`, `InsertVectorsAndState`, `CommitRebuild`, refusals, timeouts, `AbortRebuild` |
| `SchemaMigration` | `_initialize_schema` in several processes | `file`, `draft`, `owner`, `pc`, `created` | one per statement |
| `RankFusion` | `fuse_rankings`, `_build_result` | – | – (operators) |
| `KnowledgeSearch` | `KnowledgeService.search`, one request at a time, beside commits of other processes | `index`, `session`, `request`, what was read, `answer` | `Search`, `Refuse`, `ReadLexical`, `CheckVectorState`, `RejectVectorState`, `ReadVectors`, `RejectQuery`, `FailRead`, `Answer`, `FailFusion`, `OthersCommit` |
| `SearchSession` | the MCP server's `search_knowledge` over the database of `VectorRebuild`: the reading steps of `KnowledgeSearch` on an index computed from the committed tables | the state of both, and two history variables, `steady` and `served` | `BeginRequest`, `RejectStrategy`, every step of a request of `KnowledgeSearch` (`FailRead` and `Refuse` included), `Deliver`, `OthersStep` |
| `Evaluation` | `run_evaluation` over `KnowledgeSearch` | `phase`, queries and references resolved, `scores` | `StartEvaluation`, `Resolve`, `FailLookup`, `Ask`, `Score`, `FailEvaluation` |
| `Chunker` | `_split_section` | text, atoms, chunk being filled, chunks | `Pack`, `Flush`, `Finish` |
| `MarkdownSections` | `split_into_sections`, section occurrences | text, fence, heading stack, section being collected, sections, counts | one per branch of the loop, `FinishScan`, `NumberSection` |
| `DocumentChunks` | `chunk_markdown`, `chunk_plain_text`, `_build_chunks`: extends `MarkdownSections`, an INSTANCE of `Chunker` for each section | format, bound, the section being split, chunks | `ScanMarkdown`, `TakeWhole`, `BeginSection`, `PackAtom`, `FinishSection` |
| `Ingestion` | `ingest_source` over the local file system | `disk`, `library`, per process: what was listed, read, touched, reported; a history variable, `settled` | `Edit`, `List`, `ReadFile`, `ReadFails`, `Synchronize`, `Abort` |
| `SourceSyncProofs`, `SchemaMigrationProofs`, `IngestionProofs` | – | – | theorems about the module they are named after |
| `VectorRebuildProofs` | – | – | theorems about `VectorRebuild`, then `SearchSession` |
| `EvaluationProofs` | – | – | theorems about `RankFusion`, `KnowledgeSearch`, then `Evaluation` |
| `SequenceLemmas` | – | – | lemmas: induction up to a number, sequences, folds over sequences and sets, `FlattenSeq`, intervals that tile a range |
| `ChunkerProofs` | – | – | lemmas about `Chunker`: its runs, units, atoms and packing |
| `DocumentChunksProofs` | – | – | theorems about `DocumentChunks` |

`MC<module>` gives a module's constants small values; one such module serves
several `.cfg` files. Operators marked *Mutant* in a module are faulty variants of
the definition that follows them; nothing uses them in a specification. They are
there to show that the property named with them in `PROJECT.json` notices the fault.

How the code becomes actions:

- Inside SQLite's write lock nobody else writes and readers see the last commit,
  so statements of one document (`_write_document`) are one action; statements
  outside a transaction are one action each.
- `Rollback` is the end of `with connection:` by an exception and what SQLite
  does after a process died. `Abort` stands for both and can happen at any point
  of a call.
- A vector is `[fingerprint, text]`: the space it lives in and the text embedded.
  A fingerprint is (model, dimension): provider type and revision are part of the
  model. The title that is embedded with a text belongs to the text.
- A processing fingerprint is `max_chunk_chars`: the format is fixed by the path.
- `SourceSync!IncomingFingerprint` is absent for an empty snapshot, as in the code,
  where it is taken from the documents.
- `LockTimeout` needs no clock: it may happen whenever another connection has the
  lock, so both the wait that ends well and the one that does not are explored.
- `Ingestion` takes `sync_source` as the one atomic step `SourceSync` is shown to
  implement, for a source without a vector index.
- `KnowledgeSearch!OthersCommit` replaces rankings, versions, space and table by those
  of another state of the database, taken from `Changes`: in the runs one where everything
  was deleted, ones where every chunk was rewritten and the index rebuilt, and ones
  where the vector table was dropped and not made again.
- `vec_chunks` takes the k nearest vectors before `ORDER BY` breaks ties. `index.tied`
  says which places of the vector ranking are as near as the one before. A read takes
  any order of the equally near ones (`NearestOrders`) that is sorted up to its limit,
  and cuts it there, so that every read chooses anew which of them it finds.
- `SearchSession` has no `Changes`: its rankings are read off the tables that
  `SourceSync` and `VectorRebuild` have committed, a row of `chunk_fts` or
  `vec_chunks` counting when it joins with `chunks`. Lexically chunks rank by one fixed
  order; all vectors are equally near.
- The error that ends a request is its status. The server passes the errors it expects
  on as its own; any other leaves it as it is: a failed fusion, a query
  that cannot be embedded (`EmbeddingError`), an error of `sqlite3` in the SELECT of the
  index state, a name that is no strategy (`ValueError`).
- `Ingestion` counts as `sync_source` does, document by document (`Counter`), and
  builds `IngestionResult` from the counters after the commit (`Result`), with its
  validator's failure as `Mismatch`. `settled` is a history variable: the bound of the last
  commit, for as long as no file was touched since its run listed them.
- A fence line is told by its marker, whether anything follows it, and whether only
  spaces and tabs come before: `_is_fence_close` strips more than that, so that there are
  lines that close a fence and are text outside of one.
- An evaluation is its sequence of searches. Golden queries differ in what is
  relevant to them; the index ranks alike for all. Scores are exact fractions.
- A heading's title is the sequence of its parts between unit separators, the
  character `as_identity_string` joins a path with; `IdentityString` flattens.
- `SqliteStore!ActiveFingerprint` is the space vector search answers in. While the
  table is missing or of another dimension than recorded every query fails, and the
  refinement takes the index as out of service (`KnowledgeBase!Deactivate`).

## 3. The runs

| run | instance | shows |
|---|---|---|
| `MCSourceSync` | 2 sources, 2 files, 2 contents, 2 bounds, 2 models, 2 processes (1 without sqlite-vec), 2 calls, index active or not | chunks, lexical and vector index exact after every commit; counters true of the database the commit replaced; nothing rewritten that did not change, no other source touched; refinement of `KnowledgeBase`; calls return |
| `MCVectorRebuild` | 2 processes, 2 dimensions, 2 syncs, 2 rebuilds, death anywhere | vectors have one space and a stored chunk; lexical index undisturbed; a rebuild covers what it read; rebuilds return |
| `MCSearchSession` | 1 reading process, 1 that ingests and rebuilds; 2 models × 2 dimensions, 3 contents, 2 syncs, 3 rebuilds, 1 request, death anywhere but between DROP and CREATE; every read may fail | refinement of `KnowledgeBase` by sync and rebuild together; a rebuild is refused only where one that died left an unfitting table; a failed fusion follows a commit between two reads; syncs and rebuilds with the model in service turn no search away and hide no chunk from it |
| `MCSchemaMigration` | 2 writers, 1 reader, versions 0–4, 5 opens, death anywhere | the current version stamp is on complete schemas only; an opened repository is complete; opening ends; the first to open a file of an earlier version can |
| `MCEvaluation` | pairs of rankings of 4 chunks, limits 2 < 3, places 3 and 4 tied or none, 2 golden queries of 2 categories, one commit by others at any moment, every read may fail | honest status; no answer inverts what both rankings agree on; reports measure the full rankings; no report without an index and all references; every request and evaluation ends |
| `MCDocumentChunks` | texts of ≤ 4 lines of 13 kinds and of 5 lines of 11 kinds, bounds 2 and 6, both formats | chunks partition the text; unique identities; paragraphs and lines kept whole; greedy; paths; fences |
| `MCIngestion` | 2 processes with different bounds, 2 files, 2 edits, 3 runs | commits are right about untouched files; a run over what nobody touched since the last counts everything as unchanged or reprocessed; runs return |

Five more runs are expected to be violated: each checks one sentence of the
repository's documentation or code, and TLC's trace shows what the code does
instead.

| run | the sentence | what happens |
|---|---|---|
| `MCVectorRebuildWedged` | recovery from corrupted vector state is the same operation (`rebuild_vector_index`) | DROP and CREATE commit before the transaction; after a death between CREATE and commit, a rebuild with the recorded dimension keeps the unfitting table and fails, each time |
| `MCVectorRebuildGap` | a rebuild atomically replaces the table and its metadata (`rebuild_vector_index`, `docs/architecture.md`) | one rebuild dies between DROP and CREATE, the next between CREATE and commit: an empty table of the recorded dimension, which every search accepts |
| `MCVectorRebuildStale` | derived indexes are never read without the tables agreeing (`docs/architecture.md`) | a sync commits while a rebuild embeds; the rebuild stores a vector of the old text |
| `MCSearchSessionSpace` | a query vector of another space is rejected (`search_vector`) | a rebuild commits between check and query |
| `MCIngestionCollision` | discovered = created + updated + reprocessed + unchanged (`IngestionResult`) | the file `a\b.md` and the file `b.md` in `a` are one document; the run commits, then fails to report |

**The gap in `MCSearchSession`.** `FailPoints` says where a rebuild may die.
With deaths between DROP and CREATE the refinement does not hold: the next rebuild with the
recorded dimension finds no table and creates one, which commits at once, and
until its transaction commits (for good, if it dies too) an empty table stands beside
metadata that say the index is complete: `MCVectorRebuildGap` is the trace.
`MCVectorRebuild` and `MCVectorRebuildWedged` include those deaths too.

**What `MCSearchSession` shows of failed fusions.** A hybrid search whose reads a
sync separates can return one chunk in two versions; `fuse_rankings` then raises
`HybridFusionError`, which its docstring puts down to a broken retriever, and which
neither the server nor the command line expects. It needs no broken retriever, only a
commit at the wrong moment, and the same request works when repeated.
`FusionFailuresFollowCommits` says that there is no other way to it. It speaks of this
error alone: an `EmbeddingError`, a `ValueError` for the name of a strategy and a raw error
of `sqlite3` in the SELECT of the index state leave the server as they are without any
commit, the last although the comment on `_EXPECTED_ERRORS` (`mcp/server.py:46-48`) counts
persistence read failures among what is relabelled.
Likewise `RefreshesKeepServing` ends where a
rebuild for another space begins: two of them, there and back, between the check of
the index state and the query give an empty answer although chunks are stored.

**What `MCDocumentChunks` shows of paragraphs.** `NaturalPiecesStayWhole` speaks of the
unit the code packs, a paragraph with the blank lines after it (`_paragraph_units`). A
paragraph that fits in a chunk alone, but not with those blank lines, is taken apart into
lines and may be cut, although the module's text (`chunker.py:15-17`) says so only of a
paragraph that alone exceeds the bound.

**Bounds.** `MaxCalls`, `MaxRebuilds`, `MaxOpens`, `MaxRuns`, `MaxEdits`, `MaxChanges`,
`MaxRequests` and `MaxLines` bound counters that only grow. Two calls are enough
for a call to meet what another left (create, then update, reprocess, delete or
keep) and for two processes to overlap; a third ingestion falls between, or after,
two others, under either bound. Three rebuilds are needed to establish an index,
crash while replacing it, and try to repair it, or to establish one, replace it and
come back. Two positions per document make a document shrink and grow. Four chunks with
a candidate limit of three make the limit cut rankings that the fusion would have
used. Four lines give two paragraphs with a blank line between them and an overlong
line at every place; five give a heading after a closed fence under a repeated path,
and paths with one identity string under different headings. One request at a time is
what the program does: the server's tools run on one thread, a command makes one search.

Instances are cut down in these places, each in the `MC` module: `MCSourceSync` has
its first call for one of two interchangeable sources, `MCSearchSession` a reader with
the first of two interchangeable models; `MCEvaluation` ties the last two of four places, across
the limit of three, where the lexical ranking is empty or full, and leaves out vector rankings of
exactly three chunks, and all but the empty one without a provider, which reads none;
`MCDocumentChunks` has texts of five lines in Markdown, with the largest bound and one
length of text only, for what five lines add is about headings and fences.
TLC's symmetry is not used: most runs have a liveness or step property.

**Deadlock** is checked in the runs of `SourceSync` and `VectorRebuild`, whose
specifications stutter explicitly when all work is done (`Quiescent`). The others
stop when their bound is used up, which their `.cfg` says.

**Fairness.** Weak fairness of one process's own steps (`SyncStep(c)`,
`RebuildStep(c)`, `OpenStep(p)`, `SearchStep`, `EvaluationStep`, `IngestStep(p)`) and of nothing
else: a process that is inside a call executes its next statement. It is justified
because each is sequential code without waiting, except for the lock, where
`sqlite3` has a timeout; hence no fairness of the lock is assumed. Starting a
call, failing, dying, editing files and commits of others are never fair.

## 4. What is proved

Every theorem is about every value of the constants: any number of sources, paths,
chunks, models, processes, calls and lines. `PROJECT.json` lists the theorems; here is
along which argument they go. Of the runs' properties, those named below are
theorems; the others are listed at the end with the reason.

**`SourceSync`: every state** (`SourceSyncProofs`). `TypeCorrect`, `ChunksCurrent`,
`LexicalIndexExact`, `VectorIndexExact` follow from `Invariance`. The invariants about
`db` are not inductive: a commit copies `draft` to `db`, so `draft` must be consistent
whenever a commit can happen. `SyncInvariant` therefore is (1) `TypeOK`; (2) for each
connection, the shape of a call in progress (`CallInProgress`: a call's arguments
are a record, a writing connection owns the lock, what is pending is present in the
snapshot, and the snapshot's space is the active one); and (3) `Consistent` of both `db`
and `draft`: chunks are those of the documents, the lexical index has one row per
chunk, vectors are exactly those of the chunks in the recorded space. The draft is
consistent at every step because writing or deleting one document changes its row,
chunks, lexical rows and vectors in one action. The argument is in two layers: what the
composed statements leave in each table (`WithDocumentEffect`, `WithVectorsEffect`,
`WithoutDocumentEffect`), and from it that replacing, re-indexing and removing a
document keep tables consistent, then one lemma per action.

**`SourceSync`: every commit** (`SourceSyncProofs`, second half). A consistent draft may still be
the wrong one. `CommitInvariant` adds what a transaction has done so far, told
from the committed tables, the call and the paths before it: outside its source, and
in the paths not handled yet, the draft is `db`; a path handled is stored as the
call wants it or gone (`TransactionScope`); each counter is the size of a set of handled
paths (`TallyIsExact`). With nothing pending this is what the theorems
`CommitsScoped` and `CountsTrue` say. `SyncImplementsKnowledgeBase` is the refinement:
exact tables are seen as `LexicalView` and `SemanticView` of the stored library
(`ViewsAreExact`), a commit is `Replace` of the call's source by its snapshot
(`CommitReplaces`), and nothing else writes `db`.

**`VectorRebuild`** (`VectorRebuildProofs`). With rebuilds `Consistent` is false: a rebuild
beside a sync stores vectors of old texts or leaves some out (`MCVectorRebuildStale`).
`RebuildInvariant` keeps what is true nevertheless, of `db` and `draft`: chunks and
lexical index exact, every vector with a stored chunk and in the one recorded space, the
recorded dimension that of the fingerprint. `RebuildTypeCorrect`, `OneVectorSpace`,
`LexicalUndisturbed` and `RebuildsCover` follow. Two theorems are about one
process, any number of calls and deaths (`OneProcess`: all connections are equal):

- `OnlyTornRefused`, from `LoneInvariant`: what the rebuild read is still stored, and the
  table it kept fits its provider unless an earlier death left it unfitting;
- `RebuildImplementsKnowledgeBase`, where no rebuild dies between DROP and CREATE
  (`NeverDiesInTheGap`; section 3 says what happens otherwise, and with two processes).
  `ServingInvariant` says that the index is either exact or out of service
  (`SearchExact`), that a recorded index lacks its table only inside the gap, and that a
  table is dropped only for one of another dimension than recorded, so that the new,
  empty table is not taken for a complete index. Then a sync commits a `Replace`, a
  rebuild an `Activate`, or a `Deactivate` where the table stays unfitting, and DROP and
  CREATE are `Deactivate`.

`MCSearchSession` checks both as properties of a system that also searches, which
changes nothing of the variables they are about.

**`SearchSession`** (`VectorRebuildProofs`, second half). Both its action properties are
theorems.

- `FusionFailuresNeedCommits`, for any number of processes that die anywhere and whatever
  reads fail, from `SessionInvariance`. What fusion refuses is a chunk that one component found
  twice or that the two found with different texts. The first cannot happen because the
  lexical index has exactly one row per chunk and `vec_chunks` one vector at most
  (`LexicalRankingIsOnce`, `VectorRankingIsOnce`: a ranking lists the places of a set,
  each once, and so do any order of its ties and any prefix, `NearestAreOnce`). The second needs a commit: until there is one, what
  was read has the texts stored (`WhatWasRead`), so that two reads fit
  (`SteadyReadsFuse`). That the lexical index is exact is part of `RebuildInvariant`:
  it holds because no rebuild, dying or not, touches `chunk_fts`.
- `RefreshesServe`, beside one process that does not die in the gap, from
  `ServedInvariant`, which is `SessionInvariant`, `ServingInvariant` of the refinement
  above, and that a request being served has an index in service. A refresh
  keeps it so: it reaches DROP only for a dimension other than the recorded one, which
  is its own (`RefreshStaysInService`). An index in service ranks every
  stored chunk because the index is exact, so that a vector read is as long as its limit or
  the number of chunks (`ServiceRanksAll`).

**`SchemaMigration`** (`SchemaMigrationProofs`). `MigrationTypeCorrect`,
`MigrationComplete`, `OpenMeansComplete` follow from `MigrationInvariance`. That a stamped
file is complete does not follow from the stamp's own step: the process that stamps
relies on statements it executed earlier, and others have written in between.
`MigrationInvariant` says what each process knows of the file by its label (`Knows`),
what a version-1 transaction has done to its draft (`Migrates`), and what the version of
the file says (`VersionHolds`). Every step leaves a file that `Extends` the one
before (no statement drops a table, loses a lexical entry of an indexed file, or
takes back the current version), so what others know stays true (`KnowledgeLasts`).
`FirstOpenWorks` adds `FirstAttempt`: the tables are those of the version opened plus
the part of the script this attempt has executed, and the script creates none twice.

**`Ingestion`** (`IngestionProofs`). `IngestionTypeCorrect`, `CommitsRight` from
`IngestionInvariant`: what a run has read of a file that nobody touched since it listed
the source is what the file holds; and as long as `settled` names a bound, the library has
under that bound what the files contain (`SettledIsStored`), which a commit establishes
because it is right about every path (`CommitIsRight`). Under `OneFilePerPath`, that no
two files have one normalized path, `UntouchedRunsQuiet` follows: a snapshot read from
untouched files is the library (`UntouchedIsStored`), every document in it is counted under
one counter, and as there are as many documents as files read (`IncomingAreRead`, a
bijection) the validator of the result agrees. `MCIngestionCollision` shows that
without `OneFilePerPath` it does not.

**`RankFusion`, `KnowledgeSearch`** (`EvaluationProofs`, first half). `TieBreakIsTotalOrder`:
`Precedes` is a strict total order on candidates. `FusionArranges`: sorting by it
arranges exactly the chunks found. `Fused` places a candidate by the number of
candidates before it; that these numbers are 0, 1, … without gaps is proved by counting, not
by induction: n candidates have n different numbers below n. `StatusesAreHonest` and
`DominatedAreLater` follow from `SearchInvariant`: what a component has read is the prefix
its limit cuts from a ranking of an index, with equally near chunks in any order, the present one unless others have committed
since (`ReadsAreCuts`), and a vector answer was preceded by a look at an index in service
(`VectorsWereReady`). The rest is arithmetic of the probe: the component limit
exceeds what is asked unless capped, and a capped prefix that is full hides chunks only when there are
more; and domination in the full rankings survives cutting both at the same place, for a
chunk that is strictly nearer is before the other in every order of the ties
(`OrdersKeepNearer`).
`AnswersAreCuts` says what an answer of one component is: the start of its ranking.

**`Evaluation`** (`EvaluationProofs`, second half). `EvaluationTypeCorrect`, `ReportsHaveAnIndex`, and
`EvaluatedAnswersAreHonest`, which takes over `SearchInvariant`: every step of an evaluation is a
step of a search or leaves it alone. `EvaluationInvariant` adds which search is waited
for, that references looked up are stored and that vector searches answered had an
index, unless others have committed since the evaluation began; and that every score
made so far is what the first k chunks of the full ranking are worth for its query
(`ScoresMeasure`; of a hybrid score, that a relevant chunk first in both rankings, nearer than any other, has
rank 1, because what it dominates comes later). `ReportsMeasure` follows: the scores a
report reads for strategy n and query q are those of that search (`PlanOrder`), and its means are
those of the values. The code sums in the order of the dataset, the property sums
over a set of queries; that the two agree is a fact about sums as such: the fold over a finite
set, which chooses any element next, is the fold over any sequence that has each once
(`FoldEnumerated`), for steps that can be exchanged (`PlusAdds`).

**`DocumentChunks`** (`SequenceLemmas`, `ChunkerProofs`, `DocumentChunksProofs`). All its
safety properties are theorems, along three invariants, each relying on the ones before.

- `ChunkingInvariant` gives `OnlyFencesHide` and `IdentitiesUnique`. `Scan` says that there are
  disjoint fenced blocks, begun at lines already read, that hold every line read that can open a fence, that a
  heading has opened a section exactly if it is in none, and that the block of an open fence
  is the last. `Numbering` counts the sections of each identity string seen so far, so that
  two sections with one string differ in occurrence; `Identities` says that a chunk has its
  section's string and occurrence and a place in it that no other has. None of it depends on
  how the text of a section is cut.
- `Cutting` gives `ChunksPartition`, `NaturalPiecesWhole` and `SectionsCutGreedily`. The
  sections tile the lines up to those being collected (`Sectioned`). The atoms of the section
  being split tile its characters and split no paragraph and no line that fits; those
  before the next one have been packed, none of them split, so that no two neighbouring pieces
  could be one, the piece being filled included (`Packing`). The chunks built tile the
  characters of the finished sections (`Placement`). That the pieces are greedy is not inductive
  by itself: a piece is flushed because the *next atom* did not fit, and it is the
  first atom of the following piece only because that piece starts with it and never shrinks.
  That the atoms tile the text is a fact about folds within folds: runs of like lines are
  maximal (`RunsAreMaximal`), units are a paragraph and its blank lines
  (`UnitsAreParagraphs`), an overlong line is divided at multiples of the bound
  (`HardSplitCuts`), and tiles of neighbouring ranges tile their union (`TilesFlatten`).
- `Pathing` gives `PathsFollow`: the stack has the level and title of the headings still
  open (opened a section, and no later one is as high), and every section the titles of those
  around it. A new heading pops exactly the open ones that are not above it, because levels
  on the stack increase.

`DocumentTypes` follows from all three.

**Folds.** `FoldLeft` and `FlattenSeq` are recursive functions, and facts about them need
induction, whose theorems in the library take an operator as parameter, which the installed provers
cannot instantiate. `SequenceLemmas` goes around it: a set of numbers that holds 0, and n + 1
with every n, holds all up to m (`CountingTo`, from the well-foundedness of <), and a
property becomes the set of the numbers it holds for. That the recursion behind `FoldLeft` has a
solution at all is `FoldExists`; the lemma for each fold (`RunsSteps`, `UnitsSteps`, `SummedSteps`,
`OuterSteps`, `SumSteps`) then gives its partial results. Folds over sets recurse on the set;
`SetFoldExists` does the same for them, by the number of elements, and `AnyLast` says that any
element may be the one taken last. `FlattenEnumerates` says that a sequence flattened from
parts that are empty or one index lists those indexes, in order.

**Assumptions.** Constants are assumed to be what the named assumptions of the modules
say, and TLC evaluates every one of them: `Split` is a function to texts, `None` is no
text, content, bound, row, connection, process or index state, `Mismatch` is no report, paths and chunk ids are finite sets,
dimensions are positive, bounds are numbers, some chunk version exists, golden queries have
references, no fence line is `None`, a heading is its level and title, chunks are ordered in a
list that has each once, search limits are numbers. Only `OneProcess`, `NeverDiesInTheGap` and `OneFilePerPath`
are hypotheses of single theorems; the runs that check those theorems' properties satisfy them.

**Only model-checked:** liveness (`CallsReturn`, `RebuildsReturn`, `OpensReturn`,
`EvaluationsReturn`, `RunsReturn`), which needs fairness and ENABLED, and TLAPS does neither;
and the counterexamples of the runs that expect a violation. Every invariant and action
property of the other runs, and both refinements, are theorems.

## 5. What is not modelled, and why

- Scores are exact fractions, not doubles. Where two chunks have one exact score
  the doubles can differ in the last bit, and the tie-break is then not reached
  (ranks (30, 50) against (39, 39)).
- What FTS5 and sqlite-vec rank, the quoting of queries, decoding, titles,
  regular expressions, embedding arithmetic, formatting and printing.
- Which errors of `sqlite3` leave opening and rebuilding as `PersistenceError` and which
  as they are; for searches it is modelled.
- Power loss and a corrupted file: SQLite's own durability is assumed.
- Configuration, composition, and the command line and MCP server beyond the
  operations they start: argument parsing, printing, the registration of tools,
  lookups by id, which are single reads.
- The golden dataset's file format. `Golden` is assumed to be what its validators
  admit: queries with references, none of which derives an id twice (the validators
  compare references, and two of them can derive one id).
- Content a golden dataset was judged against. A reference resolves by id whatever text
  its chunk has by now (`Resolves`), so that a report can be made on text nobody
  judged, which the docstring of `dataset.py` can be read to exclude.
- Text normalization: the models start from normalized lines.

## 6. Plan

Done: the store, sync, rebuild, migration, search, search beside syncs and rebuilds,
evaluation, and chunking from a document's text to its chunks, ingestion, with
their runs; the proofs of section 4.

Left in the model:

1. A documented sentence still to be checked: initialisation leaves nothing behind when
   it fails.
2. Ingestion with an active vector index and providers that fail.

Left to prove:

1. `VectorIndexAgrees` with rebuilds that run one after the other, beside syncs:
   which orders of several processes keep `ImplementsKnowledgeBase`.
