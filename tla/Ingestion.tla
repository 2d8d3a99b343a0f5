------------------------------ MODULE Ingestion -----------------------------
(***************************************************************************)
(* IngestionService.ingest_source over LocalFilesystemSourceAdapter: the   *)
(* files of a source are listed, then read one at a time, processed, and   *)
(* handed to sync_source as one complete snapshot.  People edit the files  *)
(* meanwhile, and several processes may ingest the source.                 *)
(*                                                                         *)
(* sync_source is the atomic replacement SourceSync is shown to implement, *)
(* for a source without an active vector index.                            *)
(***************************************************************************)
EXTENDS Naturals, FiniteSets

CONSTANTS
    Processes,  \* processes ingesting the source
    Files,      \* files under the source root, as the file system names them
    Paths,      \* normalized relative paths
    PathOf,     \* normalize_relative_path of a file's name
    Contents,   \* normalized texts
    BoundOf,    \* max_chunk_chars each process is configured with
    MaxEdits,   \* bound: changes to files in a behaviour
    MaxRuns,    \* bound: ingestions in a behaviour
    None,       \* a missing file, document or result
    Unreadable, \* a file that is too large, not UTF-8, or not permitted
    Mismatch    \* the ValueError of a result whose totals disagree

ASSUME IngestionAssumption ==
    /\ PathOf \in [Files -> Paths]
    /\ None \notin Contents /\ Unreadable \notin Contents /\ None # Unreadable
    /\ MaxEdits \in Nat /\ MaxRuns \in Nat
    /\ IsFiniteSet(Files) /\ IsFiniteSet(Paths)

VARIABLES
    disk,     \* what each file contains
    edits,    \* changes made to it so far
    library,  \* the source's stored documents
    pc,       \* where each process is in ingest_source
    listed,   \* the candidates it found and has not read
    got,      \* what it read: the raw documents, by file
    touched,  \* files edited since it listed the source
    runs,     \* ingestions started so far
    report,   \* what each process's last committed run returned, or raised
    settled   \* history: the bound of the last commit, if no file was touched
              \* from the listing of its run until now

vars == <<disk, edits, library, pc, listed, got, touched, runs, report, settled>>

Bounds == {BoundOf[p] : p \in Processes}
Entries == [content : Contents, bound : Bounds]
Counters == {"created", "updated", "reprocessed", "unchanged", "deleted"}
Reports == [Counters -> Nat]

\* A missing document is not a document.
ASSUME EntriesAssumption ==
    None \notin Entries /\ None \notin Bounds /\ Mismatch \notin Reports

TypeOK ==
    /\ disk \in [Files -> Contents \cup {None, Unreadable}]
    /\ edits \in 0..MaxEdits
    /\ library \in [Paths -> Entries \cup {None}]
    /\ pc \in [Processes -> {"idle", "reading"}]
    /\ listed \in [Processes -> SUBSET Files]
    /\ got \in [Processes -> [Files -> Contents \cup {None}]]
    /\ touched \in [Processes -> SUBSET Files]
    /\ runs \in 0..MaxRuns
    /\ report \in [Processes -> Reports \cup {None, Mismatch}]
    /\ settled \in Bounds \cup {None}

NothingRead == [f \in Files |-> None]

Init ==
    /\ disk \in [Files -> Contents \cup {None, Unreadable}]
    /\ edits = 0
    /\ library = [path \in Paths |-> None]
    /\ pc = [p \in Processes |-> "idle"]
    /\ listed = [p \in Processes |-> {}]
    /\ got = [p \in Processes |-> NothingRead]
    /\ touched = [p \in Processes |-> {}]
    /\ runs = 0
    /\ report = [p \in Processes |-> None]
    /\ settled = None

----------------------------------------------------------------------------

\* Somebody creates, changes, breaks or deletes a file.
Edit(f, value) ==
    /\ edits < MaxEdits
    /\ value # disk[f]
    /\ disk' = [disk EXCEPT ![f] = value]
    /\ edits' = edits + 1
    /\ touched' = [p \in Processes |->
                      IF pc[p] = "idle" THEN {} ELSE touched[p] \cup {f}]
    /\ settled' = None
    /\ UNCHANGED <<library, pc, listed, got, runs, report>>

\* _discover_candidates: the whole tree is listed before any file is read.
List(p) ==
    /\ pc[p] = "idle"
    /\ runs < MaxRuns
    /\ runs' = runs + 1
    /\ pc' = [pc EXCEPT ![p] = "reading"]
    /\ listed' = [listed EXCEPT ![p] = {f \in Files : disk[f] # None}]
    /\ report' = [report EXCEPT ![p] = None]
    /\ UNCHANGED <<disk, edits, library, got, touched, settled>>

\* Mutant: nothing is checked before the file is taken.
ReadFileUnchecked(p, f) ==
    /\ pc[p] = "reading"
    /\ f \in listed[p]
    /\ got' = [got EXCEPT ![p][f] = disk[f]]
    /\ listed' = [listed EXCEPT ![p] = @ \ {f}]
    /\ UNCHANGED <<disk, edits, library, pc, touched, runs, report, settled>>

\* _read: the file is there, within bounds, and decodes.
ReadFile(p, f) ==
    /\ pc[p] = "reading"
    /\ f \in listed[p]
    /\ disk[f] \in Contents
    /\ got' = [got EXCEPT ![p][f] = disk[f]]
    /\ listed' = [listed EXCEPT ![p] = @ \ {f}]
    /\ UNCHANGED <<disk, edits, library, pc, touched, runs, report, settled>>

Leave(p) ==
    /\ pc' = [pc EXCEPT ![p] = "idle"]
    /\ listed' = [listed EXCEPT ![p] = {}]
    /\ got' = [got EXCEPT ![p] = NothingRead]
    /\ touched' = [touched EXCEPT ![p] = {}]
    /\ UNCHANGED <<disk, edits, runs>>

\* Mutant: a file that cannot be read is skipped.
ReadSkips(p, f) ==
    /\ pc[p] = "reading"
    /\ f \in listed[p]
    /\ disk[f] \in {None, Unreadable}
    /\ listed' = [listed EXCEPT ![p] = @ \ {f}]
    /\ UNCHANGED <<disk, edits, library, pc, got, touched, runs, report, settled>>

\* Mutant: a file that is gone is waited for.
ReadFailsIfBroken(p, f) ==
    /\ pc[p] = "reading"
    /\ f \in listed[p]
    /\ disk[f] = Unreadable
    /\ Leave(p)
    /\ UNCHANGED <<library, report, settled>>

\* One file that cannot be read fails the run; it was listed, so it is not
\* taken for deleted.
ReadFails(p, f) ==
    /\ pc[p] = "reading"
    /\ f \in listed[p]
    /\ disk[f] \in {None, Unreadable}
    /\ Leave(p)
    /\ UNCHANGED <<library, report, settled>>

Read(p) == {f \in Files : got[p][f] # None}

\* Documents are keyed by their id, hence by path: of two files with one
\* normalized path the last one stands.
Snapshots(p) ==
    {snapshot \in [Paths -> Contents \cup {None}] :
        \A path \in Paths :
            LET candidates == {f \in Read(p) : PathOf[f] = path}
            IN  IF candidates = {} THEN snapshot[path] = None
                ELSE \E f \in candidates : snapshot[path] = got[p][f]}

\* sync_source: the source becomes what the snapshot has.
Replacement(p, snapshot) ==
    [path \in Paths |->
        IF snapshot[path] = None THEN None
        ELSE [content |-> snapshot[path], bound |-> BoundOf[p]]]

\* Mutant: a document that differs at all has been updated.
CounterByEither(p, snapshot, path) ==
    IF library[path] = None THEN "created"
    ELSE IF library[path] # [content |-> snapshot[path], bound |-> BoundOf[p]]
         THEN "updated" ELSE "unchanged"

\* What sync_source counts an incoming document as: the text is compared
\* before the processing configuration it was chunked under.
Counter(p, snapshot, path) ==
    CASE library[path] = None -> "created"
      [] library[path] # None /\ library[path].content # snapshot[path] -> "updated"
      [] library[path] # None /\ library[path].content = snapshot[path] ->
            IF library[path].bound # BoundOf[p] THEN "reprocessed" ELSE "unchanged"

\* SourceSyncResult: the incoming documents by counter, and the stored ones
\* that are not incoming.
Counts(p, snapshot) ==
    [counter \in Counters |->
        IF counter = "deleted"
        THEN Cardinality({path \in Paths : library[path] # None /\ snapshot[path] = None})
        ELSE Cardinality({path \in Paths : /\ snapshot[path] # None
                                           /\ Counter(p, snapshot, path) = counter})]

\* IngestionResult, whose validator compares the documents read with the
\* documents counted; it runs after the sync has committed.
Result(discovered, counts) ==
    IF discovered = counts["created"] + counts["updated"]
                    + counts["reprocessed"] + counts["unchanged"]
    THEN counts ELSE Mismatch

\* Everything is read: process, embed, synchronize, report.
Synchronize(p, snapshot) ==
    /\ pc[p] = "reading"
    /\ listed[p] = {}
    /\ snapshot \in Snapshots(p)
    /\ library' = Replacement(p, snapshot)
    /\ report' = [report EXCEPT ![p] =
                     Result(Cardinality(Read(p)), Counts(p, snapshot))]
    /\ settled' = IF touched[p] = {} THEN BoundOf[p] ELSE None
    /\ Leave(p)

\* Processing, embedding or the sync fails, or the process dies.
Abort(p) ==
    /\ pc[p] = "reading"
    /\ Leave(p)
    /\ UNCHANGED <<library, report, settled>>

IngestStep(p) ==
    \/ \E f \in Files : ReadFile(p, f)
    \/ \E f \in Files : ReadFails(p, f)
    \/ \E snapshot \in [Paths -> Contents \cup {None}] : Synchronize(p, snapshot)

Next ==
    \/ \E f \in Files, value \in Contents \cup {None, Unreadable} : Edit(f, value)
    \/ \E p \in Processes : List(p)
    \/ \E p \in Processes : IngestStep(p)
    \/ \E p \in Processes : Abort(p)

Spec == Init /\ [][Next]_vars

\* A process keeps executing ingest_source until it returns.
FairSpec == Spec /\ \A p \in Processes : WF_vars(IngestStep(p))

----------------------------------------------------------------------------

\* A run that commits leaves every file nobody touched during it stored with
\* its content, and no document for a path none of whose files exist: files
\* that came, went or broke while the source was read never make the run
\* delete, or keep, the documents of others.
CommitsReflectUntouchedFiles ==
    [][\A p \in Processes, snapshot \in [Paths -> Contents \cup {None}] :
        Synchronize(p, snapshot) =>
            \A path \in Paths :
                LET files == {f \in Files : PathOf[f] = path}
                    present == {f \in files : disk[f] # None}
                IN  files \cap touched[p] = {} =>
                        IF present = {} THEN library'[path] = None
                        ELSE \E f \in present :
                                library'[path] = [content |-> disk[f],
                                                  bound |-> BoundOf[p]]]_vars

\* Every run returns.
RunsReturn == \A p \in Processes : pc[p] = "reading" ~> pc[p] = "idle"

\* Ingesting a source nobody has touched since it was last ingested is no
\* fresh ingestion: whoever runs it, and whatever other runs began, failed or
\* died in between, nothing is created, updated or deleted; every document is
\* unchanged and the library with it, or, under another bound, every document
\* is reprocessed and none counts as updated.
UntouchedRunsChangeNothing ==
    [][\A p \in Processes, snapshot \in [Paths -> Contents \cup {None}] :
        Synchronize(p, snapshot) /\ touched[p] = {} /\ settled # None =>
            LET counter == IF settled = BoundOf[p] THEN "unchanged" ELSE "reprocessed"
            IN  /\ report'[p] = [c \in Counters |->
                                    IF c = counter THEN Cardinality(Read(p)) ELSE 0]
                /\ settled = BoundOf[p] => library' = library]_vars

\* A run that committed also returns its result: the documents discovered
\* are the documents counted (IngestionResult, _check_discovered_total).
DiscoveredIsCounted ==
    [][\A p \in Processes, snapshot \in [Paths -> Contents \cup {None}] :
        Synchronize(p, snapshot) => report'[p] # Mismatch]_vars
=============================================================================
