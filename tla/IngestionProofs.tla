--------------------------- MODULE IngestionProofs ---------------------------
(***************************************************************************)
(* Proofs about Ingestion: what a run makes of files that others edit      *)
(* while it reads, for every set of files, paths, contents and processes.  *)
(***************************************************************************)
EXTENDS Ingestion, FiniteSetTheorems, TLAPS

----------------------------------------------------------------------------
(* The inductive invariant.                                                *)

\* A process that runs knows the files nobody touched: those it has still to
\* read are there, and what it holds of the others is what they contain.
KnowsUntouched(p) ==
    pc[p] = "reading" =>
        \A f \in Files \ touched[p] :
            IF f \in listed[p] THEN disk[f] # None ELSE got[p][f] = disk[f]

\* A process between runs knows nothing.
StartsAfresh(p) ==
    pc[p] = "idle" => got[p] = NothingRead /\ touched[p] = {}

\* What the last commit stored, while nobody has touched a file since its run
\* listed the source, is what the files contain.
SettledIsStored ==
    settled # None =>
        \A path \in Paths :
            LET present == {f \in Files : PathOf[f] = path /\ disk[f] # None}
            IN  IF present = {} THEN library[path] = None
                ELSE \E f \in present :
                        library[path] = [content |-> disk[f], bound |-> settled]

IngestionInvariant ==
    /\ TypeOK
    /\ \A p \in Processes : KnowsUntouched(p) /\ StartsAfresh(p)
    /\ SettledIsStored

LEMMA InitEstablishes == Init => IngestionInvariant
BY IngestionAssumption
   DEF Init, IngestionInvariant, TypeOK, KnowsUntouched, StartsAfresh, NothingRead, SettledIsStored

\* An edit is what its file is taken out of account for.
LEMMA EditPreserves ==
    ASSUME IngestionInvariant, NEW f \in Files,
           NEW value \in Contents \cup {None, Unreadable}, Edit(f, value)
    PROVE  IngestionInvariant'
<1> USE DEF IngestionInvariant
<1>1. TypeOK'
  BY IngestionAssumption DEF TypeOK, Edit
<1>2. ASSUME NEW p \in Processes PROVE KnowsUntouched(p)' /\ StartsAfresh(p)'
  BY DEF TypeOK, Edit, KnowsUntouched, StartsAfresh
<1>3. SettledIsStored'
  BY DEF Edit, SettledIsStored
<1> QED
  BY <1>1, <1>2, <1>3

\* A run begins with nothing touched, and every file there is listed.
LEMMA ListPreserves ==
    ASSUME IngestionInvariant, NEW p \in Processes, List(p)
    PROVE  IngestionInvariant'
<1> USE DEF IngestionInvariant
<1>1. TypeOK'
  BY IngestionAssumption DEF TypeOK, List
<1>2. ASSUME NEW q \in Processes PROVE KnowsUntouched(q)' /\ StartsAfresh(q)'
  <2>1. CASE q = p
    BY <2>1 DEF TypeOK, List, KnowsUntouched, StartsAfresh, NothingRead
  <2>2. CASE q # p
    BY <2>2 DEF TypeOK, List, KnowsUntouched, StartsAfresh
  <2> QED
    BY <2>1, <2>2
<1>3. SettledIsStored'
  BY DEF List, SettledIsStored
<1> QED
  BY <1>1, <1>2, <1>3

LEMMA ReadFilePreserves ==
    ASSUME IngestionInvariant, NEW p \in Processes, NEW f \in Files, ReadFile(p, f)
    PROVE  IngestionInvariant'
<1> USE DEF IngestionInvariant
<1>1. TypeOK'
  BY DEF TypeOK, ReadFile
<1>2. ASSUME NEW q \in Processes PROVE KnowsUntouched(q)' /\ StartsAfresh(q)'
  <2>1. CASE q = p
    BY <2>1 DEF TypeOK, ReadFile, KnowsUntouched, StartsAfresh
  <2>2. CASE q # p
    BY <2>2 DEF TypeOK, ReadFile, KnowsUntouched, StartsAfresh
  <2> QED
    BY <2>1, <2>2
<1>3. SettledIsStored'
  BY DEF ReadFile, SettledIsStored
<1> QED
  BY <1>1, <1>2, <1>3

\* However a run ends, its process is between runs afterwards.
LEMMA LeavePreserves ==
    ASSUME IngestionInvariant, NEW p \in Processes, Leave(p),
           library' \in [Paths -> Entries \cup {None}],
           report' \in [Processes -> Reports \cup {None, Mismatch}],
           settled' \in Bounds \cup {None}, SettledIsStored'
    PROVE  IngestionInvariant'
<1> USE DEF IngestionInvariant
<1>1. TypeOK'
  BY DEF TypeOK, Leave, NothingRead
<1>2. ASSUME NEW q \in Processes PROVE KnowsUntouched(q)' /\ StartsAfresh(q)'
  <2>1. CASE q = p
    BY <2>1 DEF TypeOK, Leave, KnowsUntouched, StartsAfresh
  <2>2. CASE q # p
    BY <2>2 DEF TypeOK, Leave, KnowsUntouched, StartsAfresh
  <2> QED
    BY <2>1, <2>2
<1> QED
  BY <1>1, <1>2

\* What a snapshot becomes in the library.
LEMMA ReplacementEffect ==
    ASSUME NEW p \in Processes, NEW snapshot \in [Paths -> Contents \cup {None}]
    PROVE  /\ Replacement(p, snapshot) \in [Paths -> Entries \cup {None}]
           /\ \A path \in Paths :
                 /\ snapshot[path] = None => Replacement(p, snapshot)[path] = None
                 /\ snapshot[path] # None =>
                       Replacement(p, snapshot)[path] =
                          [content |-> snapshot[path], bound |-> BoundOf[p]]
<1>1. ASSUME NEW path \in Paths, snapshot[path] # None
      PROVE  [content |-> snapshot[path], bound |-> BoundOf[p]] \in Entries
  BY <1>1 DEF Entries, Bounds
<1> QED
  BY <1>1 DEF Replacement

\* A commit is right about every path none of whose files was touched.
LEMMA CommitIsRight ==
    ASSUME IngestionInvariant, NEW p \in Processes,
           NEW snapshot \in [Paths -> Contents \cup {None}], Synchronize(p, snapshot),
           NEW path \in Paths,
           {f \in Files : PathOf[f] = path} \cap touched[p] = {}
    PROVE  LET present == {f \in Files : PathOf[f] = path /\ disk[f] # None}
           IN  IF present = {} THEN library'[path] = None
               ELSE \E f \in present :
                       library'[path] = [content |-> disk[f], bound |-> BoundOf[p]]
<1> DEFINE files == {f \in Files : PathOf[f] = path}
           present == {f \in Files : PathOf[f] = path /\ disk[f] # None}
           candidates == {f \in Read(p) : PathOf[f] = path}
<1>1. pc[p] = "reading" /\ listed[p] = {} /\ snapshot \in Snapshots(p)
      /\ library' = Replacement(p, snapshot)
  BY DEF Synchronize
<1>2. \A f \in files : got[p][f] = disk[f]
  BY <1>1 DEF IngestionInvariant, KnowsUntouched
<1>3. candidates = present
  BY <1>2 DEF Read
<1>4. IF candidates = {} THEN snapshot[path] = None
      ELSE \E f \in candidates : snapshot[path] = got[p][f]
  BY <1>1 DEF Snapshots
<1> HIDE DEF candidates
<1>5. CASE present = {}
  BY <1>1, <1>3, <1>4, <1>5, ReplacementEffect
<1>6. CASE present # {}
  <2>1. PICK f \in present : snapshot[path] = got[p][f]
    BY <1>3, <1>4, <1>6
  <2>2. snapshot[path] = disk[f] /\ disk[f] # None
    BY <1>2, <2>1
  <2>3. library'[path] = [content |-> disk[f], bound |-> BoundOf[p]]
    BY <1>1, <2>2, ReplacementEffect
  <2> QED
    BY <1>6, <2>3
<1> QED
  BY <1>5, <1>6

\* Results are counters that are numbers, or the failure.
LEMMA ResultTypes ==
    ASSUME NEW p \in Processes, NEW snapshot \in [Paths -> Contents \cup {None}],
           NEW discovered
    PROVE  Result(discovered, Counts(p, snapshot)) \in Reports \cup {Mismatch}
<1>1. ASSUME NEW S \in SUBSET Paths PROVE Cardinality(S) \in Nat
  BY IngestionAssumption, FS_Subset, FS_CardinalityType
<1>2. ASSUME NEW counter \in Counters PROVE Counts(p, snapshot)[counter] \in Nat
  <2> DEFINE gone == {path \in Paths : library[path] # None /\ snapshot[path] = None}
             counted == {path \in Paths : /\ snapshot[path] # None
                                          /\ Counter(p, snapshot, path) = counter}
  <2>1. Cardinality(gone) \in Nat /\ Cardinality(counted) \in Nat
    BY <1>1
  <2> QED
    BY <2>1 DEF Counts
<1>3. Counts(p, snapshot) \in Reports
  BY <1>2 DEF Counts, Reports
<1> QED
  BY <1>3 DEF Result

LEMMA SynchronizePreserves ==
    ASSUME IngestionInvariant, NEW p \in Processes,
           NEW snapshot \in [Paths -> Contents \cup {None}], Synchronize(p, snapshot)
    PROVE  IngestionInvariant'
<1>1. library' \in [Paths -> Entries \cup {None}]
  BY ReplacementEffect DEF Synchronize
<1>2. report' \in [Processes -> Reports \cup {None, Mismatch}]
  BY ResultTypes DEF Synchronize, IngestionInvariant, TypeOK
<1>3. settled' \in Bounds \cup {None}
  BY DEF Synchronize, Bounds
<1>4. SettledIsStored'
  <2> SUFFICES ASSUME settled' # None, NEW path \in Paths
               PROVE  LET present == {f \in Files : PathOf[f] = path /\ disk'[f] # None}
                      IN  IF present = {} THEN library'[path] = None
                          ELSE \E f \in present :
                                  library'[path] = [content |-> disk'[f], bound |-> settled']
    BY DEF SettledIsStored
  <2>1. touched[p] = {} /\ settled' = BoundOf[p] /\ disk' = disk
    BY DEF Synchronize, Leave
  <2> QED
    BY <2>1, CommitIsRight
<1> QED
  BY <1>1, <1>2, <1>3, <1>4, LeavePreserves DEF Synchronize

LEMMA NextPreserves == IngestionInvariant /\ [Next]_vars => IngestionInvariant'
<1> SUFFICES ASSUME IngestionInvariant, [Next]_vars PROVE IngestionInvariant'
  OBVIOUS
<1>1. ASSUME NEW p \in Processes, NEW f \in Files, ReadFails(p, f)
      PROVE  IngestionInvariant'
  BY <1>1, LeavePreserves DEF ReadFails, Leave, IngestionInvariant, TypeOK, SettledIsStored
<1>3. ASSUME NEW p \in Processes, Abort(p)
      PROVE  IngestionInvariant'
  BY <1>3, LeavePreserves DEF Abort, Leave, IngestionInvariant, TypeOK, SettledIsStored
<1>4. CASE UNCHANGED vars
  BY <1>4 DEF vars, IngestionInvariant, TypeOK, KnowsUntouched, StartsAfresh, SettledIsStored
<1> QED
  BY <1>1, <1>3, <1>4, EditPreserves, ListPreserves, ReadFilePreserves, SynchronizePreserves
     DEF Next, IngestStep

----------------------------------------------------------------------------
(* The theorems.                                                           *)

\* Every reachable state of any number of processes ingesting a source that
\* others edit satisfies the invariant.
THEOREM IngestionInvariance == Spec => []IngestionInvariant
BY InitEstablishes, NextPreserves, PTL DEF Spec

\* Runs in progress and the library are always what their types say.
THEOREM IngestionTypeCorrect == Spec => []TypeOK
<1>1. IngestionInvariant => TypeOK
  BY DEF IngestionInvariant
<1> QED
  BY IngestionInvariance, <1>1, PTL

\* A commit is right about every path none of whose files was touched since
\* the run listed the source, whatever happened to the other files.
THEOREM CommitsRight == Spec => CommitsReflectUntouchedFiles
<1> DEFINE right(p, path) ==
             LET files == {f \in Files : PathOf[f] = path}
                 present == {f \in files : disk[f] # None}
             IN  files \cap touched[p] = {} =>
                     IF present = {} THEN library'[path] = None
                     ELSE \E f \in present :
                             library'[path] = [content |-> disk[f], bound |-> BoundOf[p]]
<1>1. ASSUME IngestionInvariant, NEW p \in Processes,
             NEW snapshot \in [Paths -> Contents \cup {None}], Synchronize(p, snapshot),
             NEW path \in Paths
      PROVE  right(p, path)
  <2> DEFINE files == {f \in Files : PathOf[f] = path}
  <2>1. {f \in files : disk[f] # None} = {f \in Files : PathOf[f] = path /\ disk[f] # None}
    OBVIOUS
  <2> QED
    BY <1>1, <2>1, CommitIsRight
<1>2. IngestionInvariant /\ [Next]_vars =>
        [\A p \in Processes, snapshot \in [Paths -> Contents \cup {None}] :
            Synchronize(p, snapshot) => \A path \in Paths : right(p, path)]_vars
  BY <1>1
<1> QED
  BY <1>2, IngestionInvariance, PTL DEF Spec, CommitsReflectUntouchedFiles

\* Names that stay apart when they are normalized.
OneFilePerPath == \A f, g \in Files : PathOf[f] = PathOf[g] => f = g

\* Then every document read is one incoming document.
LEMMA IncomingAreRead ==
    ASSUME OneFilePerPath, IngestionInvariant, NEW p \in Processes,
           NEW snapshot \in Snapshots(p)
    PROVE  Cardinality({path \in Paths : snapshot[path] # None}) = Cardinality(Read(p))
<1> DEFINE S == Read(p)
           T == {path \in Paths : snapshot[path] # None}
           candidates(t) == {f \in Read(p) : PathOf[f] = t}
           path == [f \in S |-> PathOf[f]]
<1>1. T = {t \in Paths : candidates(t) # {}}
  BY DEF Snapshots, Read
<1>2. path \in Bijection(S, T)
  <2>1. path \in [S -> T]
    BY <1>1, IngestionAssumption DEF Read
  <2>2. path \in Injection(S, T)
    BY <2>1 DEF OneFilePerPath, Injection, IsInjective, Read
  <2>3. path \in Surjection(S, T)
    BY <1>1, <2>1 DEF Surjection
  <2> QED
    BY <2>2, <2>3 DEF Bijection
<1>3. IsFiniteSet(S)
  BY IngestionAssumption, FS_Subset DEF Read
<1> HIDE DEF S, T, path
<1>4. Cardinality(T) = Cardinality(S)
  BY <1>2, <1>3, FS_Bijection DEF ExistsBijection
<1> QED
  BY <1>4 DEF S, T

\* A run over files nobody touched since the last commit, or during it, finds
\* each document it hands over stored with its text, and no other.
LEMMA UntouchedIsStored ==
    ASSUME OneFilePerPath, IngestionInvariant, NEW p \in Processes,
           NEW snapshot \in Snapshots(p), pc[p] = "reading", listed[p] = {},
           touched[p] = {}, settled # None, NEW path \in Paths
    PROVE  library[path] = IF snapshot[path] = None THEN None
                           ELSE [content |-> snapshot[path], bound |-> settled]
<1> DEFINE present == {f \in Files : PathOf[f] = path /\ disk[f] # None}
           candidates == {f \in Read(p) : PathOf[f] = path}
<1>1. \A f \in Files : got[p][f] = disk[f]
  BY DEF IngestionInvariant, KnowsUntouched
<1>2. candidates = present
  BY <1>1 DEF Read
<1>3. IF present = {} THEN library[path] = None
      ELSE \E f \in present : library[path] = [content |-> disk[f], bound |-> settled]
  BY DEF IngestionInvariant, SettledIsStored
<1>4. IF candidates = {} THEN snapshot[path] = None
      ELSE \E f \in candidates : snapshot[path] = got[p][f]
  BY DEF Snapshots
<1> HIDE DEF candidates
<1>5. CASE present = {}
  BY <1>2, <1>3, <1>4, <1>5
<1>6. CASE present # {}
  <2>1. PICK f \in present : library[path] = [content |-> disk[f], bound |-> settled]
    BY <1>3, <1>6
  <2>2. PICK g \in present : snapshot[path] = got[p][g]
    BY <1>2, <1>4, <1>6
  <2>3. f = g
    BY <2>1, <2>2 DEF OneFilePerPath
  <2> QED
    BY <1>1, <2>1, <2>2, <2>3
<1> QED
  BY <1>5, <1>6

\* Where normalized names stay apart, ingesting what nobody touched since it
\* was last ingested reports every document unchanged, or reprocessed under
\* another bound, and never one created, updated or deleted.
THEOREM UntouchedRunsQuiet ==
    ASSUME OneFilePerPath
    PROVE  Spec => UntouchedRunsChangeNothing
<1> DEFINE quiet(p) ==
             LET counter == IF settled = BoundOf[p] THEN "unchanged" ELSE "reprocessed"
             IN  /\ report'[p] = [c \in Counters |->
                                     IF c = counter THEN Cardinality(Read(p)) ELSE 0]
                 /\ settled = BoundOf[p] => library' = library
<1>1. ASSUME IngestionInvariant, NEW p \in Processes,
             NEW snapshot \in [Paths -> Contents \cup {None}], Synchronize(p, snapshot),
             touched[p] = {}, settled # None
      PROVE  quiet(p)
  <2> DEFINE counter == IF settled = BoundOf[p] THEN "unchanged" ELSE "reprocessed"
             incoming == {path \in Paths : snapshot[path] # None}
             n == Cardinality(Read(p))
             counts == [c \in Counters |-> IF c = counter THEN n ELSE 0]
  <2>1. snapshot \in Snapshots(p)
    BY <1>1 DEF Synchronize
  <2>2. \A path \in Paths :
           library[path] = IF snapshot[path] = None THEN None
                           ELSE [content |-> snapshot[path], bound |-> settled]
    BY <1>1, <2>1, UntouchedIsStored DEF Synchronize
  <2>3. \A path \in incoming :
           library[path] # None /\ Counter(p, snapshot, path) = counter
    <3>1. ASSUME NEW path \in incoming
          PROVE  /\ library[path] # None
                 /\ library[path].content = snapshot[path]
                 /\ library[path].bound = settled
      <4>1. library[path] = [content |-> snapshot[path], bound |-> settled]
        BY <2>2
      <4>2. [content |-> snapshot[path], bound |-> settled] \in Entries
        BY <1>1 DEF Entries, IngestionInvariant, TypeOK
      <4> QED
        BY <4>1, <4>2, EntriesAssumption
    <3> QED
      BY <3>1 DEF Counter
  <2>4. ASSUME NEW c \in Counters
        PROVE  Counts(p, snapshot)[c] = counts[c]
    <3>1. CASE c = "deleted"
      <4>1. {path \in Paths : library[path] # None /\ snapshot[path] = None} = {}
        BY <2>2
      <4> QED
        BY <3>1, <4>1, FS_EmptySet DEF Counts
    <3>2. CASE c # "deleted" /\ c = counter
      <4>1. {path \in Paths : snapshot[path] # None /\ Counter(p, snapshot, path) = c} = incoming
        BY <2>3, <3>2
      <4>2. Cardinality(incoming) = n
        BY <1>1, <2>1, IncomingAreRead
      <4> QED
        BY <3>2, <4>1, <4>2 DEF Counts
    <3>3. CASE c # "deleted" /\ c # counter
      <4>1. {path \in Paths : snapshot[path] # None /\ Counter(p, snapshot, path) = c} = {}
        BY <2>3, <3>3
      <4> QED
        BY <3>3, <4>1, FS_EmptySet DEF Counts
    <3> QED
      BY <3>1, <3>2, <3>3
  <2>5. Counts(p, snapshot) = counts
    BY <2>4 DEF Counts
  <2>6. n \in Nat
    BY IngestionAssumption, FS_Subset, FS_CardinalityType DEF Read
  <2>7. Result(n, counts) = counts
    BY <2>6 DEF Result, Counters
  <2>8. report'[p] = counts
    BY <1>1, <2>5, <2>7 DEF Synchronize, IngestionInvariant, TypeOK
  <2>9. ASSUME settled = BoundOf[p] PROVE library' = library
    <3>1. library' = Replacement(p, snapshot)
      BY <1>1 DEF Synchronize
    <3>2. \A path \in Paths : Replacement(p, snapshot)[path] = library[path]
      BY <2>2, <2>9, ReplacementEffect
    <3> QED
      BY <1>1, <3>1, <3>2 DEF Replacement, IngestionInvariant, TypeOK
  <2> QED
    BY <2>8, <2>9
<1>2. IngestionInvariant /\ [Next]_vars =>
        [\A p \in Processes, snapshot \in [Paths -> Contents \cup {None}] :
            Synchronize(p, snapshot) /\ touched[p] = {} /\ settled # None => quiet(p)]_vars
  BY <1>1
<1> QED
  BY <1>2, IngestionInvariance, PTL DEF Spec, UntouchedRunsChangeNothing
=============================================================================
