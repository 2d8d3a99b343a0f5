--------------------------- MODULE KnowledgeBase ----------------------------
(***************************************************************************)
(* What the persistent knowledge base promises, without saying how: a      *)
(* source is replaced by a complete snapshot in one step, and what lexical *)
(* and vector search can find is always the chunking and the embedding of  *)
(* the documents stored at that moment.                                    *)
(***************************************************************************)
EXTENDS Corpus

VARIABLES
    library,   \* stored documents: what they contain and how they were chunked
    lexical,   \* the text lexical search finds under each chunk id
    semantic,  \* the vector held under each chunk id
    active     \* fingerprint of the vector index that can be searched, or None

vars == <<library, lexical, semantic, active>>

Entries == [content : Contents, bound : Bounds]

\* The chunk texts a library stands for.
LexicalView(lib) ==
    [k \in Chunks |->
        IF lib[DocumentOf(k)] = None THEN None
        ELSE ChunkTexts(lib[DocumentOf(k)].content, lib[DocumentOf(k)].bound)[PositionOf(k)]]

\* The vectors those chunks have under a fingerprint.
SemanticView(texts, fingerprint) ==
    [k \in Chunks |->
        IF fingerprint = None \/ texts[k] = None THEN None
        ELSE Embedding(fingerprint, texts[k])]

TypeOK ==
    /\ library \in [Documents -> Entries \cup {None}]
    /\ lexical \in [Chunks -> Texts \cup {None}]
    /\ semantic \in [Chunks -> Vectors \cup {None}]
    /\ active \in Fingerprints \cup {None}

Init ==
    /\ library = [d \in Documents |-> None]
    /\ active \in Fingerprints \cup {None}
    /\ lexical = LexicalView(library)
    /\ semantic = SemanticView(lexical, active)

\* The library after source s has been replaced by a snapshot.
Replaced(s, snapshot, bound) ==
    [d \in Documents |->
        IF d[1] # s THEN library[d]
        ELSE IF snapshot[d[2]] = None THEN None
        ELSE [content |-> snapshot[d[2]], bound |-> bound]]

Replace(s, snapshot, bound) ==
    /\ library' = Replaced(s, snapshot, bound)
    /\ lexical' = LexicalView(library')
    /\ semantic' = SemanticView(lexical', active)
    /\ UNCHANGED active

\* Make a fingerprint the active one, with every chunk embedded under it.
Activate(fingerprint) ==
    /\ active' = fingerprint
    /\ semantic' = SemanticView(lexical, fingerprint)
    /\ UNCHANGED <<library, lexical>>

\* The index is out of service, while one of another dimension is made.
Deactivate ==
    /\ active' = None
    /\ semantic' = SemanticView(lexical, None)
    /\ UNCHANGED <<library, lexical>>

Next ==
    \/ \E s \in Sources, snapshot \in [Paths -> Contents \cup {None}], bound \in Bounds :
          Replace(s, snapshot, bound)
    \/ \E fingerprint \in Fingerprints : Activate(fingerprint)
    \/ Deactivate

Spec == Init /\ [][Next]_vars
=============================================================================
