------------------------------- MODULE Corpus -------------------------------
(***************************************************************************)
(* The vocabulary every other module shares: documents, chunks, processed  *)
(* texts and embedding configurations.                                     *)
(*                                                                         *)
(* Hashes are modelled by what they identify.  A document id is derived    *)
(* from (source id, relative path), a chunk id from (document id, section  *)
(* path, section occurrence, ordinal in section), so both are tuples of    *)
(* the things hashed; two contents have one content_hash exactly when they *)
(* are one content.  The document format is fixed by the path, so for one  *)
(* document the processing fingerprint varies with max_chunk_chars only.   *)
(***************************************************************************)
EXTENDS Naturals

CONSTANTS
    Sources,     \* configured source ids
    Paths,       \* normalized relative paths
    Contents,    \* normalized texts of a whole document
    Bounds,      \* values of max_chunk_chars, the processing configuration
    Positions,   \* places a chunk can have inside a document
    Texts,       \* texts of a single chunk
    Split,       \* what chunking makes of a content under a bound
    Models,      \* embedding models
    Dimensions,  \* embedding dimensions
    None         \* absence of a row, a value or a configuration

ASSUME SplitAssumption ==
    Split \in [Contents \X Bounds -> [Positions -> Texts \cup {None}]]

ASSUME NoneAssumption ==
    /\ None \notin Contents
    /\ None \notin Texts

\* derive_document_id: identity never depends on content.
Documents == Sources \X Paths

\* derive_chunk_id: a chunk keeps its id when its text changes.
Chunks == Documents \X Positions

DocumentOf(k) == k[1]
PositionOf(k) == k[2]

\* An embedding provider, reduced to the fields its fingerprint is made of.
Providers == [model : Models, dimension : Dimensions]

\* derive_embedding_fingerprint: the model and the dimension, hashed together.
Fingerprints == Models \X Dimensions
EmbeddingFingerprint(p) == <<p.model, p.dimension>>

\* process_raw_document: the texts of a document's chunks, by position.
ChunkTexts(content, bound) == Split[<<content, bound>>]

\* A vector is known by the space it lives in and the text it embeds.
Embedding(fingerprint, text) == [fingerprint |-> fingerprint, text |-> text]
Vectors == [fingerprint : Fingerprints, text : Texts]
=============================================================================
