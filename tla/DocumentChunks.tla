--------------------------- MODULE DocumentChunks ---------------------------
(***************************************************************************)
(* chunk_markdown, chunk_plain_text and _build_chunks: a document's text   *)
(* is split into sections (MarkdownSections), every section is numbered    *)
(* under its identity and cut (Chunker), and the pieces become chunks with *)
(* identities and ordinals of their own.                                   *)
(*                                                                         *)
(* A chunk is known by what its id is derived from.                        *)
(***************************************************************************)
EXTENDS MarkdownSections

CONSTANT Bounds  \* values of max_chunk_chars

VARIABLES
    format,    \* what determine_format makes of the path
    bound,     \* max_chunk_chars
    text, atoms, nextAtom, filling, pieces, done,
               \* of Chunker, for the section numbered last; text is lines there
    chunks     \* the chunks built so far

splitVars == <<text, atoms, nextAtom, filling, pieces, done>>
documentVars == <<vars, format, bound, splitVars, chunks>>

\* The characters of a line, line ending included: "## A", "```".
LengthOf(line) ==
    CASE line.kind = "heading" -> line.level + 2 * Len(line.title) + 1
      [] line.kind = "fence"   -> line.mark.length + (IF line.mark.bare THEN 1 ELSE 2)
                                  + (IF line.mark.opens THEN 0 ELSE 1)
      [] OTHER                 -> line.length

LineSizes ==
    [i \in DOMAIN lines |->
        [length |-> LengthOf(lines[i]),
         blank  |-> lines[i].kind = "text" /\ lines[i].blank]]

\* The section being split, from the first one on.
Section == sections[Len(numbered)]

Splitter ==
    INSTANCE Chunker WITH lines <- text, next <- nextAtom, current <- filling,
                          chunks <- pieces, Lengths <- {LengthOf(line) : line \in Lines}

ASSUME SplitterAssumption == Splitter!ChunkerAssumption

DocumentInit ==
    /\ Init
    /\ format \in {"markdown", "plain_text"}
    /\ bound \in Bounds
    /\ text = <<>> /\ atoms = <<>> /\ nextAtom = 1 /\ filling = <<>> /\ pieces = <<>> /\ done = TRUE
    /\ chunks = <<>>

----------------------------------------------------------------------------

splitUnchanged == UNCHANGED <<format, bound, splitVars, chunks>>

\* chunk_markdown: split_into_sections.
ScanMarkdown ==
    /\ format = "markdown"
    /\ ScanStep
    /\ splitUnchanged

\* The whole text under the root section, unless it is empty.
Root ==
    IF lines = <<>> THEN <<>> ELSE <<[path |-> <<>>, first |-> 1, last |-> Len(lines)]>>

\* chunk_plain_text.
TakeWhole ==
    /\ format = "plain_text" /\ next = 1
    /\ sections' = Root
    /\ next' = Len(lines) + 2
    /\ UNCHANGED <<lines, fence, stack, current, counts, numbered>>
    /\ splitUnchanged

\* The next section gets its occurrence, and _split_section its text.
BeginSection ==
    /\ done
    /\ NumberSection
    /\ LET new == sections[Len(numbered) + 1]
       IN  /\ text' = SubSeq(LineSizes, new.first, new.last)
           /\ atoms' = Splitter!AtomsForUnits(SubSeq(LineSizes, new.first, new.last))
    /\ nextAtom' = 1 /\ filling' = <<>> /\ pieces' = <<>> /\ done' = FALSE
    /\ UNCHANGED <<format, bound, chunks>>

PackAtom ==
    /\ ~done
    /\ Splitter!Pack \/ Splitter!Flush
    /\ UNCHANGED <<vars, format, chunks>>

\* Chunk.create for the i-th piece of the section.
Chunk(i) ==
    [key |-> IdentityString(Section.path), occurrence |-> Last(numbered),
     ordinalInSection |-> i - 1, ordinal |-> Len(chunks) + i - 1,
     section |-> Len(numbered), piece |-> pieces'[i]]

FinishSection ==
    /\ ~done
    /\ UNCHANGED <<vars, format>>
    /\ Splitter!Finish
    /\ chunks' = chunks \o [i \in DOMAIN pieces' |-> Chunk(i)]

DocumentNext ==
    \/ ScanMarkdown \/ TakeWhole
    \/ BeginSection \/ PackAtom \/ FinishSection

DocumentSpec == DocumentInit /\ [][DocumentNext]_documentVars

----------------------------------------------------------------------------

\* Everything has been chunked.
Built == Scanned /\ done /\ Len(numbered) = Len(sections)

DocumentTypeOK ==
    /\ TypeOK
    /\ Splitter!TypeOK
    /\ format \in {"markdown", "plain_text"}
    /\ \A i \in DOMAIN chunks :
          /\ chunks[i].occurrence \in Nat /\ chunks[i].ordinalInSection \in Nat
          /\ chunks[i].section \in DOMAIN sections

\* Characters before line n.
Before(n) == FoldLeft(LAMBDA sum, l : sum + l.length, 0, SubSeq(LineSizes, 1, n - 1))

\* A chunk as an interval of the document's characters.
Place(chunk) ==
    LET offset == Before(sections[chunk.section].first)
    IN  <<offset + chunk.piece[1], offset + chunk.piece[2]>>

\* "Concatenating a section's chunks in order reproduces that section's text
\* exactly, no source content is ever dropped or rewritten" (chunker), and
\* the sections' texts that of the document: the chunks by ordinal partition
\* the normalized text, and none is empty or over the bound.
ChunksPartitionDocument ==
    Built =>
        /\ \A i \in DOMAIN chunks :
              /\ chunks[i].ordinal = i - 1
              /\ Splitter!Size(chunks[i].piece) \in 1..bound
              /\ Place(chunks[i])[1] = IF i = 1 THEN 1 ELSE Place(chunks[i - 1])[2] + 1
        /\ IF lines = <<>> THEN chunks = <<>>
           ELSE chunks # <<>> /\ Place(Last(chunks))[2] = Before(Len(lines) + 1)

\* No two chunks of a document have one identity, also when headings contain
\* the separator their paths are joined with, and sections of another
\* identity do not shift a section's occurrence.
IdentitiesAreUnique ==
    Built =>
        /\ \A i, j \in DOMAIN chunks :
              /\ chunks[i].key = chunks[j].key
              /\ chunks[i].occurrence = chunks[j].occurrence
              /\ chunks[i].ordinalInSection = chunks[j].ordinalInSection
              => i = j
        /\ \A i \in DOMAIN sections :
              numbered[i] = Cardinality({j \in 1..(i - 1) :
                  IdentityString(sections[j].path) = IdentityString(sections[i].path)})

\* In every section: a paragraph that fits in a chunk with the blank lines
\* after it is never cut, and a line that fits in a chunk is never cut.
NaturalPiecesStayWhole == Splitter!NaturalPiecesStayWhole

\* No two neighbouring chunks of a section could have been one.
ChunksAreGreedy == Splitter!ChunksAreGreedy

\* A Markdown section's path is the chain of headings enclosing it, also
\* when levels are skipped or a document starts below level one.
PathsFollowHeadings == format = "markdown" => PathsAreEnclosingHeadings

\* A heading line of a Markdown text opens a section unless it is inside a
\* fenced block: neither a fence line inside a block nor a block that is
\* never closed confuses the scanner.
FencesAloneHideHeadings == format = "markdown" => OnlyFencesHideHeadings
=============================================================================
