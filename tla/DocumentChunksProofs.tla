------------------------ MODULE DocumentChunksProofs ------------------------
(***************************************************************************)
(* Proofs about DocumentChunks, for texts of any length, any heading,      *)
(* fence and text lines, and every bound: fenced blocks, and nothing else, *)
(* hide headings; no two chunks of a document have one identity; the       *)
(* chunks partition the text, cut greedily and at paragraphs and lines     *)
(* that fit; paths are the titles of the enclosing headings.               *)
(*                                                                         *)
(* There are three inductive invariants, each relying on those before it:  *)
(* ChunkingInvariant of the blocks and the numbering, Cutting of the       *)
(* texts and their pieces, Pathing of the heading stack.                   *)
(***************************************************************************)
EXTENDS ChunkerProofs, FiniteSetTheorems

----------------------------------------------------------------------------
(* The invariant of blocks and numbers.                                    *)

\* What the scanner and the counter move along.
Cursors ==
    /\ IsSequence(lines) /\ next \in 1..(Len(lines) + 2)
    /\ IsSequence(sections) /\ IsSequence(numbered)
    /\ IsSequence(pieces) /\ IsSequence(chunks)
    /\ current \in Nat /\ current < next
    /\ \A n \in DOMAIN lines : lines[n].kind = "fence" => lines[n].mark # None
    /\ format \in {"markdown", "plain_text"}

FenceLinesBefore(n) == {m \in DOMAIN lines : m < n /\ Opens(lines[m])}
HeadingsBefore(n) == {m \in DOMAIN lines : m < n /\ IsHeading(lines[m])}

\* The headings that have opened a section, finished or not.
Opened == Openers \cup {n \in DOMAIN lines : n = current /\ IsHeading(lines[n])}

\* The block that starts at o is over before line n, or line n is in it.
Closed(o, n) == \A m \in Block(o) : m < n
StillOpen(o, n) ==
    fence = lines[o].mark /\ \A e \in (o + 1)..(n - 1) : ~Closes(lines[e], lines[o].mark)

\* The fenced blocks of the lines scanned: disjoint, all closed but the one
\* whose fence is open, and all that hides headings.
BlocksScanned(starts) ==
    /\ \A o, p \in starts : o # p => Block(o) \cap Block(p) = {}
    /\ FenceLinesBefore(next) \subseteq UNION {Block(o) : o \in starts}
    /\ Opened = HeadingsBefore(next) \ UNION {Block(o) : o \in starts}
    /\ fence = None => \A o \in starts : Closed(o, next)
    /\ fence # None /\ ~Scanned =>
          \E o \in starts : StillOpen(o, next) /\ \A p \in starts \ {o} : Closed(p, next)

\* Of a Markdown text: the blocks, and that an open fence is in a section.
Scan ==
    format = "markdown" =>
        /\ \E starts \in SUBSET FenceLinesBefore(next) : BlocksScanned(starts)
        /\ fence # None /\ ~Scanned => current # 0
        /\ Scanned => current = 0

KeyOf(i) == IdentityString(sections[i].path)

\* The sections before the n-th that share a key.
Earlier(key, n) == {j \in 1..(n - 1) : KeyOf(j) = key}

\* Sections are numbered by how many of their key came before, and the
\* counts say how many have come.
Numbering ==
    /\ ~Scanned => numbered = <<>>
    /\ Len(numbered) <= Len(sections)
    /\ numbered = <<>> => counts = <<>>
    /\ \A i \in DOMAIN sections :
          Occurrence(KeyOf(i)) = Cardinality(Earlier(KeyOf(i), Len(numbered) + 1))
    /\ \A i \in DOMAIN numbered : numbered[i] = Cardinality(Earlier(KeyOf(i), i))

\* Every chunk carries the identity of its section, and a place in it.
Identities ==
    /\ \A i \in DOMAIN chunks :
          /\ chunks[i].section \in DOMAIN numbered
          /\ chunks[i].key = KeyOf(chunks[i].section)
          /\ chunks[i].occurrence = numbered[chunks[i].section]
          /\ chunks[i].ordinal = i - 1
    /\ \A i, j \in DOMAIN chunks :
          /\ chunks[i].section = chunks[j].section
          /\ chunks[i].ordinalInSection = chunks[j].ordinalInSection
          => i = j
    /\ ~done =>
          /\ numbered # <<>>
          /\ \A i \in DOMAIN chunks : chunks[i].section # Len(numbered)

ChunkingInvariant == Cursors /\ Scan /\ Numbering /\ Identities

----------------------------------------------------------------------------
(* Blocks and headings.                                                    *)

\* Where a fenced block ends: at the first line that closes it, if any.
LEMMA BlockBounds ==
    ASSUME IsSequence(lines), NEW o \in DOMAIN lines
    PROVE  /\ Block(o) \subseteq o..Len(lines)
           /\ \A n \in o..Len(lines) :
                 (\A e \in (o + 1)..(n - 1) : ~Closes(lines[e], lines[o].mark)) => n \in Block(o)
           /\ \A e \in DOMAIN lines :
                 o < e /\ Closes(lines[e], lines[o].mark) => \A m \in Block(o) : m <= e
<1>1. Len(lines) \in Nat /\ DOMAIN lines = 1..Len(lines)
  BY SequenceShape
<1>2. Block(o) \subseteq o..Len(lines)
  BY DEF Block
<1>3. ASSUME NEW e \in DOMAIN lines, o < e, Closes(lines[e], lines[o].mark), NEW m \in Block(o)
      PROVE  m <= e
  <2> SUFFICES ASSUME e < m PROVE FALSE
    BY <1>1, <1>2
  <2>1. e \in (o + 1)..(m - 1)
    BY <1>1, <1>2, <1>3
  <2> QED
    BY <1>3, <2>1 DEF Block
<1> QED
  BY <1>2, <1>3 DEF Block

\* A flushed section has been opened by its first line, if that is a heading.
LEMMA FlushOpens ==
    ASSUME Cursors, lines' = lines, sections' = Flushed
    PROVE  Openers' = Opened /\ IsSequence(sections')
<1>1. DOMAIN lines' = DOMAIN lines /\ \A n : IsHeading(lines'[n]) <=> IsHeading(lines[n])
  OBVIOUS
<1>2. CASE current = 0
  <2>1. 0 \notin DOMAIN lines
    BY SequenceShape DEF Cursors
  <2> QED
    BY <1>2, <2>1 DEF Flushed, Opened, Openers, Cursors
<1>3. CASE current # 0
  <2> DEFINE new == [path |-> Path, first |-> current, last |-> next - 1]
  <2>1. sections' = Append(sections, new) /\ new.first = current
    BY <1>3 DEF Flushed
  <2> HIDE DEF new
  <2>2. /\ IsSequence(sections') /\ Len(sections') = Len(sections) + 1
        /\ \A i \in 1..Len(sections) : sections'[i] = sections[i]
        /\ sections'[Len(sections) + 1] = new
    BY <2>1, Appended DEF Cursors
  <2>3. /\ Len(sections) \in Nat /\ DOMAIN sections = 1..Len(sections)
        /\ DOMAIN sections' = 1..(Len(sections) + 1)
    BY <2>2, SequenceShape DEF Cursors
  <2>4. {sections'[i].first : i \in DOMAIN sections'}
          = {sections[i].first : i \in DOMAIN sections} \cup {current}
    <3>1. DOMAIN sections' = DOMAIN sections \cup {Len(sections) + 1}
      BY <2>3
    <3>2. \A i \in DOMAIN sections : sections'[i] = sections[i]
      BY <2>2, <2>3
    <3> QED
      BY <2>1, <2>2, <3>1, <3>2
  <2> QED
    BY <2>2, <2>4 DEF Opened, Openers
<1> QED
  BY <1>2, <1>3

\* Scanning a line that is a heading or a fence adds it to those before.
LEMMA OneMoreLine ==
    ASSUME Cursors, Scanning, lines' = lines, next' = next + 1
    PROVE  /\ next \in DOMAIN lines /\ Line = lines[next]
           /\ FenceLinesBefore(next)' =
                 FenceLinesBefore(next) \cup {n \in {next} : Opens(Line)}
           /\ HeadingsBefore(next)' =
                 HeadingsBefore(next) \cup {n \in {next} : IsHeading(Line)}
           /\ ~Scanned
<1>1. Len(lines) \in Nat /\ DOMAIN lines = 1..Len(lines)
  BY SequenceShape DEF Cursors
<1>2. next \in Nat \ {0} /\ next \in DOMAIN lines /\ ~Scanned
  BY <1>1 DEF Cursors, Scanning, Scanned
<1>3. \A m \in DOMAIN lines : m < next + 1 <=> m < next \/ m = next
  BY <1>1, <1>2
<1> QED
  BY <1>2, <1>3 DEF FenceLinesBefore, HeadingsBefore, Line

----------------------------------------------------------------------------
(* Initial states and the steps of the scanner.                            *)

\* Until the text is scanned nothing is numbered, and no chunk is built.
LEMMA NothingNumbered ==
    ASSUME IsSequence(sections)', IsSequence(chunks)', numbered' = <<>>, counts' = <<>>,
           chunks' = <<>>, done'
    PROVE  Numbering' /\ Identities'
<1>1. DOMAIN numbered' = {} /\ Len(numbered') = 0 /\ DOMAIN counts' = {}
  BY EmptyIsSequence
<1>2. Len(sections') \in Nat
  BY SequenceShape
<1>3. ASSUME NEW key PROVE Occurrence(key)' = Cardinality(Earlier(key, Len(numbered) + 1)')
  <2>1. Earlier(key, Len(numbered) + 1)' = {}
    BY <1>1 DEF Earlier
  <2>2. Occurrence(key)' = 0
    BY <1>1 DEF Occurrence
  <2> QED
    BY <2>1, <2>2, FS_EmptySet
<1>4. Numbering'
  BY <1>1, <1>2, <1>3 DEF Numbering
<1>5. Identities'
  BY DEF Identities
<1> QED
  BY <1>4, <1>5

\* Sections are numbered and chunks made after the scan.
LEMMA ScanningNumbersNothing ==
    ASSUME ChunkingInvariant, ~Scanned, UNCHANGED <<numbered, counts, splitVars, chunks>>,
           IsSequence(sections)'
    PROVE  Numbering' /\ Identities'
<1>1. numbered = <<>> /\ counts = <<>>
  BY DEF ChunkingInvariant, Numbering
<1>2. done
  BY <1>1 DEF ChunkingInvariant, Identities
<1>3. IsSequence(chunks) /\ DOMAIN chunks = {}
  <2>1. DOMAIN numbered = {}
    BY <1>1
  <2> QED
    BY <2>1 DEF ChunkingInvariant, Identities, Cursors
<1>4. chunks = <<>>
  BY <1>3, SequenceShape DEF IsSequence
<1> QED
  BY <1>1, <1>2, <1>3, <1>4, NothingNumbered DEF splitVars

\* What the scanner's steps have in common.
LEMMA ScanStepMoves ==
    ASSUME ChunkingInvariant, ScanMarkdown
    PROVE  /\ format = "markdown" /\ format' = format /\ lines' = lines /\ next' = next + 1
           /\ ~Scanned
           /\ UNCHANGED <<numbered, counts, splitVars, chunks>>
           /\ \/ Scanning /\ ~Scanned'
              \/ next = Len(lines) + 1 /\ Scanned'
<1>1. Len(lines) \in Nat /\ next \in Nat
  BY SequenceShape DEF ChunkingInvariant, Cursors
<1> QED
  BY <1>1 DEF ScanMarkdown, splitUnchanged, ScanStep, ScanFenced, OpenFence, StartSection,
     ScanText, FinishScan, Scanning, Scanned

\* A step of the scan moves the cursors and numbers nothing.
LEMMA ScanMarkdownMoves ==
    ASSUME ChunkingInvariant, ScanMarkdown
    PROVE  Cursors' /\ Numbering' /\ Identities'
<1>1. IsSequence(lines) /\ next \in 1..(Len(lines) + 2) /\ current \in Nat /\ current < next
  BY DEF ChunkingInvariant, Cursors
<1>2. Len(lines) \in Nat
  BY <1>1, SequenceShape
<1>3. IsSequence(sections')
  <2>1. ScanFenced \/ OpenFence \/ ScanText => sections' = sections
    BY DEF ScanFenced, OpenFence, ScanText
  <2>2. StartSection \/ FinishScan => sections' = Flushed
    BY DEF StartSection, FinishScan
  <2> QED
    BY <2>1, <2>2, ScanStepMoves, FlushOpens DEF ScanMarkdown, ScanStep, ChunkingInvariant, Cursors
<1>4. next' \in 1..(Len(lines) + 2)
  BY <1>1, <1>2, ScanStepMoves DEF Scanning
<1>5. current' \in Nat /\ current' < next'
  BY <1>1, <1>2, ScanStepMoves DEF ScanMarkdown, ScanStep, ScanFenced, OpenFence,
     StartSection, ScanText, FinishScan, Collect
<1>6. Cursors'
  BY <1>3, <1>4, <1>5, ScanStepMoves DEF ChunkingInvariant, Cursors, splitVars
<1> QED
  BY <1>3, <1>6, ScanStepMoves, ScanningNumbersNothing

\* Inside a fenced block no heading opens a section, and only its own kind
\* of fence ends it.
LEMMA ScanFencedKeeps ==
    ASSUME ChunkingInvariant, ScanMarkdown, ScanFenced
    PROVE  Scan'
<1>1. /\ lines' = lines /\ next' = next + 1 /\ sections' = sections /\ Scanning
      /\ fence # None /\ fence' = FenceAfter /\ format = "markdown" /\ Cursors
  BY ScanStepMoves DEF ScanFenced, ChunkingInvariant
<1>2. /\ next \in DOMAIN lines /\ Line = lines[next] /\ ~Scanned
      /\ FenceLinesBefore(next) \subseteq FenceLinesBefore(next)'
      /\ FenceLinesBefore(next)' \subseteq FenceLinesBefore(next) \cup {next}
      /\ HeadingsBefore(next) \subseteq HeadingsBefore(next)'
      /\ HeadingsBefore(next)' \subseteq HeadingsBefore(next) \cup {next}
  BY <1>1, OneMoreLine
<1>3. PICK starts \in SUBSET FenceLinesBefore(next) : BlocksScanned(starts)
  BY <1>1 DEF ChunkingInvariant, Scan
<1>4. current' = current /\ current # 0
  BY <1>1, <1>2 DEF ChunkingInvariant, Scan, ScanFenced, Collect
<1>5. PICK o \in starts : StillOpen(o, next) /\ \A p \in starts \ {o} : Closed(p, next)
  BY <1>1, <1>2, <1>3 DEF BlocksScanned
<1>6. /\ Len(lines) \in Nat /\ DOMAIN lines = 1..Len(lines) /\ next \in Nat
      /\ \A p \in starts : p \in DOMAIN lines /\ p < next
  BY <1>1, SequenceShape DEF Cursors, FenceLinesBefore
<1>7. next \in Block(o)
  BY <1>1, <1>2, <1>5, <1>6, BlockBounds DEF StillOpen, Cursors
<1>8. \A p : Block(p)' = Block(p)
  BY <1>1 DEF Block, Closes
<1>9. Opened' = Opened
  BY <1>1, <1>4 DEF Opened, Openers, IsHeading
<1>10. \A p \in starts \ {o} : Closed(p, next)'
  BY <1>1, <1>5, <1>6, <1>8, BlockBounds DEF Closed, Cursors
<1>11. BlocksScanned(starts)'
  <2>1. \A p, q \in starts : p # q => Block(p)' \cap Block(q)' = {}
    BY <1>3, <1>8 DEF BlocksScanned
  <2>2. FenceLinesBefore(next)' \subseteq UNION {Block(p)' : p \in starts}
    BY <1>2, <1>3, <1>7, <1>8 DEF BlocksScanned
  <2>3. Opened' = HeadingsBefore(next)' \ UNION {Block(p)' : p \in starts}
    BY <1>2, <1>3, <1>7, <1>8, <1>9 DEF BlocksScanned
  <2>4. ASSUME fence' = None PROVE Closed(o, next)'
    <3>1. Closes(lines[next], lines[o].mark)
      BY <1>1, <1>2, <1>5, <2>4 DEF FenceAfter, StillOpen
    <3>2. \A m \in Block(o) : m <= next
      BY <1>1, <1>2, <1>6, <3>1, BlockBounds DEF Cursors
    <3>3. \A m \in Block(o) : m \in Nat
      BY <1>1, <1>6, BlockBounds DEF Cursors
    <3> QED
      BY <1>1, <1>6, <1>8, <3>2, <3>3 DEF Closed
  <2>5. ASSUME fence' # None PROVE StillOpen(o, next)'
    <3>1. fence' = fence /\ ~Closes(lines[next], lines[o].mark)
      BY <1>1, <1>2, <1>5, <2>5 DEF FenceAfter, StillOpen
    <3>2. \A e \in (o + 1)..next : ~Closes(lines[e], lines[o].mark)
      BY <1>5, <1>6, <3>1 DEF StillOpen
    <3> QED
      BY <1>1, <1>5, <1>6, <3>1, <3>2 DEF StillOpen, Closes
  <2> QED
    BY <1>10, <2>1, <2>2, <2>3, <2>4, <2>5 DEF BlocksScanned
<1>12. starts \in SUBSET FenceLinesBefore(next)'
  BY <1>2
<1>13. ~Scanned'
  BY <1>1, <1>6, ScanStepMoves DEF Scanning, Scanned
<1> QED
  BY <1>4, <1>11, <1>12, <1>13 DEF Scan

\* A fence outside a block starts one, apart from all that are closed.
LEMMA OpenFenceKeeps ==
    ASSUME ChunkingInvariant, ScanMarkdown, OpenFence
    PROVE  Scan'
<1>1. /\ lines' = lines /\ next' = next + 1 /\ sections' = sections /\ Scanning
      /\ fence = None /\ fence' = Line.mark /\ Opens(Line) /\ Line.kind = "fence"
      /\ format = "markdown" /\ Cursors
  BY ScanStepMoves DEF OpenFence, Opens, ChunkingInvariant
<1>2. /\ next \in DOMAIN lines /\ Line = lines[next]
      /\ FenceLinesBefore(next)' = FenceLinesBefore(next) \cup {next}
      /\ HeadingsBefore(next)' = HeadingsBefore(next)
  BY <1>1, OneMoreLine DEF IsHeading
<1>3. PICK starts \in SUBSET FenceLinesBefore(next) : BlocksScanned(starts)
  BY <1>1 DEF ChunkingInvariant, Scan
<1>4. /\ Len(lines) \in Nat /\ DOMAIN lines = 1..Len(lines) /\ next \in Nat \ {0}
      /\ \A p \in starts : p \in DOMAIN lines /\ p < next
  BY <1>1, SequenceShape DEF Cursors, FenceLinesBefore
<1>5. current' # 0 /\ (current' = current \/ (current = 0 /\ current' = next))
  BY <1>4 DEF OpenFence, Collect
<1>6. \A p : Block(p)' = Block(p)
  BY <1>1 DEF Block, Closes
<1>7. Opened' = Opened
  <2>1. ~IsHeading(lines[next]) /\ 0 \notin DOMAIN lines
    BY <1>1, <1>2, <1>4 DEF IsHeading
  <2> QED
    BY <1>1, <1>5, <2>1 DEF Opened, Openers, IsHeading
<1>8. \A p \in starts : Closed(p, next)
  BY <1>1, <1>3 DEF BlocksScanned
<1>9. PICK o \in DOMAIN lines : o = next
  BY <1>2
<1> DEFINE more == starts \cup {o}
<1>10. o \in Block(o) /\ Block(o) \subseteq o..Len(lines)
  BY <1>1, <1>4, <1>9, BlockBounds DEF Cursors
<1>11. BlocksScanned(more)'
  <2>1. \A p, q \in more : p # q => Block(p)' \cap Block(q)' = {}
    <3>1. \A p \in starts : Block(p) \cap Block(o) = {}
      BY <1>4, <1>8, <1>9, <1>10 DEF Closed
    <3> QED
      BY <1>3, <1>6, <3>1 DEF BlocksScanned
  <2>2. FenceLinesBefore(next)' \subseteq UNION {Block(p)' : p \in more}
    BY <1>2, <1>3, <1>6, <1>9, <1>10 DEF BlocksScanned
  <2>3. Opened' = HeadingsBefore(next)' \ UNION {Block(p)' : p \in more}
    <3>1. \A m \in HeadingsBefore(next) : m \notin Block(o)
      BY <1>4, <1>9, <1>10 DEF HeadingsBefore
    <3> QED
      BY <1>2, <1>3, <1>6, <1>7, <3>1 DEF BlocksScanned
  <2>4. StillOpen(o, next)'
    BY <1>1, <1>2, <1>4, <1>9 DEF StillOpen
  <2>5. \A p \in more \ {o} : Closed(p, next)'
    <3>1. \A p \in starts : \A m \in Block(p) : m \in Nat
      BY <1>1, <1>4, BlockBounds DEF Cursors
    <3> QED
      BY <1>1, <1>4, <1>6, <1>8, <3>1 DEF Closed
  <2>6. fence' # None
    BY <1>1, <1>2 DEF Cursors
  <2> QED
    BY <2>1, <2>2, <2>3, <2>4, <2>5, <2>6 DEF BlocksScanned
<1>12. more \in SUBSET FenceLinesBefore(next)'
  BY <1>2, <1>9
<1>13. ~Scanned'
  BY <1>1, <1>4, ScanStepMoves DEF Scanning, Scanned
<1> QED
  BY <1>5, <1>11, <1>12, <1>13 DEF Scan

\* Lines outside blocks: a heading opens a section, another line does not.
LEMMA OutsideBlocksKeeps ==
    ASSUME ChunkingInvariant, ScanMarkdown, StartSection \/ ScanText
    PROVE  Scan'
<1>1. /\ lines' = lines /\ next' = next + 1 /\ Scanning /\ fence = None /\ fence' = None
      /\ format = "markdown" /\ ~Opens(Line) /\ Cursors
  BY ScanStepMoves DEF StartSection, ScanText, IsHeading, Opens, ChunkingInvariant
<1>2. /\ next \in DOMAIN lines /\ Line = lines[next]
      /\ FenceLinesBefore(next)' = FenceLinesBefore(next)
      /\ HeadingsBefore(next)' = HeadingsBefore(next) \cup {n \in {next} : IsHeading(Line)}
  BY <1>1, OneMoreLine
<1>3. PICK starts \in SUBSET FenceLinesBefore(next) : BlocksScanned(starts)
  BY <1>1 DEF ChunkingInvariant, Scan
<1>4. /\ Len(lines) \in Nat /\ DOMAIN lines = 1..Len(lines) /\ next \in Nat \ {0}
      /\ \A p \in starts : p \in DOMAIN lines /\ p < next
  BY <1>1, SequenceShape DEF Cursors, FenceLinesBefore
<1>5. \A p : Block(p)' = Block(p)
  BY <1>1 DEF Block, Closes
<1>6. \A p \in starts : Closed(p, next)
  BY <1>1, <1>3 DEF BlocksScanned
<1>7. Opened' = Opened \cup {n \in {next} : IsHeading(Line)}
  <2>1. CASE StartSection
    <3>1. Openers' = Opened /\ current' = next /\ IsHeading(Line)
      BY <1>1, <2>1, FlushOpens DEF StartSection
    <3> QED
      BY <1>1, <1>2, <3>1 DEF Opened, IsHeading
  <2>2. CASE ScanText
    <3>1. /\ sections' = sections /\ ~IsHeading(lines[next]) /\ 0 \notin DOMAIN lines
          /\ current' = current \/ (current = 0 /\ current' = next)
      BY <1>2, <1>4, <2>2 DEF ScanText, Collect
    <3> QED
      BY <1>1, <1>2, <3>1 DEF Opened, Openers, IsHeading
  <2> QED
    BY <2>1, <2>2
<1>8. BlocksScanned(starts)'
  <2>1. \A p, q \in starts : p # q => Block(p)' \cap Block(q)' = {}
    BY <1>3, <1>5 DEF BlocksScanned
  <2>2. FenceLinesBefore(next)' \subseteq UNION {Block(p)' : p \in starts}
    BY <1>2, <1>3, <1>5 DEF BlocksScanned
  <2>3. Opened' = HeadingsBefore(next)' \ UNION {Block(p)' : p \in starts}
    <3>1. next \notin UNION {Block(p) : p \in starts}
      BY <1>4, <1>6 DEF Closed
    <3> QED
      BY <1>2, <1>3, <1>5, <1>7, <3>1 DEF BlocksScanned
  <2>4. \A p \in starts : Closed(p, next)'
    <3>1. \A p \in starts : \A m \in Block(p) : m \in Nat
      BY <1>1, <1>4, BlockBounds DEF Cursors
    <3> QED
      BY <1>1, <1>4, <1>5, <1>6, <3>1 DEF Closed
  <2> QED
    BY <1>1, <2>1, <2>2, <2>3, <2>4 DEF BlocksScanned
<1>9. starts \in SUBSET FenceLinesBefore(next)'
  BY <1>2
<1>10. ~Scanned'
  BY <1>1, <1>4, ScanStepMoves DEF Scanning, Scanned
<1> QED
  BY <1>1, <1>8, <1>9, <1>10 DEF Scan

\* The end of the text ends the last section and the last block.
LEMMA FinishScanKeeps ==
    ASSUME ChunkingInvariant, ScanMarkdown, FinishScan
    PROVE  Scan'
<1>1. /\ lines' = lines /\ next' = next + 1 /\ next = Len(lines) + 1 /\ fence' = fence
      /\ sections' = Flushed /\ current' = 0 /\ format = "markdown" /\ Cursors
  BY ScanStepMoves DEF FinishScan, ChunkingInvariant
<1>2. /\ Len(lines) \in Nat /\ DOMAIN lines = 1..Len(lines) /\ next \in Nat
  BY <1>1, SequenceShape DEF Cursors
<1>3. Scanned' /\ ~Scanned
  BY <1>1, <1>2 DEF Scanned
<1>4. FenceLinesBefore(next)' = FenceLinesBefore(next) /\ HeadingsBefore(next)' = HeadingsBefore(next)
  <2>1. \A m \in DOMAIN lines : m < next /\ m < next + 1
    BY <1>1, <1>2
  <2> QED
    BY <1>1, <2>1 DEF FenceLinesBefore, HeadingsBefore, IsHeading
<1>5. PICK starts \in SUBSET FenceLinesBefore(next) : BlocksScanned(starts)
  BY <1>1 DEF ChunkingInvariant, Scan
<1>6. \A p : Block(p)' = Block(p)
  BY <1>1 DEF Block, Closes
<1>7. Opened' = Opened
  <2>1. Openers' = Opened /\ 0 \notin DOMAIN lines
    BY <1>1, <1>2, FlushOpens
  <2> QED
    BY <1>1, <2>1 DEF Opened, IsHeading
<1>8. \A p \in starts : \A m \in Block(p) : m < next'
  <2>1. \A p \in starts : p \in DOMAIN lines /\ Block(p) \subseteq p..Len(lines)
    BY <1>1, BlockBounds DEF Cursors, FenceLinesBefore
  <2> QED
    BY <1>1, <1>2, <2>1
<1>9. BlocksScanned(starts)'
  BY <1>3, <1>4, <1>5, <1>6, <1>7, <1>8 DEF BlocksScanned, Closed
<1> QED
  BY <1>1, <1>3, <1>4, <1>9 DEF Scan

\* Every step of the scan keeps the invariant.
LEMMA ScanMarkdownKeeps ==
    ASSUME ChunkingInvariant, ScanMarkdown
    PROVE  ChunkingInvariant'
<1>1. Scan'
  BY ScanFencedKeeps, OpenFenceKeeps, OutsideBlocksKeeps, FinishScanKeeps
     DEF ScanMarkdown, ScanStep
<1> QED
  BY <1>1, ScanMarkdownMoves DEF ChunkingInvariant

----------------------------------------------------------------------------
(* Initial states and the other steps.                                     *)

\* Before the first line nothing is scanned and nothing numbered.
LEMMA ChunkingInitEstablishes == DocumentInit => ChunkingInvariant
<1> SUFFICES ASSUME DocumentInit PROVE ChunkingInvariant
  OBVIOUS
<1>1. /\ next = 1 /\ fence = None /\ current = 0 /\ sections = <<>> /\ counts = <<>>
      /\ numbered = <<>> /\ pieces = <<>> /\ done = TRUE /\ chunks = <<>>
      /\ format \in {"markdown", "plain_text"}
  BY DEF DocumentInit, Init
<1>2. PICK n \in Nat : lines \in [1..n -> Lines]
  <2>1. MaxLines \in Nat
    BY SectionsAssumption
  <2>2. PICK n \in 0..MaxLines : lines \in [1..n -> Lines]
    BY DEF DocumentInit, Init
  <2> QED
    BY <2>1, <2>2
<1>3. IsSequence(lines) /\ Len(lines) \in Nat /\ DOMAIN lines = 1..Len(lines)
  <2>1. lines \in Seq(Lines)
    BY <1>2, SeqDef
  <2>2. IsSequence(lines)
    BY <2>1, MemberIsSequence
  <2> QED
    BY <2>2, SequenceShape
<1>4. \A m \in DOMAIN lines : lines[m].kind = "fence" => lines[m].mark # None
  <2>1. \A line \in Lines : line.kind = "fence" => line.mark \in FenceLines
    BY DEF Lines
  <2> QED
    BY <1>2, <2>1, SectionsAssumption
<1>5. ~Scanned /\ DOMAIN sections = {} /\ DOMAIN numbered = {} /\ DOMAIN chunks = {}
      /\ DOMAIN counts = {} /\ Len(numbered) = 0 /\ Len(sections) = 0
  BY <1>1, <1>3 DEF Scanned
<1>6. Cursors
  BY <1>1, <1>3, <1>4, EmptyIsSequence DEF Cursors
<1>7. Scan
  <2>1. FenceLinesBefore(1) = {} /\ HeadingsBefore(1) = {} /\ Opened = {}
    BY <1>1, <1>3, <1>5 DEF FenceLinesBefore, HeadingsBefore, Opened, Openers
  <2>2. BlocksScanned({})
    BY <1>1, <2>1 DEF BlocksScanned
  <2> QED
    BY <1>1, <1>5, <2>2 DEF Scan
<1>8. Numbering
  BY <1>1, <1>5 DEF Numbering
<1>9. Identities
  BY <1>1, <1>5 DEF Identities
<1> QED
  BY <1>6, <1>7, <1>8, <1>9 DEF ChunkingInvariant

\* Plain text is one section without a heading.
LEMMA TakeWholeKeeps ==
    ASSUME ChunkingInvariant, TakeWhole
    PROVE  ChunkingInvariant'
<1>1. /\ format = "plain_text" /\ next = 1 /\ next' = Len(lines) + 2 /\ sections' = Root
      /\ UNCHANGED <<lines, current, counts, numbered, format, splitVars, chunks>>
  BY DEF TakeWhole, splitUnchanged
<1>2. Cursors /\ Len(lines) \in Nat /\ ~Scanned
  BY <1>1, SequenceShape DEF ChunkingInvariant, Cursors, Scanned
<1>3. IsSequence(sections')
  <2> DEFINE whole == [path |-> <<>>, first |-> 1, last |-> Len(lines)]
  <2>1. Root = <<>> \/ Root = <<whole>>
    BY DEF Root
  <2> HIDE DEF whole
  <2>2. <<whole>> \in Seq({whole})
    OBVIOUS
  <2> QED
    BY <1>1, <2>1, <2>2, EmptyIsSequence, MemberIsSequence
<1>4. Cursors'
  BY <1>1, <1>2, <1>3 DEF Cursors, splitVars
<1>5. Scan'
  BY <1>1 DEF Scan
<1>6. Numbering' /\ Identities'
  BY <1>1, <1>2, <1>3, ScanningNumbersNothing
<1> QED
  BY <1>4, <1>5, <1>6 DEF ChunkingInvariant

\* What the scan found stays while sections are split.
LEMMA ScanIsOver ==
    ASSUME Scan, UNCHANGED <<lines, next, fence, current, sections, format>>
    PROVE  Scan'
<1>1. \A o : Block(o)' = Block(o)
  BY DEF Block, Closes
<1>2. \A n : FenceLinesBefore(n)' = FenceLinesBefore(n)
  BY DEF FenceLinesBefore
<1>3. \A n : HeadingsBefore(n)' = HeadingsBefore(n)
  BY DEF HeadingsBefore, IsHeading
<1>4. Opened' = Opened
  BY DEF Opened, Openers, IsHeading
<1>5. \A o, n : (Closed(o, n)' <=> Closed(o, n)) /\ (StillOpen(o, n)' <=> StillOpen(o, n))
  BY <1>1 DEF Closed, StillOpen, Closes
<1>6. Scanned' <=> Scanned
  BY DEF Scanned
<1>7. ASSUME NEW starts, BlocksScanned(starts) PROVE BlocksScanned(starts)'
  BY <1>1, <1>2, <1>3, <1>4, <1>5, <1>6, <1>7 DEF BlocksScanned
<1> QED
  BY <1>2, <1>6, <1>7 DEF Scan

\* One more section of a key makes one more that came earlier.
LEMMA EarlierGrows ==
    ASSUME NEW key, NEW n \in Nat \ {0}
    PROVE  /\ IsFiniteSet(Earlier(key, n)) /\ Cardinality(Earlier(key, n)) \in Nat
           /\ Cardinality(Earlier(key, n + 1)) =
                 IF KeyOf(n) = key THEN Cardinality(Earlier(key, n)) + 1
                 ELSE Cardinality(Earlier(key, n))
<1>1. IsFiniteSet(Earlier(key, n))
  <2>1. Earlier(key, n) \in SUBSET (1..(n - 1)) /\ IsFiniteSet(1..(n - 1))
    BY FS_Interval DEF Earlier
  <2> QED
    BY <2>1, FS_Subset
<1>2. n \notin Earlier(key, n)
  BY DEF Earlier
<1>3. Earlier(key, n + 1) = IF KeyOf(n) = key THEN Earlier(key, n) \cup {n} ELSE Earlier(key, n)
  <2>1. 1..((n + 1) - 1) = (1..(n - 1)) \cup {n}
    OBVIOUS
  <2> QED
    BY <2>1 DEF Earlier
<1> QED
  BY <1>1, <1>2, <1>3, FS_AddElement, FS_CardinalityType

\* Beginning a section counts its identity string once more.
LEMMA BeginSectionKeeps ==
    ASSUME ChunkingInvariant, BeginSection
    PROVE  ChunkingInvariant'
<1> DEFINE n == Len(numbered) + 1
           key == KeyOf(n)
<1>1. /\ done /\ done' = FALSE /\ pieces' = <<>> /\ Scanned
      /\ numbered' = Append(numbered, Occurrence(key))
      /\ counts' = [k \in DOMAIN counts \cup {key} |->
                      IF k = key THEN Occurrence(key) + 1 ELSE counts[k]]
      /\ Len(numbered) < Len(sections)
      /\ UNCHANGED <<lines, next, fence, current, sections, format, chunks>>
  BY DEF BeginSection, NumberSection, OccurrenceKey, KeyOf
<1>2. /\ Cursors /\ Scan /\ Numbering /\ Identities
      /\ Len(numbered) \in Nat /\ DOMAIN numbered = 1..Len(numbered)
      /\ Len(sections) \in Nat /\ DOMAIN sections = 1..Len(sections) /\ n \in DOMAIN sections
  BY <1>1, SequenceShape DEF ChunkingInvariant, Cursors
<1>3. /\ IsSequence(numbered') /\ Len(numbered') = n /\ DOMAIN numbered' = 1..n
      /\ \A i \in DOMAIN numbered : numbered'[i] = numbered[i]
      /\ numbered'[n] = Occurrence(key)
  BY <1>1, <1>2, Appended, SequenceShape DEF Cursors
<1>4. Cursors'
  BY <1>1, <1>2, <1>3, EmptyIsSequence DEF Cursors
<1>5. Scan'
  BY <1>1, <1>2, ScanIsOver
<1>6. \A i : KeyOf(i)' = KeyOf(i)
  BY <1>1 DEF KeyOf
<1>7. \A k, m : Earlier(k, m)' = Earlier(k, m)
  BY <1>6 DEF Earlier
<1>8. \A k : Occurrence(k)' = IF k = key THEN Occurrence(key) + 1 ELSE Occurrence(k)
  <2> HIDE DEF key
  <2> QED
    BY <1>1 DEF Occurrence
<1>9. \A i \in DOMAIN numbered : i < n
  BY <1>2
<1>10. Numbering'
  <2>1. ASSUME NEW i \in DOMAIN sections
        PROVE  Occurrence(KeyOf(i))' = Cardinality(Earlier(KeyOf(i), n + 1))
    <3>1. Occurrence(KeyOf(i)) = Cardinality(Earlier(KeyOf(i), n))
      BY <1>2 DEF Numbering
    <3>2. Occurrence(key) = Cardinality(Earlier(key, n))
      BY <1>2 DEF Numbering
    <3>3. Occurrence(KeyOf(i))' = IF KeyOf(i) = key THEN Occurrence(key) + 1 ELSE Occurrence(KeyOf(i))
      BY <1>6, <1>8
    <3>4. n \in Nat \ {0}
      BY <1>2
    <3> HIDE DEF n
    <3>5. Cardinality(Earlier(KeyOf(i), n + 1)) =
             IF KeyOf(n) = KeyOf(i) THEN Cardinality(Earlier(KeyOf(i), n)) + 1
             ELSE Cardinality(Earlier(KeyOf(i), n))
      BY <3>4, EarlierGrows
    <3> QED
      BY <3>1, <3>2, <3>3, <3>5
  <2>2. ASSUME NEW i \in DOMAIN numbered'
        PROVE  numbered'[i] = Cardinality(Earlier(KeyOf(i), i))
    <3>1. CASE i = n
      BY <1>2, <1>3, <3>1 DEF Numbering
    <3>2. CASE i # n
      <4>1. i \in DOMAIN numbered
        BY <1>2, <1>3, <3>2
      <4> QED
        BY <1>2, <1>3, <4>1 DEF Numbering
    <3> QED
      BY <3>1, <3>2
  <2>3. Len(numbered') <= Len(sections') /\ numbered' # <<>> /\ Scanned'
    BY <1>1, <1>2, <1>3 DEF Scanned
  <2> QED
    BY <1>1, <1>3, <1>6, <1>7, <2>1, <2>2, <2>3 DEF Numbering
<1>11. Identities'
  <2>1. \A i \in DOMAIN chunks : chunks[i].section \in DOMAIN numbered
    BY <1>2 DEF Identities
  <2>2. \A i \in DOMAIN chunks : chunks[i].section # n /\ chunks[i].section \in DOMAIN numbered'
    BY <1>2, <1>3, <1>9, <2>1
  <2>3. numbered' # <<>>
    BY <1>2, <1>3
  <2> QED
    BY <1>1, <1>2, <1>3, <1>6, <2>1, <2>2, <2>3 DEF Identities
<1> QED
  BY <1>4, <1>5, <1>10, <1>11 DEF ChunkingInvariant

\* Packing changes the pieces of a section only.
LEMMA PackAtomKeeps ==
    ASSUME ChunkingInvariant, PackAtom
    PROVE  ChunkingInvariant'
<1>1. /\ done' = done /\ UNCHANGED <<vars, format, chunks>>
      /\ pieces' = pieces \/ pieces' = Append(pieces, filling)
  BY DEF PackAtom, Splitter!Pack, Splitter!Flush
<1>2. Cursors'
  <2>1. IsSequence(pieces)
    BY DEF ChunkingInvariant, Cursors
  <2>2. IsSequence(pieces')
    BY <1>1, <2>1, Appended
  <2> QED
    BY <1>1, <2>2 DEF ChunkingInvariant, Cursors, vars
<1>3. Scan'
  BY <1>1, ScanIsOver DEF ChunkingInvariant, vars
<1>4. Numbering'
  BY <1>1 DEF ChunkingInvariant, Numbering, Occurrence, Earlier, KeyOf, Scanned, vars
<1>5. Identities'
  BY <1>1 DEF ChunkingInvariant, Identities, KeyOf, vars
<1> QED
  BY <1>2, <1>3, <1>4, <1>5 DEF ChunkingInvariant

\* The chunks of a section are the first that have its number.
LEMMA FinishSectionKeeps ==
    ASSUME ChunkingInvariant, FinishSection
    PROVE  ChunkingInvariant'
<1> DEFINE built == [i \in DOMAIN pieces' |-> Chunk(i)]
           n == Len(chunks)
           m == Len(pieces')
<1>1. /\ ~done /\ done' = TRUE /\ UNCHANGED <<vars, format>>
      /\ pieces' = pieces \o Splitter!Rest /\ chunks' = chunks \o built
  BY DEF FinishSection, Splitter!Finish
<1>2. /\ Cursors /\ Scan /\ Numbering /\ Identities
      /\ n \in Nat /\ DOMAIN chunks = 1..n
      /\ Len(numbered) \in Nat \ {0} /\ DOMAIN numbered = 1..Len(numbered)
  BY <1>1, SequenceShape DEF ChunkingInvariant, Cursors, Identities, IsSequence
<1>3. IsSequence(pieces')
  <2>1. Splitter!Rest = <<>> \/ Splitter!Rest = <<filling>>
    BY DEF Splitter!Rest
  <2>2. <<filling>> \in Seq({filling})
    OBVIOUS
  <2> QED
    BY <1>1, <1>2, <2>1, <2>2, EmptyIsSequence, MemberIsSequence, Concatenated DEF Cursors
<1>4. m \in Nat /\ DOMAIN pieces' = 1..m
  BY <1>3, SequenceShape
<1>5. IsSequence(built) /\ Len(built) = m
  <2>1. DOMAIN built = 1..m /\ built = [i \in 1..m |-> built[i]]
    BY <1>4
  <2> HIDE DEF built, m
  <2> QED
    BY <1>4, <2>1, FunctionIsSequence
<1>6. \A i \in 1..m :
         /\ built[i].section = Len(numbered) /\ built[i].key = KeyOf(Len(numbered))
         /\ built[i].occurrence = numbered[Len(numbered)]
         /\ built[i].ordinalInSection = i - 1 /\ built[i].ordinal = n + i - 1
  BY <1>4 DEF Chunk, Section, KeyOf, Last
<1> HIDE DEF built, n, m
<1>7. /\ IsSequence(chunks') /\ Len(chunks') = n + m /\ DOMAIN chunks' = 1..(n + m)
      /\ \A i \in 1..n : chunks'[i] = chunks[i]
      /\ \A i \in 1..m : chunks'[n + i] = built[i]
  <2>1. IsSequence(chunks) /\ n = Len(chunks)
    BY <1>2 DEF Cursors, n
  <2>2. /\ IsSequence(chunks \o built) /\ Len(chunks \o built) = n + m
        /\ \A i \in 1..n : (chunks \o built)[i] = chunks[i]
        /\ \A i \in 1..m : (chunks \o built)[n + i] = built[i]
    BY <1>5, <2>1, Concatenated
  <2>3. DOMAIN (chunks \o built) = 1..(n + m)
    BY <2>2, SequenceShape
  <2> QED
    BY <1>1, <2>2, <2>3
<1>8. Cursors'
  BY <1>1, <1>2, <1>3, <1>7 DEF Cursors, vars
<1>9. Scan'
  BY <1>1, <1>2, ScanIsOver DEF vars
<1>10. Numbering'
  BY <1>1, <1>2 DEF Numbering, Occurrence, Earlier, KeyOf, Scanned, vars
<1>11. \A i : KeyOf(i)' = KeyOf(i) /\ numbered' = numbered
  BY <1>1 DEF KeyOf, vars
<1>12. Identities'
  <2>1. ASSUME NEW i \in DOMAIN chunks'
        PROVE  \/ i \in 1..n /\ chunks'[i] = chunks[i]
               \/ \E j \in 1..m : i = n + j /\ chunks'[i] = built[j]
    <3>1. i \in 1..n \/ (i - n \in 1..m /\ i = n + (i - n))
      BY <1>2, <1>4, <1>7
    <3> QED
      BY <1>7, <3>1
  <2>2. ASSUME NEW i \in DOMAIN chunks'
        PROVE  /\ chunks'[i].section \in DOMAIN numbered'
               /\ chunks'[i].key = KeyOf(chunks[i].section)'
               /\ chunks'[i].occurrence = numbered'[chunks'[i].section]
               /\ chunks'[i].ordinal = i - 1
    <3>1. CASE i \in 1..n /\ chunks'[i] = chunks[i]
      BY <1>2, <1>11, <3>1 DEF Identities
    <3>2. ASSUME NEW j \in 1..m, i = n + j, chunks'[i] = built[j]
          PROVE  <2>2!2
      BY <1>2, <1>4, <1>6, <1>11, <3>2
    <3> QED
      BY <2>1, <3>1, <3>2
  <2>3. ASSUME NEW i \in DOMAIN chunks', NEW j \in DOMAIN chunks',
               chunks'[i].section = chunks'[j].section,
               chunks'[i].ordinalInSection = chunks'[j].ordinalInSection
        PROVE  i = j
    <3>1. \A x \in 1..n : chunks[x].section # Len(numbered)
      BY <1>1, <1>2 DEF Identities
    <3>2. CASE i \in 1..n /\ j \in 1..n
      BY <1>2, <1>7, <2>3, <3>2 DEF Identities
    <3>3. ASSUME NEW x \in 1..m, NEW y \in 1..m, i = n + x, j = n + y,
                 chunks'[i] = built[x], chunks'[j] = built[y]
          PROVE  i = j
      BY <1>4, <1>6, <2>3, <3>3
    <3> QED
      BY <1>6, <2>1, <2>3, <3>1, <3>2, <3>3
  <2> QED
    BY <1>1, <2>2, <2>3 DEF Identities
<1> QED
  BY <1>8, <1>9, <1>10, <1>12 DEF ChunkingInvariant

\* Every step keeps the invariant.
LEMMA ChunkingNextKeeps ==
    ChunkingInvariant /\ [DocumentNext]_documentVars => ChunkingInvariant'
<1> SUFFICES ASSUME ChunkingInvariant, [DocumentNext]_documentVars
             PROVE  ChunkingInvariant'
  OBVIOUS
<1>1. CASE UNCHANGED documentVars
  <2>1. UNCHANGED <<vars, format, pieces, done, chunks>>
    BY <1>1 DEF documentVars, splitVars
  <2>2. Cursors'
    BY <2>1 DEF ChunkingInvariant, Cursors, vars
  <2>3. Scan'
    BY <2>1, ScanIsOver DEF ChunkingInvariant, vars
  <2>4. Numbering'
    BY <2>1 DEF ChunkingInvariant, Numbering, Occurrence, Earlier, KeyOf, Scanned, vars
  <2>5. Identities'
    BY <2>1 DEF ChunkingInvariant, Identities, KeyOf, vars
  <2> QED
    BY <2>2, <2>3, <2>4, <2>5 DEF ChunkingInvariant
<1>2. CASE DocumentNext
  BY <1>2, ScanMarkdownKeeps, TakeWholeKeeps, BeginSectionKeeps, PackAtomKeeps,
     FinishSectionKeeps DEF DocumentNext
<1> QED
  BY <1>1, <1>2

----------------------------------------------------------------------------
(* Blocks and identities: theorems.                                        *)

\* Every state in the chunking of a document satisfies the invariant.
THEOREM ChunkingInvariance == DocumentSpec => []ChunkingInvariant
BY ChunkingInitEstablishes, ChunkingNextKeeps, PTL DEF DocumentSpec

\* A heading line of a Markdown text opens a section unless it is inside a
\* fenced block, for every text: the blocks the scanner has seen are the
\* disjoint ones that contain all lines that can open a fence.
THEOREM OnlyFencesHide == DocumentSpec => []FencesAloneHideHeadings
<1>1. ASSUME ChunkingInvariant PROVE FencesAloneHideHeadings
  <2> SUFFICES ASSUME format = "markdown", Scanned PROVE OnlyFencesHideHeadings
    BY DEF FencesAloneHideHeadings, OnlyFencesHideHeadings
  <2>1. /\ Cursors /\ current = 0 /\ next = Len(lines) + 2
        /\ Len(lines) \in Nat /\ DOMAIN lines = 1..Len(lines)
    BY <1>1, SequenceShape DEF ChunkingInvariant, Scan, Scanned, Cursors
  <2>2. PICK starts \in SUBSET FenceLinesBefore(next) : BlocksScanned(starts)
    BY <1>1 DEF ChunkingInvariant, Scan
  <2>3. \A n \in DOMAIN lines : n < next /\ n # current
    BY <2>1
  <2>4. /\ FenceLinesBefore(next) = {n \in DOMAIN lines : Opens(lines[n])}
        /\ HeadingsBefore(next) = {n \in DOMAIN lines : IsHeading(lines[n])}
        /\ Opened = Openers
    BY <2>3 DEF FenceLinesBefore, HeadingsBefore, Opened
  <2> QED
    BY <2>2, <2>4 DEF BlocksScanned, OnlyFencesHideHeadings
<1> QED
  BY <1>1, ChunkingInvariance, PTL

\* No two chunks of a document have one identity, whatever its headings are
\* and however its sections are cut, and a section is numbered by those
\* before it that share its identity.
THEOREM IdentitiesUnique == DocumentSpec => []IdentitiesAreUnique
<1>1. ASSUME ChunkingInvariant PROVE IdentitiesAreUnique
  <2> SUFFICES ASSUME Built PROVE IdentitiesAreUnique
    BY DEF IdentitiesAreUnique
  <2>1. /\ Cursors /\ Numbering /\ Identities
        /\ Len(sections) \in Nat /\ DOMAIN sections = 1..Len(sections)
        /\ DOMAIN numbered = DOMAIN sections
    BY <1>1, SequenceShape DEF ChunkingInvariant, Cursors, Built
  <2>2. \A i \in DOMAIN sections : numbered[i] = Cardinality(Earlier(KeyOf(i), i))
    BY <2>1 DEF Numbering
  <2>3. ASSUME NEW i \in DOMAIN sections, NEW j \in DOMAIN sections, i < j, KeyOf(i) = KeyOf(j)
        PROVE  numbered[i] < numbered[j]
    <3>1. i \in Nat \ {0} /\ j \in Nat \ {0}
      BY <2>1
    <3>2. Earlier(KeyOf(i), i + 1) \subseteq Earlier(KeyOf(i), j)
      BY <2>3, <3>1 DEF Earlier
    <3>3. Cardinality(Earlier(KeyOf(i), i + 1)) = numbered[i] + 1 /\ numbered[i] \in Nat
      BY <2>2, <3>1, EarlierGrows
    <3>4. Cardinality(Earlier(KeyOf(i), i + 1)) <= Cardinality(Earlier(KeyOf(i), j))
      BY <3>1, <3>2, EarlierGrows, FS_Subset
    <3>5. numbered[j] = Cardinality(Earlier(KeyOf(i), j)) /\ numbered[j] \in Nat
      BY <2>2, <2>3, <3>1, EarlierGrows
    <3> QED
      BY <3>3, <3>4, <3>5
  <2>4. ASSUME NEW i \in DOMAIN sections, NEW j \in DOMAIN sections,
               KeyOf(i) = KeyOf(j), numbered[i] = numbered[j]
        PROVE  i = j
    <3>1. i \in Nat /\ j \in Nat
      BY <2>1
    <3>2. \A s \in DOMAIN sections : numbered[s] \in Nat
      <4> TAKE s \in DOMAIN sections
      <4>1. s \in Nat \ {0}
        BY <2>1
      <4> QED
        BY <2>2, <4>1, EarlierGrows
    <3> QED
      BY <2>3, <2>4, <3>1, <3>2
  <2>5. ASSUME NEW i \in DOMAIN chunks, NEW j \in DOMAIN chunks,
               chunks[i].key = chunks[j].key, chunks[i].occurrence = chunks[j].occurrence,
               chunks[i].ordinalInSection = chunks[j].ordinalInSection
        PROVE  i = j
    <3>1. chunks[i].section \in DOMAIN sections /\ chunks[j].section \in DOMAIN sections
      BY <2>1 DEF Identities
    <3>2. chunks[i].section = chunks[j].section
      BY <2>1, <2>4, <2>5, <3>1 DEF Identities
    <3> QED
      BY <2>1, <2>5, <3>2 DEF Identities
  <2> QED
    BY <2>2, <2>5 DEF IdentitiesAreUnique, Earlier, KeyOf
<1> QED
  BY <1>1, ChunkingInvariance, PTL

----------------------------------------------------------------------------
(* The invariant of the cut.                                               *)

\* What a section's text is packed into so far.
Filled == pieces \o Splitter!Rest

\* The splitter is between two atoms: those before it are packed, and the
\* atoms cut the text without splitting what fits.
Packing ==
    /\ bound \in Bounds
    /\ text \in Seq(Splitter!Lines)
    /\ IsSequence(pieces)
    /\ done \in BOOLEAN
    /\ nextAtom \in 1..(Len(atoms) + 1)
    /\ Cut(atoms, 1, Total(text, Len(text)))
    /\ Natural(text, atoms)
    /\ IF done THEN filling = <<>> /\ nextAtom = Len(atoms) + 1
       ELSE filling = <<>> => pieces = <<>>
    /\ Packed(atoms, nextAtom, Filled)

\* The lines of each section.
SectionLines == [i \in DOMAIN sections |-> <<sections[i].first, sections[i].last>>]

\* The last line that is in a finished section.
CollectedTo ==
    IF current # 0 THEN current - 1 ELSE IF Scanned THEN Len(lines) ELSE 0

\* The sections tile the lines, up to those being collected.
Sectioned ==
    /\ lines \in Seq(Lines)
    /\ IsSequence(sections)
    /\ Tiles(SectionLines, 1, CollectedTo)
    /\ next \in 1..(Len(lines) + 2)
    /\ current \in 0..Len(lines) /\ current < next
    /\ Scanned => current = 0
    /\ ~Scanned => (current = 0 <=> next = 1)

\* How many sections are cut, and how many characters they have.
Finished == IF done THEN Len(numbered) ELSE Len(numbered) - 1
Covered == IF Finished = 0 THEN 0 ELSE Total(LineSizes, sections[Finished].last)

\* A piece of section s of a text, as an interval of the text.
Moved(t, s, piece) ==
    <<Total(t, s.first - 1) + piece[1], Total(t, s.first - 1) + piece[2]>>

\* Where in the document the chunks are.
Places ==
    [i \in DOMAIN chunks |-> Moved(LineSizes, sections[chunks[i].section], chunks[i].piece)]

\* The chunks tile the text of the sections that are cut.
Placement ==
    /\ IsSequence(chunks)
    /\ \A i \in DOMAIN chunks :
          /\ chunks[i].piece \in Intervals
          /\ Splitter!Size(chunks[i].piece) <= bound
          /\ chunks[i].ordinalInSection \in Nat
    /\ Tiles(Places, 1, Covered)
    /\ ~done => text = SubSeq(LineSizes, Section.first, Section.last)

\* The invariant.
Cutting == Packing /\ Sectioned /\ Placement

----------------------------------------------------------------------------
(* Texts.                                                                  *)

\* What sections are made of is text the chunker cuts.
LEMMA SplitterLinesAreText ==
    ASSUME NEW t \in Seq(Splitter!Lines)
    PROVE  IsText(t)
<1>1. {LengthOf(line) : line \in Lines} \subseteq Nat \ {0}
  BY SplitterAssumption DEF Splitter!ChunkerAssumption
<1>2. \A l \in Splitter!Lines : l.length \in Nat \ {0} /\ l.blank \in BOOLEAN
  BY <1>1 DEF Splitter!Lines
<1>3. IsSequence(t) /\ \A i \in 1..Len(t) : t[i] \in Splitter!Lines
  <2> HIDE DEF Splitter!Lines
  <2> QED
    BY MemberIsSequence
<1> QED
  BY <1>2, <1>3 DEF IsText

\* So is the document.
LEMMA LineSizesAreText ==
    ASSUME lines \in Seq(Lines)
    PROVE  /\ LineSizes \in Seq(Splitter!Lines) /\ Len(LineSizes) = Len(lines) /\ Len(lines) \in Nat
           /\ DOMAIN lines = 1..Len(lines)
<1>1. Len(lines) \in Nat /\ DOMAIN lines = 1..Len(lines) /\ \A i \in 1..Len(lines) : lines[i] \in Lines
  <2> HIDE DEF Lines
  <2> QED
    OBVIOUS
<1> DEFINE size(line) == [length |-> LengthOf(line), blank |-> line.kind = "text" /\ line.blank]
<1>2. ASSUME NEW line \in Lines
      PROVE  size(line) \in Splitter!Lines
  <2>1. LengthOf(line) \in {LengthOf(l) : l \in Lines}
    OBVIOUS
  <2>2. ASSUME line.kind = "text", line.blank PROVE LengthOf(line) = 1
    <3>1. PICK x \in TextLines : line = [kind |-> "text", length |-> x.length, blank |-> x.blank]
      BY <2>2 DEF Lines
    <3>2. line.length = 1 /\ line.kind # "heading" /\ line.kind # "fence"
      BY <2>2, <3>1, SectionsAssumption
    <3> QED
      BY <3>2 DEF LengthOf
  <2> DEFINE n == LengthOf(line)  b == line.kind = "text" /\ line.blank
  <2>3. n \in {LengthOf(l) : l \in Lines} /\ b \in BOOLEAN /\ (b => n = 1)
    BY <2>1, <2>2
  <2> HIDE DEF n, b
  <2> QED
    BY <2>3 DEF Splitter!Lines, n, b
<1>3. LineSizes = [i \in 1..Len(lines) |-> size(lines[i])]
  BY <1>1 DEF LineSizes
<1> HIDE DEF size
<1>4. \A i \in 1..Len(lines) : size(lines[i]) \in Splitter!Lines
  BY <1>1, <1>2
<1> DEFINE L == Splitter!Lines  n == Len(lines)
<1>5. n \in Nat /\ LineSizes \in [1..n -> L]
  BY <1>1, <1>3, <1>4
<1> HIDE DEF L, n
<1>6. LineSizes \in Seq(L) /\ Len(LineSizes) = n
  BY <1>5
<1> QED
  BY <1>1, <1>6 DEF L, n

\* So is every section.
LEMMA SubTexts ==
    ASSUME NEW t \in Seq(Splitter!Lines), NEW a \in Nat \ {0}, NEW b \in Nat, a <= b + 1, b <= Len(t)
    PROVE  SubSeq(t, a, b) \in Seq(Splitter!Lines)
<1> DEFINE L == Splitter!Lines
<1> HIDE DEF L
<1>1. t \in Seq(L) /\ Len(t) \in Nat
  BY DEF L
<1>2. a = b + 1 \/ (a \in 1..Len(t) /\ b \in 1..Len(t))
  BY <1>1
<1>3. SubSeq(t, a, b) \in Seq(L)
  BY <1>1, <1>2
<1> QED
  BY <1>3 DEF L

\* The length of a part of a text.
LEMMA TotalOfPart ==
    ASSUME NEW t, IsText(t), NEW a \in Nat \ {0}, NEW b \in Nat, a <= b + 1, b <= Len(t),
           IsText(SubSeq(t, a, b))
    PROVE  Total(t, a - 1) + Total(SubSeq(t, a, b), b - a + 1) = Total(t, b)
<1> DEFINE s == SubSeq(t, a, b)  m == b - a + 1
           S == {i \in 0..m : Total(t, a - 1) + Total(s, i) = Total(t, a - 1 + i)}
<1>1. m \in Nat /\ Len(s) = m /\ Len(t) \in Nat /\ \A i \in 1..m : s[i] = t[a + i - 1]
  BY SubSequence, Totals DEF IsText
<1>2. \A i \in 0..m : a - 1 + i \in 0..Len(t) /\ (i # 0 => a - 1 + i \in 1..Len(t))
  BY <1>1
<1> HIDE DEF s, m
<1>3. 0 \in S
  <2>1. Total(s, 0) = 0 /\ Total(t, a - 1) \in Nat /\ a - 1 + 0 = a - 1
    <3>1. 0 \in 0..m
      BY <1>1
    <3>2. a - 1 + 0 \in 0..Len(t) /\ a - 1 + 0 = a - 1
      BY <1>2, <3>1
    <3> QED
      BY <3>2, Totals DEF s
  <2> QED
    BY <1>1, <2>1
<1>4. ASSUME NEW i \in 0..(m - 1), i \in S PROVE i + 1 \in S
  <2>1. i + 1 \in 1..m /\ i + 1 \in 0..m /\ (i + 1) - 1 = i /\ i \in 0..m
        /\ a - 1 + (i + 1) = a + (i + 1) - 1 /\ (a - 1 + (i + 1)) - 1 = a - 1 + i
    BY <1>1
  <2>2. Total(s, i + 1) = Total(s, i) + s[i + 1].length /\ s[i + 1].length \in Nat
        /\ Total(s, i) \in Nat
    BY <1>1, <2>1, Totals DEF s
  <2>3. /\ Total(t, a - 1 + (i + 1)) = Total(t, a - 1 + i) + t[a - 1 + (i + 1)].length
        /\ Total(t, a - 1 + i) \in Nat /\ Total(t, a - 1) \in Nat
    <3>1. a - 1 + (i + 1) \in 1..Len(t) /\ a - 1 + i \in 0..Len(t) /\ a - 1 \in 0..Len(t)
      BY <1>1, <1>2, <2>1
    <3> QED
      BY <2>1, <3>1, Totals
  <2>4. s[i + 1] = t[a - 1 + (i + 1)]
    BY <1>1, <2>1
  <2>5. Total(t, a - 1) + Total(s, i) = Total(t, a - 1 + i)
    BY <1>4
  <2> QED
    BY <2>1, <2>2, <2>3, <2>4, <2>5
<1>5. m \in S
  <2> HIDE DEF S
  <2>1. \A i \in 0..m : i \in S
    BY <1>1, <1>3, <1>4, CountingTo
  <2> QED
    BY <1>1, <2>1
<1>6. a - 1 + m = b
  BY DEF m
<1> QED
  BY <1>5, <1>6 DEF s, m

\* The characters before a line, in the property and here.
LEMMA BeforeIsTotal ==
    ASSUME NEW n
    PROVE  Before(n) = Total(LineSizes, n - 1)
BY DEF Before, Total, Splitter!Total, Splitter!FoldLeft, FoldLeft, Splitter!MapThenFoldSet,
   MapThenFoldSet, Splitter!Max, Max

----------------------------------------------------------------------------
(* The steps of packing.                                                   *)

\* What Packing says, without the ways it is written.
LEMMA PackingParts ==
    ASSUME Packing
    PROVE  /\ bound \in Nat \ {0} /\ IsText(text) /\ Total(text, Len(text)) \in Nat
           /\ IsSequence(atoms) /\ Len(atoms) \in Nat
           /\ filling = <<>> => Splitter!Rest = <<>> /\ Filled = pieces
           /\ filling # <<>> => Splitter!Rest = <<filling>> /\ Filled = Append(pieces, filling)
           /\ EndBefore(atoms, Len(atoms) + 1) = Total(text, Len(text))
<1>1. bound \in Nat \ {0}
  BY SplitterAssumption DEF Packing, Splitter!ChunkerAssumption
<1>2. IsText(text)
  BY SplitterLinesAreText DEF Packing
<1>3. Total(text, Len(text)) \in Nat
  <2>1. Len(text) \in 0..Len(text)
    BY <1>2, Totals
  <2> QED
    BY <1>2, <2>1, Totals
<1>4. IsSequence(atoms) /\ Len(atoms) \in Nat
  BY SequenceShape DEF Packing, Cut, Tiles
<1>5. filling = <<>> => Splitter!Rest = <<>> /\ Filled = pieces
  <2>1. pieces \o <<>> = pieces
    BY ConcatEmptySeq DEF Packing, IsSequence
  <2> QED
    BY <2>1 DEF Splitter!Rest, Filled
<1>6. filling # <<>> => Splitter!Rest = <<filling>> /\ Filled = Append(pieces, filling)
  BY AppendJoins DEF Splitter!Rest, Filled, Packing
<1>7. EndBefore(atoms, Len(atoms) + 1) = Total(text, Len(text))
  <2> DEFINE m == Len(atoms)  n == Total(text, Len(text))
  <2>1. IF m = 0 THEN 1 = n + 1 ELSE atoms[m][2] = n
    BY DEF Packing, Cut, Tiles
  <2>2. m \in Nat /\ n \in Nat
    BY <1>3, <1>4
  <2> HIDE DEF m, n
  <2>3. IF m + 1 = 1 THEN n = 0 ELSE atoms[(m + 1) - 1][2] = n
    BY <2>1, <2>2
  <2> QED
    BY <2>3 DEF EndBefore, m, n
<1> QED
  BY <1>1, <1>2, <1>3, <1>4, <1>5, <1>6, <1>7

\* An atom is packed: joined to the piece being filled, or the first of the next.
LEMMA PackKeeps ==
    ASSUME Packing, PackAtom
    PROVE  Packing'
<1> DEFINE x == atoms[nextAtom]  top == Total(text, Len(text))
<1>1. /\ ~done /\ UNCHANGED <<text, bound, atoms, done>> /\ nextAtom' = nextAtom + 1
      /\ nextAtom <= Len(atoms)
  BY DEF PackAtom, Splitter!Pack, Splitter!Flush
<1>2. /\ bound \in Nat \ {0} /\ top \in Nat /\ IsSequence(atoms) /\ Len(atoms) \in Nat
      /\ filling = <<>> => Splitter!Rest = <<>> /\ Filled = pieces
      /\ filling # <<>> => Splitter!Rest = <<filling>> /\ Filled = Append(pieces, filling)
  BY PackingParts
<1>3. /\ Cut(atoms, 1, top) /\ Packed(atoms, nextAtom, Filled) /\ IsSequence(pieces)
      /\ nextAtom \in 1..(Len(atoms) + 1) /\ done \in BOOLEAN
      /\ filling = <<>> => pieces = <<>>
  BY <1>1 DEF Packing
<1>4. nextAtom \in 1..Len(atoms) /\ nextAtom' \in 1..(Len(atoms) + 1)
  BY <1>1, <1>2, <1>3
<1>5. x # <<>> /\ x = <<x[1], x[2]>> /\ x[1] \in Nat /\ x[2] \in Nat
  BY <1>2, <1>3, <1>4, AtomPlace
<1> HIDE DEF top
<1>6. IsSequence(pieces') /\ filling' # <<>> /\ Packed(atoms, nextAtom + 1, Append(pieces', filling'))
  <2>1. CASE filling = <<>>
    <3>1. Splitter!Pack /\ pieces' = pieces /\ filling' = x
      BY <2>1 DEF PackAtom, Splitter!Flush, Splitter!Pack, Splitter!Overflows
    <3>2. Len(Filled) = 0 /\ Filled = pieces
      BY <1>2, <1>3, <2>1, EmptyIsSequence
    <3>3. Packed(atoms, nextAtom + 1, Append(Filled, x))
      BY <1>2, <1>3, <1>4, <3>2, PackedAppend
    <3> QED
      BY <1>3, <1>5, <3>1, <3>2, <3>3
  <2>2. CASE filling # <<>> /\ Splitter!Pack
    <3>1. /\ pieces' = pieces /\ filling' = <<filling[1], x[2]>>
          /\ Splitter!Size(filling) + Splitter!Size(x) <= bound
      <4>1. ~(Splitter!Size(filling) + Splitter!Size(x) > bound)
        BY <2>2 DEF Splitter!Pack, Splitter!Overflows
      <4>2. Splitter!Size(filling) \in Int /\ Splitter!Size(x) \in Int
        <5>1. IsSequence(pieces) /\ Filled = Append(pieces, filling)
          BY <1>2, <1>3, <2>2
        <5>2. Len(Filled) = Len(pieces) + 1 /\ Filled[Len(pieces) + 1] = filling /\ Len(pieces) \in Nat
          BY <5>1, Appended, SequenceShape
        <5>3. Len(pieces) + 1 \in 1..Len(Filled)
          BY <5>2
        <5>4. filling \in Intervals
          BY <1>3, <5>2, <5>3 DEF Packed, Cut, Tiles
        <5> QED
          BY <1>5, <5>4, IntervalParts DEF Splitter!Size
      <4> QED
        BY <1>2, <2>2, <4>1, <4>2 DEF Splitter!Pack
    <3>2. Packed(atoms, nextAtom + 1, Append(pieces, <<filling[1], x[2]>>))
      BY <1>2, <1>3, <1>4, <2>2, <3>1, PackedExtend
    <3> QED
      BY <1>3, <3>1, <3>2
  <2>3. CASE filling # <<>> /\ Splitter!Flush
    <3>1. /\ pieces' = Append(pieces, filling) /\ filling' = x
          /\ Splitter!Size(filling) + Splitter!Size(x) > bound
      BY <2>3 DEF Splitter!Flush, Splitter!Overflows
    <3>2. Filled = Append(pieces, filling) /\ IsSequence(Filled) /\ Filled[Len(Filled)] = filling
      <4>1. Filled = Append(pieces, filling) /\ IsSequence(pieces)
        BY <1>2, <1>3, <2>3
      <4>2. IsSequence(Append(pieces, filling)) /\ Len(Append(pieces, filling)) = Len(pieces) + 1
            /\ Append(pieces, filling)[Len(pieces) + 1] = filling
        BY <4>1, Appended
      <4> QED
        BY <4>1, <4>2
    <3>3. Packed(atoms, nextAtom + 1, Append(Filled, x))
      BY <1>2, <1>3, <1>4, <3>1, <3>2, PackedAppend
    <3> QED
      BY <1>5, <3>1, <3>2, <3>3
  <2> QED
    BY <2>1, <2>2, <2>3 DEF PackAtom
<1>7. Filled' = Append(pieces', filling')
  <2>1. Filled' = pieces' \o <<filling'>>
    BY <1>6 DEF Filled, Splitter!Rest
  <2> QED
    BY <1>6, <2>1, AppendJoins
<1>8. Packed(atoms, nextAtom, Filled)'
  <2>1. \A p, n, w : Packed(p, n, w)' <=> Packed(p, n, w)
    BY <1>1 DEF Packed, Cut, Greedy
  <2> QED
    BY <1>1, <1>6, <1>7 DEF Packed, Cut, Greedy
<1>9. Natural(text, atoms)'
  BY <1>1 DEF Packing, Natural
<1>10. Cut(atoms, 1, Total(text, Len(text)))'
  BY <1>1 DEF Packing, Cut
<1> QED
  BY <1>1, <1>3, <1>4, <1>6, <1>8, <1>9, <1>10 DEF Packing

\* Finish flushes what is left, so that the pieces are the whole cut.
LEMMA FinishKeepsPacking ==
    ASSUME Packing, FinishSection
    PROVE  /\ Packing' /\ pieces' = Filled /\ Cut(pieces', 1, Total(text, Len(text)))
           /\ text' = text /\ bound' = bound
<1>1. /\ ~done /\ done' = TRUE /\ UNCHANGED <<text, bound, atoms, nextAtom>> /\ filling' = <<>>
      /\ nextAtom = Len(atoms) + 1 /\ pieces' = Filled
  BY DEF FinishSection, Splitter!Finish, Filled, Splitter!Rest
<1>2. IsSequence(Filled) /\ Filled' = pieces'
  <2>1. IsSequence(Filled)
    BY DEF Packing, Packed, Cut, Tiles
  <2>2. pieces' \o <<>> = pieces'
    BY <1>1, <2>1, ConcatEmptySeq DEF IsSequence
  <2> QED
    BY <1>1, <2>1, <2>2 DEF Filled, Splitter!Rest
<1>3. Packed(atoms, nextAtom, Filled)'
  <2>1. Packed(atoms, nextAtom, Filled)
    BY DEF Packing
  <2> QED
    BY <1>1, <1>2, <2>1 DEF Packed, Cut, Greedy
<1>4. Natural(text, atoms)' /\ Cut(atoms, 1, Total(text, Len(text)))'
  BY <1>1 DEF Packing, Natural, Cut
<1>5. Packing'
  BY <1>1, <1>2, <1>3, <1>4 DEF Packing
<1>6. Cut(pieces', 1, Total(text, Len(text)))
  BY <1>1, PackingParts DEF Packing, Packed
<1> QED
  BY <1>1, <1>5, <1>6

\* Nothing is packed yet.
LEMMA NothingPacked ==
    ASSUME NEW a, NEW top, Cut(a, 1, top)
    PROVE  Packed(a, 1, <<>>)
<1>1. Tiles(<<>>, 1, 0)
  BY TilesNone
<1>2. Len(<<>>) = 0
  BY EmptyIsSequence
<1> QED
  BY <1>1, <1>2 DEF Packed, Cut, Greedy, EndBefore

\* Of a new section nothing is packed.
LEMMA BeginKeepsPacking ==
    ASSUME Packing, BeginSection, text' \in Seq(Splitter!Lines)
    PROVE  Packing'
<1>1. /\ atoms' = Splitter!AtomsForUnits(text') /\ bound' = bound /\ nextAtom' = 1 /\ filling' = <<>>
      /\ pieces' = <<>> /\ done' = FALSE
  BY DEF BeginSection
<1>2. bound \in Nat \ {0} /\ IsText(text')
  BY PackingParts, SplitterLinesAreText
<1>3. /\ Cut(atoms', 1, Total(text', Len(text'))) /\ Natural(text', atoms')
  BY <1>1, <1>2, AtomsCutText, AtomsAreNatural
<1>4. Packed(atoms', 1, <<>>)
  BY <1>3, NothingPacked
<1>5. Filled' = <<>> /\ IsSequence(pieces')
  BY <1>1, EmptyIsSequence, ConcatEmptySeq DEF Filled, Splitter!Rest
<1>6. Len(atoms') \in Nat
  BY <1>3, SequenceShape DEF Cut, Tiles
<1>7. nextAtom' \in 1..(Len(atoms') + 1)
  BY <1>1, <1>6
<1>8. Cut(atoms, 1, Total(text, Len(text)))' /\ Natural(text, atoms)'
  BY <1>1, <1>3 DEF Cut, Natural
<1>9. Packed(atoms, nextAtom, Filled)'
  BY <1>1, <1>4, <1>5 DEF Packed, Cut, Greedy
<1> QED
  BY <1>1, <1>5, <1>7, <1>8, <1>9 DEF Packing

----------------------------------------------------------------------------
(* Sections and the lines scanned.                                         *)

\* The section flushed is the next tile.
LEMMA FlushTiles ==
    ASSUME Sectioned, current # 0, sections' = Flushed
    PROVE  IsSequence(sections') /\ Tiles(SectionLines', 1, next - 1)
<1> DEFINE new == [path |-> Path, first |-> current, last |-> next - 1]
           n == Len(sections)
<1>1. /\ sections' = Append(sections, new) /\ IsSequence(sections)
      /\ new.first = current /\ new.last = next - 1
  BY DEF Sectioned, Flushed
<1> HIDE DEF new
<1>2. /\ n \in Nat /\ DOMAIN sections = 1..n
      /\ IsSequence(sections') /\ Len(sections') = n + 1
      /\ \A i \in 1..n : sections'[i] = sections[i]
      /\ sections'[n + 1] = new
  BY <1>1, Appended, SequenceShape
<1>3. DOMAIN sections' = 1..(n + 1)
  BY <1>2, SequenceShape
<1>4. /\ current \in Nat \ {0} /\ next \in Nat /\ current - 1 \in Nat /\ next - 1 \in Nat
      /\ (current - 1) + 1 = current /\ current <= next - 1
  BY DEF Sectioned
<1>5. Tiles(SectionLines, 1, current - 1)
  BY DEF Sectioned, CollectedTo
<1>6. Tiles(Append(SectionLines, <<(current - 1) + 1, next - 1>>), 1, next - 1)
  <2> DEFINE c == current - 1  d == next - 1
  <2>1. c \in Nat /\ d \in Nat /\ c + 1 <= d /\ Tiles(SectionLines, 1, c)
    BY <1>4, <1>5
  <2> HIDE DEF c, d
  <2>2. Tiles(Append(SectionLines, <<c + 1, d>>), 1, d)
    BY <2>1, TilesAppend
  <2> QED
    BY <2>2 DEF c, d
<1> HIDE DEF n
<1>7. IsSequence(SectionLines) /\ Len(SectionLines) = n
  <2>1. DOMAIN SectionLines = 1..n /\ SectionLines = [i \in 1..n |-> SectionLines[i]]
    BY <1>2 DEF SectionLines
  <2> QED
    BY <1>2, <2>1, FunctionIsSequence
<1>8. SectionLines' = Append(SectionLines, <<current, next - 1>>)
  <2> DEFINE x == <<current, next - 1>>
             w == Append(SectionLines, x)
  <2>0. IsSequence(w) /\ Len(w) = n + 1 /\ (\A i \in 1..n : w[i] = SectionLines[i]) /\ w[n + 1] = x
    <3> HIDE DEF x
    <3> QED
      BY <1>7, Appended
  <2>1. w = [i \in 1..(n + 1) |-> w[i]]
    <3>1. \A s : IsSequence(s) => s = [i \in 1..Len(s) |-> s[i]]
      BY DEF IsSequence
    <3> HIDE DEF w
    <3> QED
      BY <2>0, <3>1
  <2>2. SectionLines' = [i \in 1..(n + 1) |-> <<sections'[i].first, sections'[i].last>>]
    BY <1>3 DEF SectionLines
  <2>3. ASSUME NEW i \in 1..(n + 1) PROVE w[i] = <<sections'[i].first, sections'[i].last>>
    <3>1. CASE i = n + 1
      BY <1>1, <1>2, <2>0, <3>1
    <3>2. CASE i # n + 1
      <4>1. i \in 1..n
        BY <1>2, <3>2
      <4> HIDE DEF w
      <4> QED
        BY <1>2, <2>0, <4>1 DEF SectionLines
    <3> QED
      BY <3>1, <3>2
  <2> HIDE DEF w
  <2>4. SectionLines' = w
    BY <2>1, <2>2, <2>3
  <2> QED
    BY <2>4 DEF w
<1> QED
  BY <1>2, <1>4, <1>6, <1>8

\* Before the first line there is no section.
LEMMA InitSections ==
    ASSUME DocumentInit
    PROVE  Sectioned
<1>1. PICK n \in 0..MaxLines : lines \in [1..n -> Lines]
  BY DEF DocumentInit, Init
<1>2. lines \in Seq(Lines) /\ Len(lines) = n /\ n \in Nat
  <2> HIDE DEF Lines
  <2>1. n \in Nat
    BY SectionsAssumption
  <2> QED
    BY <1>1, <2>1
<1>3. /\ next = 1 /\ current = 0 /\ sections = <<>>
  BY DEF DocumentInit, Init
<1>4. ~Scanned /\ CollectedTo = 0
  BY <1>2, <1>3 DEF Scanned, CollectedTo
<1>5. SectionLines = <<>>
  BY <1>3 DEF SectionLines
<1>6. Tiles(SectionLines, 1, CollectedTo)
  BY <1>4, <1>5, TilesNone
<1> QED
  BY <1>2, <1>3, <1>4, <1>6, EmptyIsSequence DEF Sectioned

\* Every step of the scan extends the sections by the line it reads.
LEMMA ScanKeepsSections ==
    ASSUME Sectioned, ScanStep
    PROVE  Sectioned'
<1>1. /\ Len(lines) \in Nat /\ next \in 1..(Len(lines) + 2) /\ current \in Nat /\ current < next
      /\ lines \in Seq(Lines)
      /\ ~Scanned => (current = 0 <=> next = 1)
  <2>1. lines \in Seq(Lines) /\ IsSequence(lines)
    BY MemberIsSequence DEF Sectioned
  <2>2. Len(lines) \in Nat
    BY <2>1, SequenceShape
  <2> QED
    BY <2>1, <2>2 DEF Sectioned
<1>2. lines' = lines /\ next' = next + 1
  BY DEF ScanStep, ScanFenced, OpenFence, ScanText, StartSection, FinishScan
<1>3. CASE ScanFenced \/ OpenFence \/ ScanText
  <2>1. /\ next <= Len(lines) /\ sections' = sections
        /\ current' = IF current = 0 THEN next ELSE current
    BY <1>3 DEF ScanFenced, OpenFence, ScanText, Scanning, Collect
  <2>2. ~Scanned /\ ~Scanned'
    BY <1>1, <1>2, <2>1 DEF Scanned
  <2>3. SectionLines' = SectionLines
    BY <2>1 DEF SectionLines
  <2>4. CollectedTo' = CollectedTo
    BY <1>1, <1>2, <2>1, <2>2 DEF CollectedTo
  <2>5. /\ current' \in 0..Len(lines) /\ current' < next + 1 /\ current' # 0
        /\ next + 1 \in 1..(Len(lines) + 2)
    BY <1>1, <2>1
  <2> QED
    BY <1>1, <1>2, <2>1, <2>2, <2>3, <2>4, <2>5 DEF Sectioned
<1>4. CASE StartSection
  <2>1. next <= Len(lines) /\ sections' = Flushed /\ current' = next
    BY <1>4 DEF StartSection, Scanning
  <2>2. ~Scanned /\ ~Scanned'
    BY <1>1, <1>2, <2>1 DEF Scanned
  <2>3. CollectedTo' = next - 1
    BY <1>1, <2>1 DEF CollectedTo
  <2>4. IsSequence(sections') /\ Tiles(SectionLines', 1, next - 1)
    <3>1. CASE current # 0
      BY <2>1, <3>1, FlushTiles
    <3>2. CASE current = 0
      <4>1. sections' = sections /\ next - 1 = CollectedTo
        BY <1>1, <2>1, <2>2, <3>2 DEF Flushed, CollectedTo
      <4> QED
        BY <4>1 DEF Sectioned, SectionLines
    <3> QED
      BY <3>1, <3>2
  <2>5. /\ current' \in 0..Len(lines) /\ current' < next + 1 /\ current' # 0
        /\ next + 1 \in 1..(Len(lines) + 2)
    BY <1>1, <2>1
  <2> QED
    BY <1>1, <1>2, <2>2, <2>3, <2>4, <2>5 DEF Sectioned
<1>5. CASE FinishScan
  <2>1. next = Len(lines) + 1 /\ sections' = Flushed /\ current' = 0
    BY <1>5 DEF FinishScan
  <2>2. ~Scanned /\ Scanned'
    BY <1>1, <1>2, <2>1 DEF Scanned
  <2>3. CollectedTo' = next - 1 /\ next - 1 = Len(lines)
    BY <1>1, <1>2, <2>1, <2>2 DEF CollectedTo
  <2>4. IsSequence(sections') /\ Tiles(SectionLines', 1, next - 1)
    <3>1. CASE current # 0
      BY <2>1, <3>1, FlushTiles
    <3>2. CASE current = 0
      <4>1. sections' = sections /\ next - 1 = CollectedTo
        BY <1>1, <2>1, <2>2, <3>2 DEF Flushed, CollectedTo
      <4> QED
        BY <4>1 DEF Sectioned, SectionLines
    <3> QED
      BY <3>1, <3>2
  <2>5. current' \in 0..Len(lines) /\ current' < next + 1 /\ next + 1 \in 1..(Len(lines) + 2)
    BY <1>1, <2>1
  <2> QED
    BY <1>1, <1>2, <2>1, <2>2, <2>3, <2>4, <2>5 DEF Sectioned
<1> QED
  BY <1>3, <1>4, <1>5 DEF ScanStep

\* A plain text is one section.
LEMMA TakeWholeKeepsSections ==
    ASSUME Sectioned, TakeWhole
    PROVE  Sectioned'
<1>1. /\ next = 1 /\ sections' = Root /\ next' = Len(lines) + 2 /\ lines' = lines /\ current' = current
  BY DEF TakeWhole
<1>2. lines \in Seq(Lines) /\ Len(lines) \in Nat
  <2>1. lines \in Seq(Lines) /\ IsSequence(lines)
    BY MemberIsSequence DEF Sectioned
  <2> QED
    BY <2>1, SequenceShape
<1>3. ~Scanned /\ Scanned' /\ current = 0
  BY <1>1, <1>2 DEF Sectioned, Scanned
<1>4. CollectedTo' = Len(lines)
  BY <1>1, <1>3 DEF CollectedTo
<1>5. IsSequence(sections') /\ Tiles(SectionLines', 1, Len(lines))
  <2>1. CASE lines = <<>>
    <3>1. sections' = <<>> /\ SectionLines' = <<>> /\ Len(lines) = 0
      BY <1>1, <2>1, EmptyIsSequence DEF Root, SectionLines
    <3> QED
      BY <3>1, TilesNone, EmptyIsSequence
  <2>2. CASE lines # <<>>
    <3>1. Len(lines) # 0
      <4> HIDE DEF Lines
      <4> QED
        BY <1>2, <2>2, EmptySeq
    <3> DEFINE r == [path |-> <<>>, first |-> 1, last |-> Len(lines)]
    <3>2. sections' = <<r>> /\ r.first = 1 /\ r.last = Len(lines)
      BY <1>1, <2>2 DEF Root
    <3> HIDE DEF r
    <3>3. IsSequence(sections')
      <4>1. <<r>> \in Seq({r})
        OBVIOUS
      <4> QED
        BY <3>2, <4>1, MemberIsSequence
    <3>4. SectionLines' = <<<<1, Len(lines)>>>>
      BY <3>2 DEF SectionLines
    <3>5. Tiles(<<<<1, Len(lines)>>>>, 1, Len(lines))
      <4>1. 1 \in Nat /\ 1 <= Len(lines)
        BY <1>2, <3>1
      <4> QED
        BY <1>2, <4>1, TilesOne
    <3> QED
      BY <3>3, <3>4, <3>5
  <2> QED
    BY <2>1, <2>2
<1> QED
  BY <1>1, <1>2, <1>3, <1>4, <1>5 DEF Sectioned

----------------------------------------------------------------------------
(* Chunks and the characters cut.                                          *)

\* A section's lines.
LEMMA SectionWithin ==
    ASSUME Sectioned, NEW n \in DOMAIN sections
    PROVE  /\ Len(lines) \in Nat /\ n \in Nat \ {0}
           /\ sections[n].first \in Nat \ {0} /\ sections[n].last \in Nat
           /\ sections[n].first <= sections[n].last /\ sections[n].last <= Len(lines)
           /\ sections[n].last <= CollectedTo /\ CollectedTo \in Nat
           /\ sections[n].first = IF n = 1 THEN 1 ELSE sections[n - 1].last + 1
<1>1. Len(lines) \in Nat /\ IsSequence(sections) /\ DOMAIN sections = 1..Len(sections)
      /\ Len(sections) \in Nat
  BY LineSizesAreText, SequenceShape DEF Sectioned
<1>2. CollectedTo \in Nat /\ CollectedTo <= Len(lines)
  BY <1>1 DEF Sectioned, CollectedTo
<1>3. IsSequence(SectionLines) /\ Len(SectionLines) = Len(sections)
  <2>1. DOMAIN SectionLines = 1..Len(sections)
        /\ SectionLines = [i \in 1..Len(sections) |-> SectionLines[i]]
    BY <1>1 DEF SectionLines
  <2> QED
    BY <1>1, <2>1, FunctionIsSequence
<1>4. Tiles(SectionLines, 1, CollectedTo)
  BY DEF Sectioned
<1>5. \A i \in 1..Len(SectionLines) :
         1 <= SectionLines[i][1] /\ SectionLines[i][1] <= SectionLines[i][2]
         /\ SectionLines[i][2] <= CollectedTo
  <2>1. 1 \in Nat
    OBVIOUS
  <2> QED
    BY <1>2, <1>4, <2>1, TilesWithin
<1>6. SectionLines[n] \in Intervals
      /\ SectionLines[n][1] = IF n = 1 THEN 1 ELSE SectionLines[n - 1][2] + 1
  BY <1>1, <1>3, <1>4 DEF Tiles
<1>7. SectionLines[n][1] = sections[n].first /\ SectionLines[n][2] = sections[n].last
  BY DEF SectionLines
<1>8. SectionLines[n][1] \in Nat /\ SectionLines[n][2] \in Nat
  BY <1>6, IntervalParts
<1>9. n # 1 => SectionLines[n - 1][2] = sections[n - 1].last
  <2>1. n # 1 => n - 1 \in DOMAIN sections
    BY <1>1
  <2> QED
    BY <2>1 DEF SectionLines
<1>10. n \in 1..Len(SectionLines)
  BY <1>1, <1>3
<1>11. 1 <= SectionLines[n][1] /\ SectionLines[n][1] <= SectionLines[n][2]
         /\ SectionLines[n][2] <= CollectedTo
  BY <1>5, <1>10
<1>12. n \in Nat \ {0}
  BY <1>1
<1> QED
  BY <1>1, <1>2, <1>6, <1>7, <1>8, <1>9, <1>11, <1>12

\* The text of a section can be cut.
LEMMA SectionText ==
    ASSUME Sectioned, NEW n \in DOMAIN sections
    PROVE  /\ SubSeq(LineSizes, sections[n].first, sections[n].last) \in Seq(Splitter!Lines)
           /\ Total(LineSizes, sections[n].first - 1) \in Nat
           /\ Total(LineSizes, sections[n].first - 1)
                + Total(SubSeq(LineSizes, sections[n].first, sections[n].last),
                        Len(SubSeq(LineSizes, sections[n].first, sections[n].last)))
              = Total(LineSizes, sections[n].last)
<1> DEFINE a == sections[n].first  b == sections[n].last  s == SubSeq(LineSizes, a, b)
<1>1. /\ a \in Nat \ {0} /\ b \in Nat /\ a <= b + 1 /\ b <= Len(lines) /\ Len(lines) \in Nat
  BY SectionWithin
<1>2. /\ LineSizes \in Seq(Splitter!Lines) /\ Len(LineSizes) = Len(lines)
  BY LineSizesAreText DEF Sectioned
<1>3. IsText(LineSizes)
  BY <1>2, SplitterLinesAreText
<1> HIDE DEF a, b
<1>4. s \in Seq(Splitter!Lines)
  BY <1>1, <1>2, SubTexts
<1>5. IsText(s)
  BY <1>4, SplitterLinesAreText
<1>6. Total(LineSizes, a - 1) + Total(s, b - a + 1) = Total(LineSizes, b)
  BY <1>1, <1>2, <1>3, <1>5, TotalOfPart
<1>7. Len(s) = b - a + 1
  BY <1>1, <1>2, <1>3, SubSequence DEF IsText
<1>8. Total(LineSizes, a - 1) \in Nat
  <2>1. a - 1 \in 0..Len(LineSizes)
    BY <1>1, <1>2
  <2> QED
    BY <1>3, <2>1, Totals
<1> QED
  BY <1>4, <1>6, <1>7, <1>8 DEF a, b

\* What is covered when section n is next.
LEMMA CoveredBefore ==
    ASSUME Sectioned, NEW n \in DOMAIN sections, Finished = n - 1
    PROVE  Covered = Total(LineSizes, sections[n].first - 1)
<1>1. /\ n \in Nat \ {0}
      /\ sections[n].first = IF n = 1 THEN 1 ELSE sections[n - 1].last + 1
  BY SectionWithin
<1>2. CASE n = 1
  <2>1. Total(LineSizes, 0) = 0
    <3>1. IsText(LineSizes)
      BY LineSizesAreText, SplitterLinesAreText DEF Sectioned
    <3> QED
      BY <3>1, Totals
  <2>2. Finished = 0 /\ sections[n].first - 1 = 0
    BY <1>1, <1>2
  <2> QED
    BY <2>1, <2>2 DEF Covered
<1>3. CASE n # 1
  <2>1. Finished # 0 /\ Finished = n - 1
    BY <1>1, <1>3
  <2>2. n - 1 \in DOMAIN sections
    <3>1. IsSequence(sections)
      BY DEF Sectioned
    <3> QED
      BY <1>1, <1>3, <3>1, SequenceShape
  <2>3. sections[n - 1].last \in Nat
    BY <2>2, SectionWithin
  <2>4. sections[n].first - 1 = sections[n - 1].last
    BY <1>1, <1>3, <2>3
  <2> QED
    BY <2>1, <2>4 DEF Covered
<1> QED
  BY <1>2, <1>3

\* Before the first line nothing is cut.
LEMMA InitCuts ==
    ASSUME DocumentInit
    PROVE  Cutting
<1>1. Sectioned
  BY InitSections
<1>2. /\ bound \in Bounds /\ text = <<>> /\ atoms = <<>> /\ nextAtom = 1 /\ filling = <<>>
      /\ pieces = <<>> /\ done = TRUE /\ chunks = <<>> /\ numbered = <<>>
  BY DEF DocumentInit, Init
<1>3. Len(<<>>) = 0 /\ IsSequence(<<>>)
  BY EmptyIsSequence
<1>4. IsText(text)
  BY <1>2, <1>3 DEF IsText
<1>5. Total(text, Len(text)) = 0
  BY <1>2, <1>3, <1>4, Totals
<1>6. Tiles(<<>>, 1, 0)
  BY TilesNone
<1>7. Cut(atoms, 1, Total(text, Len(text)))
  BY <1>2, <1>3, <1>5, <1>6 DEF Cut
<1>8. Natural(text, atoms)
  <2>1. 1..Len(text) = {}
    BY <1>2, <1>3
  <2> QED
    BY <2>1 DEF Natural
<1>9. Filled = <<>>
  BY <1>2, EmptyIsSequence, ConcatEmptySeq DEF Filled, Splitter!Rest
<1>10. Packed(atoms, nextAtom, Filled)
  <2>1. Packed(atoms, 1, <<>>)
    BY <1>7, NothingPacked
  <2> QED
    BY <1>2, <1>9, <2>1
<1>11. text \in Seq(Splitter!Lines)
  <2> HIDE DEF Splitter!Lines
  <2> QED
    BY <1>2
<1>12. Packing
  <2>1. nextAtom \in 1..(Len(atoms) + 1) /\ nextAtom = Len(atoms) + 1
    BY <1>2, <1>3
  <2> QED
    BY <1>2, <1>3, <1>7, <1>8, <1>10, <1>11, <2>1 DEF Packing
<1>13. Placement
  <2>1. Finished = 0 /\ Covered = 0
    BY <1>2, <1>3 DEF Finished, Covered
  <2>2. Places = <<>> /\ DOMAIN chunks = {}
    BY <1>2 DEF Places
  <2> QED
    BY <1>2, <1>3, <1>6, <2>1, <2>2 DEF Placement
<1> QED
  BY <1>1, <1>12, <1>13 DEF Cutting

\* Packing depends on nothing else.
LEMMA PackingStays ==
    ASSUME Packing, UNCHANGED <<bound, splitVars>>
    PROVE  Packing'
<1>1. UNCHANGED <<bound, text, atoms, nextAtom, filling, pieces, done>>
  BY DEF splitVars
<1>2. Filled' = Filled
  BY <1>1 DEF Filled, Splitter!Rest
<1>3. Cut(atoms, 1, Total(text, Len(text)))'
  BY <1>1 DEF Packing, Cut
<1>4. Natural(text, atoms)'
  BY <1>1 DEF Packing, Natural
<1>5. Packed(atoms, nextAtom, Filled)'
  BY <1>1, <1>2 DEF Packing, Packed, Cut, Greedy
<1> QED
  BY <1>1, <1>3, <1>4, <1>5 DEF Packing

\* The places of chunks change with the lines, the sections and the chunks.
LEMMA PlacementStays ==
    ASSUME Placement, UNCHANGED <<lines, sections, numbered, chunks, bound, done, text>>
    PROVE  Placement'
<1>1. LineSizes' = LineSizes /\ Section' = Section
  BY DEF LineSizes, Section
<1>3. Finished' = Finished /\ Covered' = Covered
  BY <1>1 DEF Finished, Covered
<1>4. Places' = Places
  BY <1>1 DEF Places
<1> QED
  BY <1>1, <1>3, <1>4 DEF Placement

\* The scanner moves before there is a chunk.
LEMMA NoChunksPlaced ==
    ASSUME Placement, numbered = <<>>, done, chunks = <<>>, UNCHANGED <<numbered, chunks, done>>
    PROVE  Placement'
<1>1. Len(<<>>) = 0 /\ IsSequence(<<>>)
  BY EmptyIsSequence
<1>2. Finished' = 0 /\ Covered' = 0
  BY <1>1 DEF Finished, Covered
<1>3. Places' = <<>> /\ DOMAIN chunks' = {}
  BY DEF Places
<1>4. Tiles(<<>>, 1, 0)
  BY TilesNone
<1> QED
  BY <1>1, <1>2, <1>3, <1>4 DEF Placement

\* Nothing is cut while lines are scanned.
LEMMA NothingChunked ==
    ASSUME ChunkingInvariant, ~Scanned
    PROVE  numbered = <<>> /\ done /\ chunks = <<>>
<1>1. numbered = <<>> /\ counts = <<>>
  BY DEF ChunkingInvariant, Numbering
<1>2. done
  BY <1>1 DEF ChunkingInvariant, Identities
<1>3. IsSequence(chunks) /\ DOMAIN chunks = {}
  <2>1. DOMAIN numbered = {}
    BY <1>1
  <2> QED
    BY <2>1 DEF ChunkingInvariant, Identities, Cursors
<1>4. chunks = <<>>
  BY <1>3, SequenceShape DEF IsSequence
<1> QED
  BY <1>1, <1>2, <1>4

\* A step of the scan cuts nothing.
LEMMA ScanKeepsCutting ==
    ASSUME ChunkingInvariant, Cutting, ScanMarkdown \/ TakeWhole
    PROVE  Cutting'
<1>1. UNCHANGED <<format, bound, splitVars, chunks>> /\ numbered' = numbered
  BY DEF ScanMarkdown, TakeWhole, splitUnchanged, ScanStep, ScanFenced, OpenFence, ScanText,
     StartSection, FinishScan
<1>2. ~Scanned
  <2>1. Len(lines) \in Nat
    BY SequenceShape DEF ChunkingInvariant, Cursors
  <2>2. TakeWhole => next = 1
    BY DEF TakeWhole
  <2> QED
    BY <2>1, <2>2, ScanStepMoves DEF Scanned
<1>3. numbered = <<>> /\ done /\ chunks = <<>>
  BY <1>2, NothingChunked
<1>4. Packing'
  BY <1>1, PackingStays DEF Cutting
<1>5. Sectioned'
  BY ScanKeepsSections, TakeWholeKeepsSections DEF ScanMarkdown, Cutting
<1>6. Placement'
  BY <1>1, <1>3, NoChunksPlaced DEF Cutting, splitVars
<1> QED
  BY <1>4, <1>5, <1>6 DEF Cutting

\* Sections stay while they are cut.
LEMMA SectionedStays ==
    ASSUME Sectioned, UNCHANGED <<lines, next, current, sections>>
    PROVE  Sectioned'
BY DEF Sectioned, SectionLines, CollectedTo, Scanned

\* Beginning a section places no chunk.
LEMMA BeginKeepsCutting ==
    ASSUME ChunkingInvariant, Cutting, BeginSection
    PROVE  Cutting'
<1> DEFINE n == Len(numbered) + 1
           s == SubSeq(LineSizes, sections[n].first, sections[n].last)
<1>1. /\ done /\ done' = FALSE /\ text' = s
      /\ UNCHANGED <<lines, next, current, sections, chunks, bound>>
      /\ numbered' = Append(numbered, Occurrence(OccurrenceKey(sections[n].path)))
      /\ n - 1 < Len(sections)
  BY DEF BeginSection, NumberSection
<1>2. /\ IsSequence(numbered) /\ Len(numbered) \in Nat
      /\ IsSequence(sections) /\ DOMAIN sections = 1..Len(sections) /\ Len(sections) \in Nat
  BY SequenceShape DEF ChunkingInvariant, Cursors
<1>3. Len(numbered') = n /\ n \in DOMAIN sections
  BY <1>1, <1>2, Appended
<1>4. Sectioned'
  BY <1>1, SectionedStays DEF Cutting
<1>5. text' \in Seq(Splitter!Lines)
  BY <1>1, <1>3, SectionText DEF Cutting
<1>6. Packing'
  BY <1>5, BeginKeepsPacking DEF Cutting
<1> HIDE DEF n
<1>7. LineSizes' = LineSizes /\ Section' = sections[n]
  BY <1>1, <1>3 DEF LineSizes, Section
<1>9. Finished' = Finished
  BY <1>1, <1>2, <1>3 DEF Finished, n
<1>10. Covered' = Covered
  BY <1>1, <1>7, <1>9 DEF Covered
<1>11. Places' = Places
  BY <1>1, <1>7 DEF Places
<1>12. Placement'
  BY <1>1, <1>7, <1>10, <1>11 DEF Cutting, Placement
<1> QED
  BY <1>4, <1>6, <1>12 DEF Cutting

\* The chunks of the section finished follow those of the sections before it.
LEMMA FinishKeepsPlacement ==
    ASSUME ChunkingInvariant, Cutting, FinishSection
    PROVE  Placement'
<1> DEFINE built == [i \in DOMAIN pieces' |-> Chunk(i)]
           m == Len(pieces')
           n == Len(numbered)
           d == Total(LineSizes, sections[n].first - 1)
           h == Total(text, Len(text))
           moved == [i \in 1..m |-> <<d + pieces'[i][1], d + pieces'[i][2]>>]
<1>1. /\ ~done /\ done' = TRUE /\ UNCHANGED <<lines, sections, numbered, text, bound>>
      /\ chunks' = chunks \o built
  BY DEF FinishSection, Splitter!Finish, vars
<1>2. Cut(pieces', 1, h) /\ IsSequence(pieces')
  <2>1. Cut(pieces', 1, h)
    BY FinishKeepsPacking DEF Cutting
  <2> QED
    BY <2>1 DEF Cut, Tiles
<1>3. m \in Nat /\ DOMAIN pieces' = 1..m
  BY <1>2, SequenceShape
<1>4. /\ n \in Nat \ {0} /\ n \in DOMAIN sections
  <2>1. IsSequence(numbered) /\ numbered # <<>> /\ Len(numbered) <= Len(sections) /\ IsSequence(sections)
    BY <1>1 DEF ChunkingInvariant, Cursors, Identities, Numbering
  <2>2. Len(numbered) # 0
    BY <2>1 DEF IsSequence
  <2> QED
    BY <2>1, <2>2, SequenceShape
<1>5. Sectioned /\ Placement
  BY DEF Cutting
<1>6. /\ d \in Nat /\ d + h = Total(LineSizes, sections[n].last) /\ h \in Nat
  <2>1. text = SubSeq(LineSizes, sections[n].first, sections[n].last)
    BY <1>1, <1>5 DEF Placement, Section
  <2>2. h \in Nat
    BY PackingParts DEF Cutting
  <2> QED
    BY <1>4, <1>5, <2>1, <2>2, SectionText
<1>7. Covered = d
  <2>1. Finished = n - 1
    BY <1>1 DEF Finished
  <2> QED
    BY <1>4, <1>5, <2>1, CoveredBefore
<1>8. LineSizes' = LineSizes
  BY <1>1 DEF LineSizes
<1>9. Covered' = d + h
  <2>1. Finished' = n
    BY <1>1 DEF Finished
  <2> QED
    BY <1>1, <1>4, <1>6, <1>8, <2>1 DEF Covered
<1>10. IsSequence(built) /\ Len(built) = m
  <2>1. DOMAIN built = 1..m /\ built = [i \in 1..m |-> built[i]]
    BY <1>3
  <2> HIDE DEF built, m
  <2> QED
    BY <1>3, <2>1, FunctionIsSequence
<1>11. \A i \in 1..m : built[i].piece = pieces'[i] /\ built[i].section = n
                       /\ built[i].ordinalInSection = i - 1
  BY <1>3 DEF Chunk
<1>12. Tiles(moved, d + 1, d + h)
  <2>1. Tiles(pieces', 1, h)
    BY <1>2 DEF Cut
  <2> HIDE DEF d, h
  <2> QED
    BY <1>6, <2>1, TilesShift
<1> HIDE DEF built, d, h
<1>13. IsSequence(moved) /\ Len(moved) = m
  <2>1. DOMAIN moved = 1..m /\ moved = [i \in 1..m |-> moved[i]]
    OBVIOUS
  <2> HIDE DEF moved, m
  <2> QED
    BY <1>3, <2>1, FunctionIsSequence
<1> DEFINE k == Len(chunks)
<1>14. /\ IsSequence(chunks') /\ Len(chunks') = k + m /\ k \in Nat /\ DOMAIN chunks = 1..k
       /\ \A i \in 1..k : chunks'[i] = chunks[i]
       /\ \A i \in 1..m : chunks'[k + i] = built[i]
  <2>1. IsSequence(chunks)
    BY <1>5 DEF Placement
  <2>2. /\ IsSequence(chunks \o built) /\ Len(chunks \o built) = k + m
        /\ \A i \in 1..k : (chunks \o built)[i] = chunks[i]
        /\ \A i \in 1..m : (chunks \o built)[k + i] = built[i]
    BY <1>10, <2>1, Concatenated
  <2>3. k \in Nat /\ DOMAIN chunks = 1..k
    BY <2>1, SequenceShape
  <2> QED
    BY <1>1, <2>2, <2>3
<1>15. DOMAIN chunks' = 1..(k + m)
  BY <1>14, SequenceShape
<1>16. /\ IsSequence(Places) /\ Len(Places) = k
       /\ \A i \in 1..k :
             Places[i] = Moved(LineSizes, sections[chunks[i].section], chunks[i].piece)
  <2>1. DOMAIN Places = 1..k /\ Places = [i \in 1..k |-> Places[i]]
    BY <1>14 DEF Places
  <2>2. \A i \in 1..k : Places[i] = Moved(LineSizes, sections[chunks[i].section], chunks[i].piece)
    BY <1>14 DEF Places
  <2> HIDE DEF k
  <2> QED
    BY <1>14, <2>1, <2>2, FunctionIsSequence
<1> HIDE DEF m, k
<1>17. \A i \in 1..m : moved[i] = <<d + pieces'[i][1], d + pieces'[i][2]>>
  OBVIOUS
<1> HIDE DEF moved
<1>18. Places' = Places \o moved
  <2> DEFINE w == Places \o moved
  <2>1. /\ IsSequence(w) /\ Len(w) = k + m
        /\ \A i \in 1..k : w[i] = Places[i]
        /\ \A i \in 1..m : w[k + i] = moved[i]
    BY <1>13, <1>16, Concatenated
  <2>2. w = [i \in 1..(k + m) |-> w[i]]
    <3>1. \A s : IsSequence(s) => s = [i \in 1..Len(s) |-> s[i]]
      BY DEF IsSequence
    <3> HIDE DEF w
    <3> QED
      BY <2>1, <3>1
  <2>3. Places' = [i \in 1..(k + m) |-> Moved(LineSizes, sections[chunks'[i].section], chunks'[i].piece)]
    BY <1>1, <1>8, <1>15 DEF Places
  <2> HIDE DEF w
  <2>4. ASSUME NEW i \in 1..(k + m)
        PROVE  w[i] = Moved(LineSizes, sections[chunks'[i].section], chunks'[i].piece)
    <3>1. CASE i \in 1..k
      BY <1>14, <1>16, <2>1, <3>1
    <3>2. CASE i \notin 1..k
      <4> DEFINE j == i - k
      <4>1. j \in 1..m /\ i = k + j
        BY <1>3, <1>14, <3>2
      <4> HIDE DEF j
      <4>2. chunks'[i] = built[j] /\ w[i] = <<d + pieces'[j][1], d + pieces'[j][2]>>
        BY <1>14, <1>17, <2>1, <4>1
      <4>3. chunks'[i].piece = pieces'[j] /\ chunks'[i].section = n
        BY <1>11, <4>1, <4>2
      <4> QED
        BY <4>2, <4>3 DEF Moved, d
    <3> QED
      BY <3>1, <3>2
  <2> QED
    BY <2>2, <2>3, <2>4 DEF w
<1>19. Tiles(Places', 1, d + h)
  <2>1. Tiles(Places, 1, d)
    BY <1>5, <1>7 DEF Placement
  <2>2. d + h \in Nat /\ 1 \in Nat
    BY <1>6
  <2> QED
    BY <1>6, <1>12, <1>18, <2>1, <2>2, TilesJoin
<1>20. ASSUME NEW i \in DOMAIN chunks'
       PROVE  /\ chunks'[i].piece \in Intervals
              /\ Splitter!Size(chunks'[i].piece) <= bound
              /\ chunks'[i].ordinalInSection \in Nat
  <2>1. CASE i \in 1..k
    BY <1>5, <1>14, <2>1 DEF Placement
  <2>2. CASE i \notin 1..k
    <3> DEFINE j == i - k
    <3>1. j \in 1..m /\ i = k + j
      BY <1>3, <1>14, <1>15, <2>2
    <3> HIDE DEF j
    <3>2. chunks'[i] = built[j]
      BY <1>14, <3>1
    <3>3. pieces'[j] \in Intervals /\ Splitter!Size(pieces'[j]) <= bound /\ j - 1 \in Nat
      BY <1>2, <1>3, <3>1 DEF Cut, Tiles, m
    <3> QED
      BY <1>11, <3>1, <3>2, <3>3
  <2> QED
    BY <2>1, <2>2
<1> QED
  BY <1>1, <1>9, <1>14, <1>19, <1>20 DEF Placement

\* Every step keeps the invariant of the cut.
LEMMA CuttingNextKeeps ==
    ChunkingInvariant /\ Cutting /\ [DocumentNext]_documentVars => Cutting'
<1> SUFFICES ASSUME ChunkingInvariant, Cutting, [DocumentNext]_documentVars
             PROVE  Cutting'
  OBVIOUS
<1>1. CASE UNCHANGED documentVars
  <2>1. UNCHANGED <<vars, bound, splitVars, chunks>>
    BY <1>1 DEF documentVars
  <2>2. Packing'
    BY <2>1, PackingStays DEF Cutting
  <2>3. Sectioned'
    BY <2>1, SectionedStays DEF Cutting, vars
  <2>4. Placement'
    BY <2>1, PlacementStays DEF Cutting, vars, splitVars
  <2> QED
    BY <2>2, <2>3, <2>4 DEF Cutting
<1>2. CASE ScanMarkdown \/ TakeWhole
  BY <1>2, ScanKeepsCutting
<1>3. CASE BeginSection
  BY <1>3, BeginKeepsCutting
<1>4. CASE PackAtom
  <2>1. UNCHANGED <<vars, bound, text, done, chunks>>
    BY <1>4 DEF PackAtom, Splitter!Pack, Splitter!Flush
  <2>2. Sectioned'
    BY <2>1, SectionedStays DEF Cutting, vars
  <2>3. Placement'
    BY <2>1, PlacementStays DEF Cutting, vars
  <2> QED
    BY <1>4, <2>2, <2>3, PackKeeps DEF Cutting
<1>5. CASE FinishSection
  <2>1. UNCHANGED vars
    BY <1>5 DEF FinishSection
  <2>2. Sectioned'
    BY <2>1, SectionedStays DEF Cutting, vars
  <2> QED
    BY <1>5, <2>2, FinishKeepsPlacement, FinishKeepsPacking DEF Cutting
<1> QED
  BY <1>1, <1>2, <1>3, <1>4, <1>5 DEF DocumentNext

\* Every state satisfies the invariant of the cut.
THEOREM CuttingInvariance == DocumentSpec => []Cutting
<1>1. DocumentInit => Cutting
  BY InitCuts
<1> QED
  BY <1>1, CuttingNextKeeps, ChunkingInvariance, PTL DEF DocumentSpec

----------------------------------------------------------------------------
(* The cut: its theorems.                                                  *)

\* A finished section is cut greedily, and no atom of it is split.
LEMMA AllPacked ==
    ASSUME Packing, done
    PROVE  /\ Filled = pieces /\ Cut(pieces, 1, Total(text, Len(text))) /\ Greedy(pieces)
           /\ \A k \in 1..Len(atoms) : Whole(atoms[k], pieces)
<1>1. Filled = pieces /\ EndBefore(atoms, Len(atoms) + 1) = Total(text, Len(text))
      /\ Len(atoms) \in Nat
  BY PackingParts DEF Packing
<1>2. Packed(atoms, Len(atoms) + 1, pieces)
  BY <1>1 DEF Packing
<1>3. (Len(atoms) + 1) - 1 = Len(atoms)
  BY <1>1
<1> QED
  BY <1>1, <1>2, <1>3 DEF Packed

\* In every section no two neighbouring chunks could have been one,
\* whatever its lines are.
THEOREM SectionsCutGreedily == DocumentSpec => []ChunksAreGreedy
<1>1. ASSUME Cutting PROVE ChunksAreGreedy
  <2>1. done => Greedy(pieces)
    BY <1>1, AllPacked DEF Cutting
  <2> QED
    BY <2>1 DEF ChunksAreGreedy, Splitter!ChunksAreGreedy, Greedy
<1> QED
  BY <1>1, CuttingInvariance, PTL

\* In every section a paragraph that fits in a chunk with the blank lines
\* after it is never cut, nor is a line that fits.
THEOREM NaturalPiecesWhole == DocumentSpec => []NaturalPiecesStayWhole
<1>1. ASSUME Cutting PROVE NaturalPiecesStayWhole
  <2> SUFFICES ASSUME done PROVE Splitter!NaturalPiecesStayWhole
    BY DEF NaturalPiecesStayWhole, Splitter!NaturalPiecesStayWhole
  <2> DEFINE top == Total(text, Len(text))
  <2>1. /\ Packing /\ IsText(text) /\ top \in Nat
        /\ Cut(atoms, 1, top) /\ Natural(text, atoms)
    BY <1>1, PackingParts DEF Cutting, Packing
  <2>2. /\ Cut(pieces, 1, top) /\ \A k \in 1..Len(atoms) : Whole(atoms[k], pieces)
    BY <1>1, AllPacked DEF Cutting
  <2> HIDE DEF top
  <2>3. Natural(text, pieces)
    BY <2>1, <2>2, NaturalStays
  <2>4. DOMAIN text = 1..Len(text) /\ DOMAIN pieces = 1..Len(pieces)
    BY <2>1, <2>2, SequenceShape, Totals DEF Cut, Tiles
  <2>5. \A i, j : Splitter!IsParagraph(i, j) <=> Paragraph(text, i, j)
    BY DEF Splitter!IsParagraph, Paragraph
  <2>6. \A j : Splitter!BlankEnd(j) = BlankEnd(text, j)
    BY DEF Splitter!BlankEnd, BlankEnd
  <2> QED
    BY <2>3, <2>4, <2>5, <2>6 DEF Natural, Whole, Splitter!NaturalPiecesStayWhole
<1> QED
  BY <1>1, CuttingInvariance, PTL

\* Places in the document, in the property and here.
LEMMA PlacesShape ==
    ASSUME Placement
    PROVE  /\ IsSequence(Places) /\ Len(Places) = Len(chunks) /\ Len(chunks) \in Nat
           /\ DOMAIN chunks = 1..Len(chunks)
           /\ \A i \in 1..Len(chunks) :
                 /\ Places[i] = Moved(LineSizes, sections[chunks[i].section], chunks[i].piece)
                 /\ Places[i] = Place(chunks[i])
<1>1. IsSequence(chunks) /\ IsSequence(Places)
  BY DEF Placement, Tiles
<1>2. Len(chunks) \in Nat /\ DOMAIN chunks = 1..Len(chunks)
  BY <1>1, SequenceShape
<1>3. \A i \in 1..Len(chunks) :
         Places[i] = Moved(LineSizes, sections[chunks[i].section], chunks[i].piece)
  BY <1>2 DEF Places
<1>4. \A i \in 1..Len(chunks) : Places[i] = Place(chunks[i])
  BY <1>3, BeforeIsTotal DEF Moved, Place
<1>5. Len(Places) = Len(chunks)
  <2>1. DOMAIN Places = 1..Len(chunks) /\ Places = [i \in 1..Len(chunks) |-> Places[i]]
    BY <1>2 DEF Places
  <2> QED
    BY <1>2, <2>1, FunctionIsSequence
<1> QED
  BY <1>1, <1>2, <1>3, <1>4, <1>5

\* What is covered when everything is cut: the whole text.
LEMMA AllCovered ==
    ASSUME Cutting, Built
    PROVE  Covered = Total(LineSizes, Len(lines)) /\ Covered \in Nat /\ (lines # <<>> => Covered # 0)
           /\ Len(lines) \in Nat
<1>1. /\ Sectioned /\ Scanned /\ Finished = Len(sections) /\ CollectedTo = Len(lines)
      /\ IsSequence(sections) /\ Len(sections) \in Nat /\ DOMAIN sections = 1..Len(sections)
  BY SequenceShape DEF Cutting, Built, Sectioned, Finished, CollectedTo
<1>2. /\ LineSizes \in Seq(Splitter!Lines) /\ Len(LineSizes) = Len(lines) /\ Len(lines) \in Nat
  BY <1>1, LineSizesAreText DEF Sectioned
<1>3. IsText(LineSizes)
  BY <1>2, SplitterLinesAreText
<1>4. Tiles(SectionLines, 1, Len(lines))
  BY <1>1 DEF Sectioned
<1>5. Len(SectionLines) = Len(sections)
  <2>1. DOMAIN SectionLines = 1..Len(sections)
        /\ SectionLines = [i \in 1..Len(sections) |-> SectionLines[i]]
    BY <1>1 DEF SectionLines
  <2> QED
    BY <1>1, <2>1, FunctionIsSequence
<1>6. CASE Len(sections) = 0
  <2>1. Len(lines) = 0
    BY <1>2, <1>4, <1>5, <1>6 DEF Tiles
  <2>2. Covered = 0 /\ Total(LineSizes, 0) = 0
    BY <1>1, <1>3, <1>6, Totals DEF Covered
  <2>3. lines = <<>>
    <3>1. IsSequence(lines)
      BY <1>1, MemberIsSequence DEF Sectioned
    <3> QED
      BY <2>1, <3>1, EmptySeq DEF IsSequence
  <2> QED
    BY <1>2, <2>1, <2>2, <2>3
<1>7. CASE Len(sections) # 0
  <2> DEFINE n == Len(sections)
  <2>1. n \in DOMAIN sections
    BY <1>1, <1>7
  <2>2. sections[n].last = Len(lines)
    <3>1. SectionLines[n][2] = Len(lines)
      BY <1>4, <1>5, <1>7 DEF Tiles
    <3> QED
      BY <2>1, <3>1 DEF SectionLines
  <2>3. Covered = Total(LineSizes, Len(lines))
    BY <1>1, <1>7, <2>2 DEF Covered
  <2>4. Len(lines) # 0
    BY <1>1, <2>1, <2>2, SectionWithin
  <2>5. Total(LineSizes, 0) < Total(LineSizes, Len(lines)) /\ Total(LineSizes, 0) = 0
        /\ Total(LineSizes, Len(lines)) \in Nat
    <3>1. 0 \in 0..Len(LineSizes) /\ Len(lines) \in 0..Len(LineSizes) /\ 0 < Len(lines)
      BY <1>2, <2>4
    <3>2. 0 <= Len(lines)
      BY <1>2
    <3> QED
      BY <1>3, <3>1, <3>2, Totals, TotalsGrow
  <2> QED
    BY <1>2, <2>3, <2>5
<1> QED
  BY <1>6, <1>7

\* The chunks by ordinal partition the text of the document, and none is
\* empty or over the bound: nothing is dropped, repeated or rewritten.
THEOREM ChunksPartition == DocumentSpec => []ChunksPartitionDocument
<1>1. ASSUME ChunkingInvariant, Cutting PROVE ChunksPartitionDocument
  <2> SUFFICES ASSUME Built PROVE ChunksPartitionDocument
    BY DEF ChunksPartitionDocument
  <2> DEFINE k == Len(chunks)
  <2>1. Placement /\ Sectioned
    BY <1>1 DEF Cutting
  <2>2. /\ Len(Places) = k /\ k \in Nat /\ DOMAIN chunks = 1..k
        /\ \A i \in 1..k :
              /\ Places[i] = Moved(LineSizes, sections[chunks[i].section], chunks[i].piece)
              /\ Places[i] = Place(chunks[i])
    BY <2>1, PlacesShape
  <2>3. /\ Covered = Total(LineSizes, Len(lines)) /\ Covered \in Nat
        /\ (lines # <<>> => Covered # 0) /\ Len(lines) \in Nat
    BY <1>1, AllCovered
  <2>4. Tiles(Places, 1, Covered)
    BY <2>1 DEF Placement
  <2> HIDE DEF k
  <2>5. ASSUME NEW i \in DOMAIN chunks
        PROVE  /\ chunks[i].ordinal = i - 1
               /\ Splitter!Size(chunks[i].piece) \in 1..bound
               /\ Place(chunks[i])[1] = IF i = 1 THEN 1 ELSE Place(chunks[i - 1])[2] + 1
    <3>1. chunks[i].ordinal = i - 1 /\ chunks[i].section \in DOMAIN sections
      <4>1. chunks[i].section \in DOMAIN numbered /\ chunks[i].ordinal = i - 1
            /\ IsSequence(numbered) /\ IsSequence(sections)
        BY <1>1 DEF ChunkingInvariant, Identities, Cursors
      <4>2. DOMAIN numbered = 1..Len(numbered) /\ DOMAIN sections = 1..Len(sections)
        BY <4>1, SequenceShape
      <4> QED
        BY <4>1, <4>2 DEF Built
    <3>2. /\ Places[i][1] <= Places[i][2]
          /\ Places[i][1] = IF i = 1 THEN 1 ELSE Places[i - 1][2] + 1
          /\ Places[i] = Place(chunks[i])
      BY <2>2, <2>4 DEF Tiles
    <3>3. i # 1 => Places[i - 1] = Place(chunks[i - 1])
      <4>1. i # 1 => i - 1 \in 1..k
        BY <2>2
      <4> QED
        BY <2>2, <4>1
    <3>4. Splitter!Size(chunks[i].piece) \in 1..bound
      <4> DEFINE p == chunks[i].piece  d == Total(LineSizes, sections[chunks[i].section].first - 1)
      <4>1. p \in Intervals /\ Splitter!Size(p) <= bound /\ bound \in Nat
        BY <1>1, <2>1, PackingParts DEF Placement, Cutting
      <4>2. d \in Nat
        BY <2>1, <3>1, SectionText
      <4>3. p[1] \in Nat /\ p[2] \in Nat
        BY <4>1, IntervalParts
      <4>4. d + p[1] <= d + p[2]
        BY <2>2, <3>2 DEF Moved
      <4> HIDE DEF d, p
      <4>5. p[1] <= p[2]
        BY <4>2, <4>3, <4>4
      <4>6. Splitter!Size(p) \in 1..bound
        BY <4>1, <4>3, <4>5 DEF Splitter!Size
      <4> QED
        BY <4>6 DEF p
    <3> QED
      BY <3>1, <3>2, <3>3, <3>4
  <2>6. CASE lines = <<>>
    <3>1. Covered = 0
      <4>1. IsText(LineSizes)
        BY <2>1, LineSizesAreText, SplitterLinesAreText DEF Sectioned
      <4> QED
        BY <2>3, <2>6, <4>1, Totals, EmptyIsSequence
    <3>2. k = 0
      <4> SUFFICES ASSUME k # 0 PROVE FALSE
        OBVIOUS
      <4>1. k \in 1..Len(Places) /\ 1 \in Nat
        BY <2>2
      <4>2. \A i \in 1..Len(Places) :
               1 <= Places[i][1] /\ Places[i][1] <= Places[i][2] /\ Places[i][2] <= Covered
        BY <2>3, <2>4, <4>1, TilesWithin
      <4>3. Places[k] \in Intervals
        BY <2>2, <2>4, <4>1 DEF Tiles
      <4>4. Places[k][1] \in Nat /\ Places[k][2] \in Nat
        BY <4>3, IntervalParts
      <4> QED
        BY <3>1, <4>1, <4>2, <4>4
    <3>3. chunks = <<>>
      BY <2>1, <3>2, EmptySeq DEF Placement, IsSequence, k
    <3> QED
      BY <2>5, <2>6, <3>3 DEF ChunksPartitionDocument
  <2>7. CASE lines # <<>>
    <3>1. k # 0 /\ Places[k][2] = Covered
      BY <2>2, <2>3, <2>4, <2>7 DEF Tiles
    <3>2. chunks # <<>>
      BY <3>1, EmptyIsSequence DEF k
    <3>3. k \in 1..k
      BY <2>2, <3>1
    <3>4. Last(chunks) = chunks[k]
      BY DEF Last, k
    <3>5. Before(Len(lines) + 1) = Covered
      <4>1. (Len(lines) + 1) - 1 = Len(lines)
        BY <2>3
      <4> QED
        BY <2>3, <4>1, BeforeIsTotal
    <3>6. Place(Last(chunks))[2] = Before(Len(lines) + 1)
      BY <2>2, <3>1, <3>3, <3>4, <3>5
    <3> QED
      BY <2>5, <2>7, <3>2, <3>6 DEF ChunksPartitionDocument
  <2> QED
    BY <2>6, <2>7
<1> QED
  BY <1>1, ChunkingInvariance, CuttingInvariance, PTL

----------------------------------------------------------------------------
(* The headings around a heading.                                          *)

\* One step of Outer for a heading of the given level.
NextOuter(level, outer, entry) ==
    IF entry.level < level THEN Append(outer, entry) ELSE outer

\* Outer folds NextOuter over the stack.
LEMMA OuterSteps ==
    ASSUME IsSequence(stack)
    PROVE  \E r \in [0..Len(stack) -> Seq({stack[i] : i \in DOMAIN stack})] :
              /\ r[0] = <<>> /\ r[Len(stack)] = Outer
              /\ \A i \in 1..Len(stack) : r[i] = NextOuter(Line.level, r[i - 1], stack[i])
<1> DEFINE m == Len(stack)
           B == {stack[i] : i \in DOMAIN stack}
           A == Seq(B)
           G == [p \in A \X B |-> NextOuter(Line.level, p[1], p[2])]
           Solves(f) == f = [S \in SUBSET (1..m) |->
                               IF S = {} THEN <<>>
                               ELSE NextOuter(Line.level, f[S \ {Max(S)}], stack[Max(S)])]
<1>1. m \in Nat /\ DOMAIN stack = 1..m /\ stack \in [1..m -> B]
  <2>1. m \in Nat /\ DOMAIN stack = 1..m /\ stack = [i \in 1..m |-> stack[i]]
    BY SequenceShape DEF IsSequence
  <2> QED
    BY <2>1
<1>2. G \in [A \X B -> A]
  <2>1. ASSUME NEW outer \in A, NEW entry \in B PROVE NextOuter(Line.level, outer, entry) \in A
    <3> HIDE DEF B
    <3>1. Append(outer, entry) \in A
      OBVIOUS
    <3> QED
      BY <3>1 DEF NextOuter
  <2> HIDE DEF A, B
  <2> QED
    BY <2>1
<1>3. <<>> \in A
  <2> HIDE DEF B
  <2> QED
    OBVIOUS
<1>4. \E f : Solves(f)
  <2>1. PICK f \in [SUBSET (1..m) -> A] : Folds(f, G, <<>>, stack)
    <3> HIDE DEF m, A, B, G
    <3> QED
      BY <1>1, <1>2, <1>3, FoldExists
  <2>2. ASSUME NEW S \in SUBSET (1..m)
        PROVE  f[S] = IF S = {} THEN <<>>
                      ELSE NextOuter(Line.level, f[S \ {Max(S)}], stack[Max(S)])
    <3>1. S # {} => Max(S) \in 1..m
      BY <1>1, MaxOfRange
    <3>2. S # {} => <<f[S \ {Max(S)}], stack[Max(S)]>> \in A \X B
      BY <1>1, <3>1
    <3>3. f[S] = IF S = {} THEN <<>> ELSE G[<<f[S \ {Max(S)}], stack[Max(S)]>>]
      BY <1>1, <2>1 DEF Folds
    <3> HIDE DEF A, B
    <3> QED
      BY <3>2, <3>3
  <2>3. Solves(f)
    BY <2>2
  <2> HIDE DEF Solves
  <2> QED
    BY <2>3
<1> DEFINE c == CHOOSE f : Solves(f)
<1>5. Outer = c[1..m]
  BY <1>1 DEF Outer, FoldLeft, MapThenFoldSet, NextOuter
<1>6. Solves(c)
  <2> HIDE DEF Solves
  <2> QED
    BY <1>4
<1> HIDE DEF c
<1>7. \A S \in SUBSET (1..m) :
        c[S] = IF S = {} THEN <<>> ELSE NextOuter(Line.level, c[S \ {Max(S)}], stack[Max(S)])
  BY <1>6
<1> DEFINE r == [i \in 0..m |-> c[1..i]]
<1> HIDE DEF m, A, B, Solves
<1>8. r[0] = <<>> /\ r[m] = c[1..m]
  <2>1. 1..0 = {} /\ 1..0 \in SUBSET (1..m) /\ 0 \in 0..m /\ m \in 0..m
    BY <1>1
  <2> QED
    BY <1>7, <2>1
<1>9. ASSUME NEW i \in 1..m PROVE r[i] = NextOuter(Line.level, r[i - 1], stack[i])
  <2>1. i \in Nat \ {0} /\ i - 1 \in 0..m /\ i \in 0..m /\ 1..i \in SUBSET (1..m)
    BY <1>1
  <2>2. Max(1..i) = i /\ (1..i) \ {Max(1..i)} = 1..(i - 1) /\ 1..i # {}
    BY <2>1, MaxOfInterval
  <2> QED
    BY <1>7, <2>1, <2>2
<1> HIDE DEF r
<1>10. \A i \in 0..m : r[i] \in A
  <2> DEFINE S == {i \in 0..m : r[i] \in A}
  <2>1. 0 \in S
    BY <1>1, <1>3, <1>8
  <2>2. ASSUME NEW i \in 0..(m - 1), i \in S PROVE i + 1 \in S
    <3>1. i + 1 \in 1..m /\ (i + 1) - 1 = i /\ i + 1 \in 0..m
      BY <1>1
    <3>2. r[i] \in A /\ stack[i + 1] \in B
      BY <1>1, <2>2, <3>1
    <3>3. <<r[i], stack[i + 1]>> \in A \X B
      BY <3>2
    <3>4. G[<<r[i], stack[i + 1]>>] = NextOuter(Line.level, r[i], stack[i + 1])
      BY <3>3
    <3> HIDE DEF G
    <3>5. r[i + 1] \in A
      BY <1>2, <1>9, <3>1, <3>3, <3>4
    <3> QED
      BY <3>1, <3>5
  <2> HIDE DEF S
  <2>3. \A i \in 0..m : i \in S
    BY <1>1, <2>1, <2>2, CountingTo
  <2> QED
    BY <2>3 DEF S
<1>11. DOMAIN r = 0..m /\ r = [i \in 0..m |-> r[i]]
  BY DEF r
<1>12. r \in [0..m -> A]
  BY <1>10, <1>11
<1> QED
  BY <1>5, <1>8, <1>9, <1>12 DEF m, A, B

----------------------------------------------------------------------------
(* Chains of headings.                                                     *)

\* The entry that line g makes.
Entry(g) == [level |-> lines[g].level, title |-> lines[g].title]

\* The entries are those of the lines G, from the first to the last.
EntriesOf(entries, G) ==
    /\ IsSequence(entries)
    /\ \E c : /\ Lists(c, Len(entries), G)
              /\ \A i \in 1..Len(entries) : entries[i] = Entry(c[i])

\* The path has the titles of the lines G, from the first to the last.
TitlesOf(path, G) ==
    /\ IsSequence(path)
    /\ \E c : /\ Lists(c, Len(path), G)
              /\ \A i \in 1..Len(path) : path[i] = lines[c[i]].title

\* No entries are those of no heading.
LEMMA NoEntries == EntriesOf(<<>>, {})
<1> DEFINE c == [i \in 1..0 |-> i]
<1>1. Lists(c, 0, {})
  BY DEF Lists
<1> HIDE DEF c
<1>2. \E d : Lists(d, 0, {}) /\ \A i \in 1..0 : <<>>[i] = Entry(d[i])
  BY <1>1
<1>3. Len(<<>>) = 0 /\ IsSequence(<<>>)
  BY EmptyIsSequence
<1> QED
  BY <1>2, <1>3 DEF EntriesOf

\* One more heading, after the others.
LEMMA EntriesAppend ==
    ASSUME NEW entries, NEW G, G \subseteq Nat, EntriesOf(entries, G),
           NEW n \in Nat, \A g \in G : g < n
    PROVE  EntriesOf(Append(entries, Entry(n)), G \cup {n})
<1> DEFINE m == Len(entries)  w == Append(entries, Entry(n))
<1>1. PICK c : Lists(c, m, G) /\ \A i \in 1..m : entries[i] = Entry(c[i])
  BY DEF EntriesOf
<1>2. /\ IsSequence(w) /\ Len(w) = m + 1 /\ m \in Nat
      /\ \A i \in 1..m : w[i] = entries[i]
      /\ w[m + 1] = Entry(n)
  <2> DEFINE x == Entry(n)
  <2>1. IsSequence(entries)
    BY DEF EntriesOf
  <2> HIDE DEF x
  <2>2. /\ IsSequence(Append(entries, x)) /\ Len(Append(entries, x)) = Len(entries) + 1
        /\ \A i \in 1..Len(entries) : Append(entries, x)[i] = entries[i]
        /\ Append(entries, x)[Len(entries) + 1] = x
    BY <2>1, Appended
  <2>3. m \in Nat
    BY <2>1, SequenceShape
  <2> QED
    BY <2>2, <2>3 DEF x
<1> DEFINE d == [i \in 1..(m + 1) |-> IF i = m + 1 THEN n ELSE c[i]]
<1> HIDE DEF m, w
<1>3. /\ \A i \in 1..m : d[i] = c[i] /\ c[i] \in G /\ c[i] \in Nat /\ c[i] < n
      /\ d[m + 1] = n
      /\ \A i \in 1..(m + 1) : i = m + 1 \/ i \in 1..m
  <2>1. \A i \in 1..m : i \in 1..(m + 1) /\ i # m + 1 /\ c[i] \in G
    BY <1>1, <1>2 DEF Lists
  <2>2. m + 1 \in 1..(m + 1) /\ \A i \in 1..(m + 1) : i = m + 1 \/ i \in 1..m
    BY <1>2
  <2> QED
    BY <2>1, <2>2
<1>4. d \in [1..(m + 1) -> G \cup {n}]
  BY <1>3
<1> HIDE DEF d
<1>5. ASSUME NEW i \in 1..(m + 1), NEW j \in 1..(m + 1), i < j PROVE d[i] < d[j]
  <2>1. i \in 1..m
    BY <1>2, <1>5
  <2>2. CASE j = m + 1
    BY <1>3, <2>1, <2>2
  <2>3. CASE j \in 1..m
    BY <1>1, <1>3, <1>5, <2>1, <2>3 DEF Lists
  <2> QED
    BY <1>3, <2>2, <2>3
<1>6. ASSUME NEW g \in G \cup {n} PROVE \E i \in 1..(m + 1) : d[i] = g
  <2>1. CASE g = n
    <3>1. m + 1 \in 1..(m + 1)
      BY <1>2
    <3> QED
      BY <1>3, <2>1, <3>1
  <2>2. CASE g \in G
    <3>1. PICK i \in 1..m : c[i] = g
      BY <1>1, <2>2 DEF Lists
    <3>2. i \in 1..(m + 1)
      BY <1>2
    <3> QED
      BY <1>3, <3>1, <3>2
  <2> QED
    BY <2>1, <2>2
<1>7. Lists(d, m + 1, G \cup {n})
  <2>1. m + 1 \in Nat
    BY <1>2
  <2> QED
    BY <1>4, <1>5, <1>6, <2>1 DEF Lists
<1>8. \A i \in 1..(m + 1) : w[i] = Entry(d[i])
  BY <1>1, <1>2, <1>3
<1>9. EntriesOf(w, G \cup {n})
  BY <1>2, <1>7, <1>8 DEF EntriesOf
<1> QED
  BY <1>9 DEF w

\* Outer keeps the headings of a smaller level, in order.
LEMMA OuterKeeps ==
    ASSUME NEW G, G \subseteq Nat, EntriesOf(stack, G)
    PROVE  EntriesOf(Outer, {g \in G : lines[g].level < Line.level})
<1> DEFINE m == Len(stack)
           E == {stack[i] : i \in DOMAIN stack}
<1>1. PICK c : Lists(c, m, G) /\ \A i \in 1..m : stack[i] = Entry(c[i])
  BY DEF EntriesOf
<1>2. PICK r \in [0..m -> Seq(E)] :
         /\ r[0] = <<>> /\ r[m] = Outer
         /\ \A i \in 1..m : r[i] = NextOuter(Line.level, r[i - 1], stack[i])
  BY OuterSteps DEF EntriesOf
<1>3. m \in Nat /\ \A i \in 1..m : c[i] \in G /\ c[i] \in Nat
  BY <1>1 DEF Lists
<1> DEFINE Kept(n) == {c[i] : i \in {j \in 1..n : lines[c[j]].level < Line.level}}
           S == {n \in 0..m : EntriesOf(r[n], Kept(n))}
<1> HIDE DEF m, E
<1>4. 0 \in S
  <2>1. Kept(0) = {}
    OBVIOUS
  <2> HIDE DEF Kept
  <2>2. r[0] = <<>> /\ 0 \in 0..m
    BY <1>2, <1>3
  <2>3. EntriesOf(r[0], Kept(0))
    BY <2>1, <2>2, NoEntries
  <2> QED
    BY <2>2, <2>3
<1>5. ASSUME NEW n \in 0..(m - 1), n \in S PROVE n + 1 \in S
  <2>1. n + 1 \in 1..m /\ (n + 1) - 1 = n /\ n + 1 \in 0..m /\ n \in Nat
    BY <1>3
  <2>2. r[n + 1] = NextOuter(Line.level, r[n], stack[n + 1]) /\ stack[n + 1] = Entry(c[n + 1])
    BY <1>1, <1>2, <2>1
  <2>3. stack[n + 1].level = lines[c[n + 1]].level
    BY <2>2 DEF Entry
  <2>4. Kept(n + 1) = Kept(n) \cup {c[i] : i \in {j \in {n + 1} : lines[c[j]].level < Line.level}}
    <3>1. \A j : j \in 1..(n + 1) <=> j \in 1..n \/ j = n + 1
      BY <2>1
    <3> QED
      BY <3>1
  <2>5. Kept(n) \subseteq Nat /\ \A g \in Kept(n) : g < c[n + 1]
    <3>1. \A j \in 1..n : j \in 1..m /\ j < n + 1
      BY <1>3, <2>1
    <3>2. \A j \in 1..n : c[j] \in Nat /\ c[j] < c[n + 1]
      BY <1>1, <1>3, <2>1, <3>1 DEF Lists
    <3> QED
      BY <3>2
  <2>6. EntriesOf(r[n], Kept(n))
    BY <1>5
  <2>7. EntriesOf(r[n + 1], Kept(n + 1))
    <3>1. CASE lines[c[n + 1]].level < Line.level
      <4>1. r[n + 1] = Append(r[n], Entry(c[n + 1]))
        BY <2>2, <2>3, <3>1 DEF NextOuter
      <4>2. Kept(n + 1) = Kept(n) \cup {c[n + 1]}
        BY <2>4, <3>1
      <4>3. c[n + 1] \in Nat
        BY <1>3, <2>1
      <4> DEFINE K == Kept(n)  x == c[n + 1]  e == r[n]
      <4>4. K \subseteq Nat /\ EntriesOf(e, K) /\ x \in Nat /\ \A g \in K : g < x
        BY <2>5, <2>6, <4>3
      <4> HIDE DEF K, x, e
      <4>5. EntriesOf(Append(e, Entry(x)), K \cup {x})
        BY <4>4, EntriesAppend
      <4> QED
        BY <4>1, <4>2, <4>5 DEF K, x, e
    <3>2. CASE ~(lines[c[n + 1]].level < Line.level)
      <4>1. r[n + 1] = r[n]
        BY <2>2, <2>3, <3>2 DEF NextOuter
      <4>2. Kept(n + 1) = Kept(n)
        BY <2>4, <3>2
      <4> HIDE DEF Kept
      <4> QED
        BY <2>6, <4>1, <4>2
    <3> QED
      BY <3>1, <3>2
  <2> HIDE DEF Kept
  <2> QED
    BY <2>1, <2>7
<1>6. m \in S
  <2> HIDE DEF S
  <2>1. \A n \in 0..m : n \in S
    BY <1>3, <1>4, <1>5, CountingTo
  <2> QED
    BY <1>3, <2>1
<1>7. Kept(m) = {g \in G : lines[g].level < Line.level}
  <2>1. \A g \in G : \E i \in 1..m : c[i] = g
    BY <1>1 DEF Lists
  <2> QED
    BY <1>3, <2>1
<1> HIDE DEF Kept
<1> QED
  BY <1>2, <1>6, <1>7

----------------------------------------------------------------------------
(* The invariant of the paths.                                             *)

\* The headings around the section opened at h, and those still open.
Ancestors(h) ==
    {g \in Opened : g <= h /\ \A m \in Opened : g < m /\ m <= h => lines[m].level > lines[g].level}

OpenHeadings ==
    {g \in Opened : \A m \in Opened : g < m => lines[m].level > lines[g].level}

\* The path of a section, of the headings that had opened one by its start.
PathOf(section) ==
    IF IsHeading(lines[section.first]) THEN TitlesOf(section.path, Ancestors(section.first))
    ELSE section.path = <<>>

\* Of a Markdown text: the stack has the headings still open, and every path
\* the headings around its section.
Pathing ==
    /\ fence \in FenceLines \cup {None}
    /\ format # "markdown" => stack = <<>> /\ \A i \in DOMAIN sections : sections[i].path = <<>>
    /\ format = "markdown" =>
          /\ EntriesOf(stack, OpenHeadings)
          /\ current # 0 /\ ~IsHeading(lines[current]) => sections = <<>>
          /\ \A i \in DOMAIN sections : PathOf(sections[i])

\* Headings that opened a section are lines scanned.
LEMMA OpenedBounds ==
    ASSUME Sectioned
    PROVE  /\ Len(lines) \in Nat /\ DOMAIN lines = 1..Len(lines) /\ next \in Nat
           /\ \A i \in DOMAIN sections : sections[i].first < next /\ sections[i].first \in Nat
           /\ Opened \subseteq DOMAIN lines
           /\ \A g \in Opened : IsHeading(lines[g]) /\ g \in Nat /\ g < next
                                /\ (current # 0 => g <= current)
<1>1. Len(lines) \in Nat /\ DOMAIN lines = 1..Len(lines) /\ next \in Nat
  BY LineSizesAreText DEF Sectioned
<1>2. ASSUME NEW i \in DOMAIN sections
      PROVE  /\ sections[i].first \in Nat /\ sections[i].first < next
             /\ current # 0 => sections[i].first <= current
  <2>1. /\ sections[i].first \in Nat \ {0} /\ sections[i].last \in Nat
        /\ sections[i].first <= sections[i].last
        /\ sections[i].last <= CollectedTo /\ CollectedTo \in Nat
    BY SectionWithin
  <2>2. CollectedTo < next /\ (current # 0 => CollectedTo <= current)
    BY <1>1, <2>1 DEF Sectioned, CollectedTo, Scanned
  <2> QED
    BY <1>1, <2>1, <2>2 DEF Sectioned
<1>3. ASSUME NEW g \in Opened
      PROVE  /\ g \in DOMAIN lines /\ IsHeading(lines[g]) /\ g < next
             /\ current # 0 => g <= current
  <2>1. g \in DOMAIN lines /\ IsHeading(lines[g])
    BY <1>3 DEF Opened, Openers
  <2>2. CASE g \in Openers
    <3>1. PICK i \in DOMAIN sections : g = sections[i].first
      BY <2>2 DEF Openers
    <3> QED
      BY <1>2, <2>1, <3>1
  <2>3. CASE g = current
    BY <1>1, <2>1, <2>3 DEF Sectioned
  <2> QED
    BY <1>3, <2>2, <2>3 DEF Opened
<1> QED
  BY <1>1, <1>2, <1>3

\* Of the last heading, the headings around it are those still open.
LEMMA CurrentAncestors ==
    ASSUME Sectioned, current # 0
    PROVE  Ancestors(current) = OpenHeadings
<1>1. \A g \in Opened : g \in Nat /\ g <= current
  BY OpenedBounds
<1> QED
  BY <1>1 DEF Ancestors, OpenHeadings

\* The path is the titles on the stack.
LEMMA EntriesGivePath ==
    ASSUME NEW G, EntriesOf(stack, G)
    PROVE  TitlesOf(Path, G)
<1> DEFINE m == Len(stack)
<1>1. IsSequence(stack) /\ m \in Nat /\ DOMAIN stack = 1..m
  BY SequenceShape DEF EntriesOf
<1>2. PICK c : Lists(c, m, G) /\ \A i \in 1..m : stack[i] = Entry(c[i])
  BY DEF EntriesOf
<1>3. IsSequence(Path) /\ Len(Path) = m
  <2>1. DOMAIN Path = 1..m /\ Path = [i \in 1..m |-> Path[i]]
    BY <1>1 DEF Path
  <2> HIDE DEF m
  <2> QED
    BY <1>1, <2>1, FunctionIsSequence
<1>4. \A i \in 1..m : Path[i] = lines[c[i]].title
  BY <1>1, <1>2 DEF Path, Entry
<1> QED
  BY <1>2, <1>3, <1>4 DEF TitlesOf

\* Headings opened later do not change what is around an earlier one.
LEMMA AncestorsStay ==
    ASSUME lines' = lines, NEW n \in Nat, Opened' = Opened \cup {n}, NEW h \in Nat, h < n
    PROVE  Ancestors(h)' = Ancestors(h)
<1>1. ~(n <= h)
  OBVIOUS
<1>2. \A g \in Opened' : g <= h => g \in Opened
  BY <1>1
<1>3. \A g \in Opened : g \in Opened'
  OBVIOUS
<1> QED
  BY <1>2, <1>3 DEF Ancestors

\* The section that ends has the path of the headings still open.
LEMMA FlushedPaths ==
    ASSUME Sectioned, ChunkingInvariant, Pathing, format = "markdown", sections' = Flushed
    PROVE  \A i \in DOMAIN sections' : PathOf(sections'[i]) /\ sections'[i].first < next
                                       /\ sections'[i].first \in Nat
<1>1. /\ EntriesOf(stack, OpenHeadings)
      /\ \A i \in DOMAIN sections : PathOf(sections[i]) /\ sections[i].first < next
                                    /\ sections[i].first \in Nat
      /\ current # 0 /\ ~IsHeading(lines[current]) => sections = <<>>
  BY OpenedBounds DEF Pathing
<1>2. CASE current = 0
  BY <1>1, <1>2 DEF Flushed
<1>3. CASE current # 0
  <2> DEFINE new == [path |-> Path, first |-> current, last |-> next - 1]
  <2>1. sections' = Append(sections, new) /\ new.first = current /\ new.path = Path
    BY <1>3 DEF Flushed
  <2> HIDE DEF new
  <2>2. IsSequence(sections)
    BY DEF Sectioned
  <2>3. /\ IsSequence(sections') /\ Len(sections') = Len(sections) + 1
        /\ \A i \in 1..Len(sections) : sections'[i] = sections[i]
        /\ sections'[Len(sections) + 1] = new
    BY <2>1, <2>2, Appended
  <2>4. /\ Len(sections) \in Nat /\ DOMAIN sections = 1..Len(sections)
        /\ DOMAIN sections' = 1..(Len(sections) + 1)
    BY <2>2, <2>3, SequenceShape
  <2>5. PathOf(new)
    <3>1. CASE IsHeading(lines[current])
      <4>1. TitlesOf(Path, Ancestors(current))
        BY <1>1, <1>3, CurrentAncestors, EntriesGivePath
      <4> QED
        BY <2>1, <3>1, <4>1 DEF PathOf
    <3>2. CASE ~IsHeading(lines[current])
      <4>1. sections = <<>>
        BY <1>1, <1>3, <3>2
      <4>2. Opened = {}
        BY <3>2, <4>1 DEF Opened, Openers
      <4>3. OpenHeadings = {}
        BY <4>2 DEF OpenHeadings
      <4>4. Len(stack) = 0 /\ IsSequence(stack)
        <5>1. PICK c : Lists(c, Len(stack), {}) /\ IsSequence(stack)
          BY <1>1, <4>3 DEF EntriesOf
        <5>2. Len(stack) \in Nat /\ \A i \in 1..Len(stack) : FALSE
          BY <5>1 DEF Lists
        <5>3. Len(stack) # 0 => 1 \in 1..Len(stack)
          BY <5>2
        <5> QED
          BY <5>1, <5>2, <5>3
      <4>5. DOMAIN stack = {}
        BY <4>4, SequenceShape
      <4>6. Path = <<>>
        BY <4>5 DEF Path
      <4> QED
        BY <2>1, <3>2, <4>6 DEF PathOf
    <3> QED
      BY <3>1, <3>2
  <2>6. new.first \in Nat /\ new.first < next
    BY <2>1 DEF Sectioned
  <2>7. ASSUME NEW i \in DOMAIN sections'
        PROVE  sections'[i] = new \/ (i \in DOMAIN sections /\ sections'[i] = sections[i])
    <3>1. i = Len(sections) + 1 \/ i \in 1..Len(sections)
      BY <2>4
    <3> QED
      BY <2>3, <2>4, <3>1
  <2> QED
    BY <1>1, <2>5, <2>6, <2>7
<1> QED
  BY <1>2, <1>3

\* A section's path stays right as long as the headings around it stay.
LEMMA PathStays ==
    ASSUME lines' = lines, NEW x, Ancestors(x.first)' = Ancestors(x.first), PathOf(x)
    PROVE  PathOf(x)'
BY DEF PathOf, IsHeading, TitlesOf

\* A line that opens no section.
LEMMA CollectKeepsPaths ==
    ASSUME Sectioned, ChunkingInvariant, Pathing, ScanMarkdown, ScanFenced \/ OpenFence \/ ScanText
    PROVE  Pathing'
<1>1. /\ lines' = lines /\ next' = next + 1 /\ sections' = sections /\ stack' = stack
      /\ format = "markdown" /\ format' = format /\ ~Scanned /\ next <= Len(lines)
  BY ScanStepMoves DEF ScanFenced, OpenFence, ScanText, Scanning
<1>2. /\ Len(lines) \in Nat /\ DOMAIN lines = 1..Len(lines) /\ next \in Nat \ {0}
      /\ next \in DOMAIN lines /\ lines[next] \in Lines /\ Line = lines[next]
  <2>1. Len(lines) \in Nat /\ next \in Nat \ {0} /\ lines \in Seq(Lines)
    BY OpenedBounds DEF Sectioned
  <2> HIDE DEF Lines
  <2>2. next \in 1..Len(lines)
    BY <1>1, <2>1
  <2> QED
    BY <2>1, <2>2 DEF Line
<1>3. \/ current' = current /\ current # 0
      \/ current = 0 /\ current' = next /\ ~IsHeading(lines[next])
  <2>1. CASE ScanFenced
    <3>1. fence # None
      BY <2>1 DEF ScanFenced
    <3>2. current # 0
      BY <1>1, <3>1 DEF ChunkingInvariant, Scan
    <3> QED
      BY <2>1, <3>2 DEF ScanFenced, Collect
  <2>2. CASE OpenFence
    BY <1>2, <2>2 DEF OpenFence, Opens, Collect, IsHeading
  <2>3. CASE ScanText
    BY <1>2, <2>3 DEF ScanText, Collect
  <2> QED
    BY <2>1, <2>2, <2>3
<1>4. Opened' = Opened
  <2>1. 0 \notin DOMAIN lines
    BY <1>2
  <2> QED
    BY <1>1, <1>3, <2>1 DEF Opened, Openers, IsHeading
<1>5. fence' \in FenceLines \cup {None}
  <2>1. CASE ScanFenced
    BY <2>1 DEF ScanFenced, FenceAfter, Pathing
  <2>2. CASE OpenFence
    <3>1. Line.kind = "fence" /\ fence' = Line.mark
      BY <2>2 DEF OpenFence, Opens
    <3>2. Line.mark \in FenceLines
      BY <1>2, <3>1 DEF Lines
    <3> QED
      BY <3>1, <3>2
  <2>3. CASE ScanText
    BY <2>3 DEF ScanText, Pathing
  <2> QED
    BY <2>1, <2>2, <2>3
<1>6. OpenHeadings' = OpenHeadings /\ \A h : Ancestors(h)' = Ancestors(h)
  BY <1>1, <1>4 DEF OpenHeadings, Ancestors
<1>7. EntriesOf(stack, OpenHeadings)'
  BY <1>1, <1>6 DEF Pathing, EntriesOf, Entry
<1>8. \A i \in DOMAIN sections : PathOf(sections[i])'
  BY <1>1, <1>6, PathStays DEF Pathing
<1>9. current' # 0 /\ ~IsHeading(lines'[current']) => sections' = <<>>
  <2>1. CASE current' = current /\ current # 0
    BY <1>1, <2>1 DEF Pathing, IsHeading
  <2>2. CASE current = 0
    <3>1. CollectedTo = 0
      BY <1>1, <2>2 DEF CollectedTo
    <3>2. \A i \in DOMAIN sections : FALSE
      <4>1. ASSUME NEW i \in DOMAIN sections PROVE FALSE
        <5>1. /\ sections[i].first \in Nat \ {0} /\ sections[i].last \in Nat
              /\ sections[i].first <= sections[i].last /\ sections[i].last <= CollectedTo
          BY SectionWithin
        <5> QED
          BY <3>1, <5>1
      <4> QED
        BY <4>1
    <3>3. sections = <<>>
      <4>1. IsSequence(sections) /\ DOMAIN sections = {}
        BY <3>2 DEF Sectioned
      <4> QED
        BY <4>1, SequenceShape DEF IsSequence
    <3> QED
      BY <1>1, <3>3
  <2> QED
    BY <1>3, <2>1, <2>2
<1> QED
  BY <1>1, <1>5, <1>7, <1>8, <1>9 DEF Pathing

\* A heading closes those that are at least as deep, and opens a section.
LEMMA StartKeepsPaths ==
    ASSUME Sectioned, ChunkingInvariant, Pathing, ScanMarkdown, StartSection
    PROVE  Pathing'
<1>1. /\ lines' = lines /\ next' = next + 1 /\ sections' = Flushed /\ fence' = fence
      /\ stack' = Append(Outer, [level |-> Line.level, title |-> Line.title])
      /\ format = "markdown" /\ format' = format /\ next <= Len(lines)
      /\ current' = next /\ IsHeading(Line) /\ Line = lines[next]
  BY ScanStepMoves DEF StartSection, Scanning, Line
<1>2. /\ Len(lines) \in Nat /\ DOMAIN lines = 1..Len(lines) /\ next \in Nat \ {0}
      /\ next \in DOMAIN lines
      /\ \A g \in Opened : g \in Nat /\ g < next
  <2>1. Len(lines) \in Nat /\ next \in Nat \ {0}
    BY OpenedBounds DEF Sectioned
  <2> QED
    BY <1>1, <2>1, OpenedBounds
<1>3. Opened' = Opened \cup {next}
  <2>1. Openers' = Opened
    BY <1>1, FlushOpens DEF ChunkingInvariant
  <2> QED
    BY <1>1, <1>2, <2>1 DEF Opened, IsHeading
<1>4. \A i \in DOMAIN sections' : PathOf(sections'[i]) /\ sections'[i].first < next
                                  /\ sections'[i].first \in Nat
  BY <1>1, FlushedPaths
<1>5. \A i \in DOMAIN sections' : PathOf(sections[i])'
  <2>1. ASSUME NEW x, PathOf(x), x.first < next, x.first \in Nat
        PROVE  PathOf(x)'
    <3> DEFINE h == x.first
    <3>1. h \in Nat /\ h < next /\ next \in Nat
      BY <1>2, <2>1
    <3> HIDE DEF h
    <3>2. Ancestors(h)' = Ancestors(h)
      BY <1>1, <1>3, <3>1, AncestorsStay
    <3> QED
      BY <1>1, <2>1, <3>2, PathStays DEF h
  <2> QED
    BY <1>4, <2>1
<1> DEFINE kept == {g \in OpenHeadings : lines[g].level < Line.level}
<1>6. OpenHeadings' = kept \cup {next}
  <2>1. OpenHeadings \subseteq Opened
    BY DEF OpenHeadings
  <2>2. \A g \in Opened : lines[next].level > lines[g].level <=> lines[g].level < Line.level
    BY <1>1
  <2>3. ASSUME NEW g
        PROVE  g \in OpenHeadings' <=> g \in kept \cup {next}
    <3>1. CASE g = next
      <4>1. \A m \in Opened' : ~(next < m)
        BY <1>2, <1>3
      <4> QED
        BY <1>3, <3>1, <4>1 DEF OpenHeadings
    <3>2. CASE g # next
      <4>1. g \in Opened => g < next
        BY <1>2
      <4>2. g \in OpenHeadings' <=>
               g \in Opened /\ (\A m \in Opened : g < m => lines[m].level > lines[g].level)
                 /\ lines[next].level > lines[g].level
        BY <1>1, <1>3, <3>2, <4>1 DEF OpenHeadings
      <4> QED
        BY <2>2, <3>2, <4>2 DEF OpenHeadings
    <3> QED
      BY <3>1, <3>2
  <2> QED
    BY <2>3
<1>7. EntriesOf(stack', kept \cup {next})
  <2>1. OpenHeadings \subseteq Nat /\ EntriesOf(stack, OpenHeadings)
    BY <1>1, <1>2 DEF OpenHeadings, Pathing
  <2>2. EntriesOf(Outer, kept)
    BY <2>1, OuterKeeps
  <2>3. kept \subseteq Nat /\ \A g \in kept : g < next
    BY <1>2, <2>1 DEF OpenHeadings
  <2>4. stack' = Append(Outer, Entry(next))
    BY <1>1 DEF Entry
  <2> HIDE DEF kept
  <2> QED
    BY <1>2, <2>2, <2>3, <2>4, EntriesAppend
<1>8. EntriesOf(stack, OpenHeadings)'
  <2> HIDE DEF kept
  <2> QED
    BY <1>1, <1>6, <1>7 DEF EntriesOf, Entry
<1>9. IsHeading(lines'[current'])
  BY <1>1
<1> QED
  BY <1>1, <1>5, <1>8, <1>9 DEF Pathing

\* The end of the text ends the last section.
LEMMA FinishKeepsPaths ==
    ASSUME Sectioned, ChunkingInvariant, Pathing, ScanMarkdown, FinishScan
    PROVE  Pathing'
<1>1. /\ lines' = lines /\ next' = next + 1 /\ sections' = Flushed /\ fence' = fence
      /\ stack' = stack /\ format = "markdown" /\ format' = format /\ current' = 0
  BY ScanStepMoves DEF FinishScan
<1>2. Opened' = Opened
  <2>1. Openers' = Opened
    BY <1>1, FlushOpens DEF ChunkingInvariant
  <2>2. 0 \notin DOMAIN lines
    BY OpenedBounds
  <2> QED
    BY <1>1, <2>1, <2>2 DEF Opened, IsHeading
<1>3. OpenHeadings' = OpenHeadings /\ \A h : Ancestors(h)' = Ancestors(h)
  BY <1>1, <1>2 DEF OpenHeadings, Ancestors
<1>4. EntriesOf(stack, OpenHeadings)'
  BY <1>1, <1>3 DEF Pathing, EntriesOf, Entry
<1>5. \A x : PathOf(x) => PathOf(x)'
  BY <1>1, <1>3, PathStays
<1>6. \A i \in DOMAIN sections' : PathOf(sections[i])'
  <2>1. \A i \in DOMAIN sections' : PathOf(sections'[i])
    BY <1>1, FlushedPaths
  <2> QED
    BY <1>5, <2>1
<1> QED
  BY <1>1, <1>4, <1>6 DEF Pathing

\* A plain text has no path.
LEMMA TakeWholeKeepsPaths ==
    ASSUME Sectioned, Pathing, TakeWhole
    PROVE  Pathing'
<1>1. /\ format # "markdown" /\ format' = format /\ stack' = stack /\ fence' = fence
      /\ sections' = Root
  BY DEF TakeWhole, splitUnchanged
<1>2. \A i \in DOMAIN Root : Root[i].path = <<>>
  <2>1. CASE lines = <<>>
    BY <2>1 DEF Root
  <2>2. CASE lines # <<>>
    <3> DEFINE x == [path |-> <<>>, first |-> 1, last |-> Len(lines)]
    <3>1. Root = <<x>> /\ x.path = <<>>
      BY <2>2 DEF Root
    <3> HIDE DEF x
    <3> QED
      BY <3>1
  <2> QED
    BY <2>1, <2>2
<1> QED
  BY <1>1, <1>2 DEF Pathing

\* Paths stay while sections are cut.
LEMMA PathingStays ==
    ASSUME Pathing, UNCHANGED <<lines, fence, stack, current, sections, format>>
    PROVE  Pathing'
<1>1. Opened' = Opened
  BY DEF Opened, Openers, IsHeading
<1>2. OpenHeadings' = OpenHeadings /\ \A h : Ancestors(h)' = Ancestors(h)
  BY <1>1 DEF OpenHeadings, Ancestors
<1>3. format = "markdown" => EntriesOf(stack, OpenHeadings)'
  BY <1>2 DEF Pathing, EntriesOf, Entry
<1>4. \A x : PathOf(x) => PathOf(x)'
  BY <1>2, PathStays
<1> QED
  BY <1>3, <1>4 DEF Pathing, IsHeading

\* Before the first line there are no paths.
LEMMA InitPaths ==
    ASSUME DocumentInit
    PROVE  Pathing
<1>1. /\ fence = None /\ stack = <<>> /\ current = 0 /\ sections = <<>>
  BY DEF DocumentInit, Init
<1>2. 0 \notin DOMAIN lines
  <2>1. Sectioned
    BY InitSections
  <2> QED
    BY <2>1, OpenedBounds
<1>3. Opened = {}
  BY <1>1, <1>2 DEF Opened, Openers
<1>4. OpenHeadings = {}
  BY <1>3 DEF OpenHeadings
<1>5. EntriesOf(stack, OpenHeadings)
  BY <1>1, <1>4, NoEntries
<1> QED
  BY <1>1, <1>5 DEF Pathing

\* Every step keeps the invariant of the paths.
LEMMA PathingNextKeeps ==
    ChunkingInvariant /\ Cutting /\ Pathing /\ [DocumentNext]_documentVars => Pathing'
<1> SUFFICES ASSUME ChunkingInvariant, Sectioned, Pathing, [DocumentNext]_documentVars
             PROVE  Pathing'
  BY DEF Cutting
<1>1. CASE ScanMarkdown
  BY <1>1, CollectKeepsPaths, StartKeepsPaths, FinishKeepsPaths DEF ScanMarkdown, ScanStep
<1>2. CASE TakeWhole
  BY <1>2, TakeWholeKeepsPaths
<1>3. CASE UNCHANGED documentVars \/ BeginSection \/ PackAtom \/ FinishSection
  <2>1. UNCHANGED <<lines, fence, stack, current, sections, format>>
    BY <1>3 DEF documentVars, vars, BeginSection, NumberSection, PackAtom, FinishSection
  <2> QED
    BY <2>1, PathingStays
<1> QED
  BY <1>1, <1>2, <1>3 DEF DocumentNext

\* Every state satisfies the invariant of the paths.
THEOREM PathingInvariance == DocumentSpec => []Pathing
<1>1. DocumentInit => Pathing
  BY InitPaths
<1> QED
  BY <1>1, PathingNextKeeps, ChunkingInvariance, CuttingInvariance, PTL DEF DocumentSpec

----------------------------------------------------------------------------
(* The paths: theorems.                                                    *)

\* When all is scanned, the headings around a heading are those that enclose it.
LEMMA ScannedPaths ==
    ASSUME Sectioned, ChunkingInvariant, Pathing, format = "markdown", Scanned
    PROVE  PathsAreEnclosingHeadings
<1>1. /\ current = 0 /\ \A i \in DOMAIN sections : PathOf(sections[i])
  BY DEF ChunkingInvariant, Scan, Pathing
<1>2. /\ Len(lines) \in Nat /\ DOMAIN lines = 1..Len(lines) /\ Opened \subseteq DOMAIN lines
      /\ Opened = Openers
  <2>1. Len(lines) \in Nat /\ DOMAIN lines = 1..Len(lines) /\ Opened \subseteq DOMAIN lines
    BY OpenedBounds
  <2>2. 0 \notin DOMAIN lines
    BY <2>1
  <2> QED
    BY <1>1, <2>1, <2>2 DEF Opened
<1>3. ASSUME NEW i \in DOMAIN sections
      PROVE  LET h == sections[i].first
                 path == sections[i].path
                 chain == {g \in 1..h : Encloses(g, h)}
             IN  IF h \in Openers
                 THEN /\ Len(path) = Cardinality(chain)
                      /\ \A g \in chain :
                            path[Cardinality({m \in chain : m <= g})] = lines[g].title
                 ELSE path = <<>>
  <2> DEFINE h == sections[i].first
             path == sections[i].path
             chain == {g \in 1..h : Encloses(g, h)}
  <2>1. h \in Nat \ {0} /\ h <= Len(lines) /\ h \in DOMAIN lines
    <3>1. /\ Len(lines) \in Nat /\ h \in Nat \ {0} /\ sections[i].last \in Nat
          /\ h <= sections[i].last /\ sections[i].last <= Len(lines)
      BY SectionWithin
    <3> QED
      BY <1>2, <3>1
  <2>2. h \in Openers <=> IsHeading(lines[h])
    BY <2>1 DEF Openers
  <2>3. PathOf(sections[i])
    BY <1>1
  <2>4. CASE h \notin Openers
    BY <2>2, <2>3, <2>4 DEF PathOf
  <2>5. CASE h \in Openers
    <3>1. TitlesOf(path, Ancestors(h))
      BY <2>2, <2>3, <2>5 DEF PathOf
    <3>2. chain = Ancestors(h)
      <4>1. \A g \in Opened : g \in Nat \ {0}
        BY <1>2
      <4>2. \A g \in Opened : g <= h => g \in 1..h
        BY <2>1, <4>1
      <4> HIDE DEF h
      <4> QED
        BY <1>2, <4>2 DEF Ancestors, Encloses
    <3>3. chain \subseteq Nat
      BY <2>1
    <3> HIDE DEF h, path, chain
    <3>4. PICK c : /\ Lists(c, Len(path), chain)
                   /\ \A k \in 1..Len(path) : path[k] = lines[c[k]].title
      BY <3>1, <3>2 DEF TitlesOf
    <3>5. Ranks(c, Len(path), chain)
      BY <3>3, <3>4, RankOf
    <3>6. ASSUME NEW g \in chain
          PROVE  path[Cardinality({m \in chain : m <= g})] = lines[g].title
      <4>1. PICK k \in 1..Len(path) : c[k] = g
        BY <3>4 DEF Lists
      <4> QED
        BY <3>4, <3>5, <4>1 DEF Ranks
    <3> QED
      BY <2>5, <3>5, <3>6 DEF h, path, chain, Ranks
  <2> QED
    BY <2>4, <2>5
<1> QED
  BY <1>3 DEF PathsAreEnclosingHeadings

\* A Markdown section's path is the chain of headings enclosing it, whatever
\* levels the text skips and wherever it starts.
THEOREM PathsFollow == DocumentSpec => []PathsFollowHeadings
<1>1. ASSUME ChunkingInvariant, Cutting, Pathing PROVE PathsFollowHeadings
  <2>1. format = "markdown" /\ Scanned => PathsAreEnclosingHeadings
    BY <1>1, ScannedPaths DEF Cutting
  <2> QED
    BY <2>1 DEF PathsFollowHeadings, PathsAreEnclosingHeadings
<1> QED
  BY <1>1, ChunkingInvariance, CuttingInvariance, PathingInvariance, PTL

----------------------------------------------------------------------------
(* Types.                                                                  *)

\* A heading line is made of a heading.
LEMMA HeadingLine ==
    ASSUME NEW line \in Lines, IsHeading(line)
    PROVE  [level |-> line.level, title |-> line.title] \in Headings
<1>1. line.kind = "heading"
  BY DEF IsHeading
<1>2. PICK h \in Headings : line = [kind |-> "heading", level |-> h.level, title |-> h.title]
  BY <1>1 DEF Lines
<1>3. line.level = h.level /\ line.title = h.title
  BY <1>2
<1>4. h = [level |-> h.level, title |-> h.title]
  BY SectionsAssumption
<1> QED
  BY <1>3, <1>4

\* A line is one of the lines there can be.
LEMMA LineOf ==
    ASSUME Sectioned, NEW g \in DOMAIN lines
    PROVE  lines[g] \in Lines
<1>1. lines \in Seq(Lines)
  BY DEF Sectioned
<1> HIDE DEF Lines
<1> QED
  BY <1>1

\* The stack has headings with titles, and paths are made of titles.
LEMMA HeadingsTyped ==
    ASSUME Sectioned, Pathing
    PROVE  /\ \A i \in DOMAIN stack : stack[i] \in Headings /\ stack[i].title # <<>>
           /\ \A i \in DOMAIN sections : sections[i].path \in Seq({h.title : h \in Headings})
<1> DEFINE T == {h.title : h \in Headings}
<1>1. ASSUME NEW g \in Opened
      PROVE  /\ Entry(g) \in Headings /\ lines[g].title # <<>> /\ lines[g].title \in T
  <2>1. lines[g] \in Lines /\ IsHeading(lines[g])
    BY OpenedBounds, LineOf
  <2>2. Entry(g) \in Headings
    BY <2>1, HeadingLine DEF Entry
  <2>3. Entry(g).title = lines[g].title
    BY DEF Entry
  <2> QED
    BY <2>1, <2>2, <2>3 DEF IsHeading
<1>2. <<>> \in Seq(T)
  <2> HIDE DEF T
  <2> QED
    OBVIOUS
<1>3. CASE format # "markdown"
  <2>1. DOMAIN stack = {} /\ \A i \in DOMAIN sections : sections[i].path = <<>>
    BY <1>3 DEF Pathing
  <2> QED
    BY <1>2, <2>1
<1>4. CASE format = "markdown"
  <2>1. EntriesOf(stack, OpenHeadings) /\ \A i \in DOMAIN sections : PathOf(sections[i])
    BY <1>4 DEF Pathing
  <2>2. ASSUME NEW i \in DOMAIN stack PROVE stack[i] \in Headings /\ stack[i].title # <<>>
    <3>1. PICK c : /\ Lists(c, Len(stack), OpenHeadings)
                   /\ \A k \in 1..Len(stack) : stack[k] = Entry(c[k])
      BY <2>1 DEF EntriesOf
    <3>2. i \in 1..Len(stack)
      BY <2>1, SequenceShape DEF EntriesOf
    <3>3. c[i] \in Opened /\ stack[i] = Entry(c[i])
      BY <3>1, <3>2 DEF Lists, OpenHeadings
    <3>4. stack[i].title = lines[c[i]].title
      BY <3>3 DEF Entry
    <3> QED
      BY <1>1, <3>3, <3>4
  <2>3. ASSUME NEW i \in DOMAIN sections PROVE sections[i].path \in Seq(T)
    <3> DEFINE path == sections[i].path  G == Ancestors(sections[i].first)
    <3>1. path = <<>> \/ TitlesOf(path, G)
      BY <2>1 DEF PathOf
    <3>2. G \subseteq Opened
      BY DEF Ancestors
    <3> HIDE DEF path, G, T
    <3>3. ASSUME TitlesOf(path, G) PROVE path \in Seq(T)
      <4>1. PICK c : /\ IsSequence(path) /\ Lists(c, Len(path), G)
                     /\ \A k \in 1..Len(path) : path[k] = lines[c[k]].title
        BY <3>3 DEF TitlesOf
      <4>2. \A k \in 1..Len(path) : c[k] \in Opened
        BY <3>2, <4>1 DEF Lists
      <4>3. \A k \in 1..Len(path) : path[k] \in T
        BY <1>1, <4>1, <4>2
      <4> QED
        BY <4>1, <4>3, SequenceIn
    <3>4. path \in Seq(T)
      BY <1>2, <3>1, <3>3
    <3> QED
      BY <3>4 DEF path
  <2> QED
    BY <2>2, <2>3
<1> QED
  BY <1>3, <1>4

\* Every variable of the chunking of a document has its type.
THEOREM DocumentTypes == DocumentSpec => []DocumentTypeOK
<1>1. ASSUME ChunkingInvariant, Cutting, Pathing PROVE DocumentTypeOK
  <2>1. /\ Sectioned /\ Packing /\ Placement /\ Cursors /\ Numbering /\ Identities
    BY <1>1 DEF ChunkingInvariant, Cutting
  <2>2. /\ IsSequence(numbered) /\ Len(numbered) \in Nat /\ DOMAIN numbered = 1..Len(numbered)
        /\ Len(sections) \in Nat /\ DOMAIN sections = 1..Len(sections) /\ Len(numbered) <= Len(sections)
    BY <2>1, SequenceShape DEF Cursors, Numbering
  <2>3. \A i \in DOMAIN numbered : numbered[i] \in Nat
    <3>1. ASSUME NEW i \in DOMAIN numbered PROVE numbered[i] \in Nat
      <4>1. i \in Nat \ {0} /\ numbered[i] = Cardinality(Earlier(KeyOf(i), i))
        BY <2>1, <2>2 DEF Numbering
      <4> QED
        BY <4>1, EarlierGrows
    <3> QED
      BY <3>1
  <2>4. TypeOK
    <3>1. numbered \in Seq(Nat)
      BY <2>2, <2>3, SequenceIn
    <3>2. /\ \A i \in DOMAIN stack : stack[i] \in Headings /\ stack[i].title # <<>>
          /\ \A i \in DOMAIN sections : sections[i].path \in Seq({h.title : h \in Headings})
      BY <1>1, <2>1, HeadingsTyped
    <3>3. \A i \in DOMAIN sections : sections[i].last <= Len(lines)
      BY <2>1, SectionWithin
    <3>4. lines \in Seq(Lines) /\ next \in 1..(Len(lines) + 2) /\ current \in 0..Len(lines)
      BY <2>1 DEF Sectioned
    <3>5. fence \in FenceLines \cup {None}
      BY <1>1 DEF Pathing
    <3> QED
      BY <3>1, <3>2, <3>3, <3>4, <3>5 DEF TypeOK
  <2>5. Splitter!TypeOK
    <3>1. /\ text \in Seq(Splitter!Lines) /\ bound \in Bounds /\ done \in BOOLEAN
          /\ nextAtom \in 1..(Len(atoms) + 1) /\ IsSequence(pieces)
      BY <2>1 DEF Packing
    <3>2. atoms \in Seq(Intervals)
      <4>1. IsSequence(atoms) /\ \A i \in 1..Len(atoms) : atoms[i] \in Intervals
        BY <2>1 DEF Packing, Cut, Tiles
      <4> QED
        BY <4>1, SequenceIn
    <3>3. nextAtom \in Nat \ {0}
      <4>1. Len(atoms) \in Nat
        BY <2>1, PackingParts
      <4> QED
        BY <3>1, <4>1
    <3>4. IsSequence(Filled) /\ \A i \in 1..Len(Filled) : Filled[i] \in Intervals
      BY <2>1 DEF Packing, Packed, Cut, Tiles
    <3>5. (filling = <<>> \/ filling \in Intervals) /\ pieces \in Seq(Intervals)
      <4>1. CASE filling = <<>>
        <5>1. Filled = pieces
          BY <2>1, <4>1, PackingParts
        <5> QED
          BY <3>1, <3>4, <4>1, <5>1, SequenceIn
      <4>2. CASE filling # <<>>
        <5>1. Filled = Append(pieces, filling)
          BY <2>1, <4>2, PackingParts
        <5>2. /\ Len(Append(pieces, filling)) = Len(pieces) + 1
              /\ \A i \in 1..Len(pieces) : Append(pieces, filling)[i] = pieces[i]
              /\ Append(pieces, filling)[Len(pieces) + 1] = filling
          BY <3>1, Appended
        <5>3. Len(pieces) \in Nat
          BY <3>1, SequenceShape
        <5>4. /\ Len(pieces) + 1 \in 1..Len(Filled)
              /\ \A i \in 1..Len(pieces) : i \in 1..Len(Filled)
          BY <5>1, <5>2, <5>3
        <5>5. filling \in Intervals /\ \A i \in 1..Len(pieces) : pieces[i] \in Intervals
          BY <3>4, <5>1, <5>2, <5>4
        <5> QED
          BY <3>1, <5>5, SequenceIn
      <4> QED
        BY <4>1, <4>2
    <3> QED
      BY <3>1, <3>2, <3>3, <3>5 DEF Splitter!TypeOK, Intervals
  <2>6. format \in {"markdown", "plain_text"}
    BY <2>1 DEF Cursors
  <2>7. ASSUME NEW i \in DOMAIN chunks
        PROVE  /\ chunks[i].occurrence \in Nat /\ chunks[i].ordinalInSection \in Nat
               /\ chunks[i].section \in DOMAIN sections
    <3>1. /\ chunks[i].section \in DOMAIN numbered
          /\ chunks[i].occurrence = numbered[chunks[i].section]
      BY <2>1 DEF Identities
    <3>2. chunks[i].ordinalInSection \in Nat
      BY <2>1 DEF Placement
    <3>3. chunks[i].section \in DOMAIN sections
      BY <2>2, <3>1
    <3> QED
      BY <2>3, <3>1, <3>2, <3>3
  <2> QED
    BY <2>4, <2>5, <2>6, <2>7 DEF DocumentTypeOK
<1> QED
  BY <1>1, ChunkingInvariance, CuttingInvariance, PathingInvariance, PTL
=============================================================================
