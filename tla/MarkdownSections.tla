-------------------------- MODULE MarkdownSections --------------------------
(***************************************************************************)
(* split_into_sections and the identities _build_chunks gives to sections: *)
(* a Markdown text is scanned line by line, headings outside fenced code   *)
(* open sections, and a section is known by its heading path and by how    *)
(* many sections of that path came before it.                              *)
(***************************************************************************)
EXTENDS Naturals, Sequences, FiniteSets, SequencesExt

CONSTANTS
    Headings,   \* heading lines: [level, title]; a title is the sequence of its
                \* parts between unit separators, and empty on a line like "##"
    FenceLines, \* fence lines: [char, length, bare, opens], bare = nothing follows,
                \* opens = nothing but spaces and tabs comes before
    TextLines,  \* all other lines: [length, blank], blank = only a line ending
    MaxLines,   \* bound: lines of a text
    None

ASSUME SectionsAssumption ==
    /\ \A h \in Headings : h.level \in 1..6 /\ h = [level |-> h.level, title |-> h.title]
    /\ \A t \in TextLines : t.blank => t.length = 1
    /\ MaxLines \in Nat
    /\ None \notin FenceLines

VARIABLES
    lines,     \* the text
    next,      \* the line scanned next
    fence,     \* the open fence's marker, or None
    stack,     \* heading_stack: (level, title) pairs
    current,   \* first line of the section being collected, 0 when empty
    sections,  \* finished sections: heading path and line interval
    counts,    \* occurrence_counts: how often each path has been numbered
    numbered   \* section_occurrence of the sections numbered so far

vars == <<lines, next, fence, stack, current, sections, counts, numbered>>

Lines ==
    {[kind |-> "heading", level |-> h.level, title |-> h.title] : h \in Headings} \cup
    {[kind |-> "fence", mark |-> mark] : mark \in FenceLines} \cup
    {[kind |-> "text", length |-> t.length, blank |-> t.blank] : t \in TextLines}

\* Mutant: a heading without a title is a heading.
IsHeadingUntitled(line) == line.kind = "heading"

\* _parse_atx_heading finds a level and a title that is not empty.
IsHeading(line) == line.kind = "heading" /\ line.title # <<>>

TypeOK ==
    /\ lines \in Seq(Lines)
    /\ next \in 1..(Len(lines) + 2)
    /\ fence \in FenceLines \cup {None}
    /\ \A i \in DOMAIN stack : stack[i] \in Headings /\ stack[i].title # <<>>
    /\ current \in 0..Len(lines)
    /\ \A i \in DOMAIN sections :
          sections[i].path \in Seq({h.title : h \in Headings})
                                    /\ sections[i].last <= Len(lines)
    /\ numbered \in Seq(Nat)

Init ==
    /\ lines \in UNION {[1..n -> Lines] : n \in 0..MaxLines}
    /\ next = 1
    /\ fence = None
    /\ stack = <<>>
    /\ current = 0
    /\ sections = <<>>
    /\ counts = <<>>
    /\ numbered = <<>>

----------------------------------------------------------------------------

Scanning == next <= Len(lines)
Line == lines[next]

\* The line joins the section being collected.
Collect == current' = IF current = 0 THEN next ELSE current

\* _match_fence_open: _FENCE_OPEN_PATTERN allows spaces and tabs before the
\* marker, and anything after it.
Opens(line) == line.kind = "fence" /\ line.mark.opens

\* _is_fence_close: only the marker's character, at least as often; strip()
\* takes all white space off, so some lines close a fence and open none.
Closes(line, mark) ==
    /\ line.kind = "fence"
    /\ line.mark.bare
    /\ line.mark.char = mark.char
    /\ line.mark.length >= mark.length

\* Mutant: only the line that opened a fence closes it.
FenceAfterSame == IF Line.kind = "fence" /\ Line.mark = fence THEN None ELSE fence

FenceAfter == IF Closes(Line, fence) THEN None ELSE fence

ScanFenced ==
    /\ Scanning /\ fence # None
    /\ Collect
    /\ fence' = FenceAfter
    /\ next' = next + 1
    /\ UNCHANGED <<lines, stack, sections, counts, numbered>>

OpenFence ==
    /\ Scanning /\ fence = None
    /\ Opens(Line)
    /\ Collect
    /\ fence' = Line.mark
    /\ next' = next + 1
    /\ UNCHANGED <<lines, stack, sections, counts, numbered>>

Path == [i \in DOMAIN stack |-> stack[i].title]

\* flush_section: a section without lines is not emitted.
Flushed ==
    IF current = 0 THEN sections
    ELSE Append(sections, [path |-> Path, first |-> current, last |-> next - 1])

\* Mutant: level n has n - 1 headings around it.
OuterByPosition ==
    SubSeq(stack, 1, IF Line.level - 1 < Len(stack) THEN Line.level - 1 ELSE Len(stack))

\* Headings at least as deep as the new one are closed by it.
Outer ==
    FoldLeft(LAMBDA outer, entry :
                IF entry.level < Line.level THEN Append(outer, entry) ELSE outer,
             <<>>, stack)

StartSection ==
    /\ Scanning /\ fence = None
    /\ IsHeading(Line)
    /\ sections' = Flushed
    /\ stack' = Append(Outer, [level |-> Line.level, title |-> Line.title])
    /\ current' = next
    /\ next' = next + 1
    /\ UNCHANGED <<lines, fence, counts, numbered>>

ScanText ==
    /\ Scanning /\ fence = None
    /\ ~Opens(Line) /\ ~IsHeading(Line)
    /\ Collect
    /\ next' = next + 1
    /\ UNCHANGED <<lines, fence, stack, sections, counts, numbered>>

FinishScan ==
    /\ next = Len(lines) + 1
    /\ sections' = Flushed
    /\ current' = 0
    /\ next' = next + 1
    /\ UNCHANGED <<lines, fence, stack, counts, numbered>>

Scanned == next = Len(lines) + 2

\* as_identity_string: headings joined by a unit separator, which a heading
\* may itself contain.
IdentityString(path) == FlattenSeq(path)

\* Mutant: occurrences are counted by section path.
KeyOfHeadings(path) == path

\* identity_key.
OccurrenceKey(path) == IdentityString(path)

\* occurrence_counts.get(identity_key, 0).
Occurrence(key) == IF key \in DOMAIN counts THEN counts[key] ELSE 0

\* _build_chunks: the occurrence of a section's path, then its count goes up.
NumberSection ==
    LET key == OccurrenceKey(sections[Len(numbered) + 1].path)
    IN  /\ Scanned
        /\ Len(numbered) < Len(sections)
        /\ numbered' = Append(numbered, Occurrence(key))
        /\ counts' = [k \in DOMAIN counts \cup {key} |->
                        IF k = key THEN Occurrence(key) + 1 ELSE counts[k]]
        /\ UNCHANGED <<lines, next, fence, stack, current, sections>>

\* split_into_sections; the sections it returns are then numbered.
ScanStep == ScanFenced \/ OpenFence \/ StartSection \/ ScanText \/ FinishScan

----------------------------------------------------------------------------

\* The lines that open sections.
Openers == {sections[i].first : i \in DOMAIN sections} \cap
           {n \in DOMAIN lines : IsHeading(lines[n])}

\* Heading g is an ancestor of the section opened at h, or h itself: nothing
\* from the next heading on to h is as shallow as g.
Encloses(g, h) ==
    /\ g \in Openers /\ g <= h
    /\ \A m \in Openers : g < m /\ m <= h => lines[m].level > lines[g].level

\* A section's path is the chain of headings enclosing it, also when levels
\* are skipped or a document starts below level one.
PathsAreEnclosingHeadings ==
    Scanned =>
        \A i \in DOMAIN sections :
            LET h == sections[i].first
                path == sections[i].path
                chain == {g \in 1..h : Encloses(g, h)}
            IN  IF h \in Openers
                THEN /\ Len(path) = Cardinality(chain)
                     /\ \A g \in chain :
                           path[Cardinality({m \in chain : m <= g})] = lines[g].title
                ELSE path = <<>>

\* The fenced block that starts at line o: up to the first line that closes
\* its fence, or to the end of the text.
Block(o) ==
    {n \in o..Len(lines) : \A e \in (o + 1)..(n - 1) : ~Closes(lines[e], lines[o].mark)}

\* A heading line opens a section unless it is inside a fenced block, where
\* the fenced blocks are the disjoint ones that together contain every line
\* of the text that could open one: neither a fence line inside a block nor a block that is
\* never closed confuses the scanner.
OnlyFencesHideHeadings ==
    Scanned =>
        LET fences == {n \in DOMAIN lines : Opens(lines[n])}
        IN  \E starts \in SUBSET fences :
                /\ \A o, p \in starts : o # p => Block(o) \cap Block(p) = {}
                /\ fences \subseteq UNION {Block(o) : o \in starts}
                /\ Openers = {n \in DOMAIN lines : IsHeading(lines[n])}
                                \ UNION {Block(o) : o \in starts}
=============================================================================
