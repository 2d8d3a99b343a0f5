------------------------------- MODULE Chunker ------------------------------
(***************************************************************************)
(* _split_section: one section's text is cut into chunks of at most        *)
(* max_chunk_chars characters, at paragraph boundaries where it can be,    *)
(* then at line boundaries, then anywhere.  DocumentChunks runs its steps  *)
(* on every section of a document.                                         *)
(*                                                                         *)
(* A text is a sequence of lines, of which only the length (line ending    *)
(* included) and blankness matter.  Pieces of the text are intervals       *)
(* <<first, last>> of its characters.                                      *)
(***************************************************************************)
EXTENDS Naturals, Sequences, SequencesExt

CONSTANTS
    Lengths,   \* lengths a line can have
    Bounds     \* values of max_chunk_chars

\* Assumed where texts and bounds come from, see DocumentChunks.
ChunkerAssumption ==
    /\ Lengths \subseteq Nat \ {0}
    /\ Bounds \subseteq Nat \ {0}

VARIABLES
    lines,    \* the text
    bound,    \* max_chunk_chars
    atoms,    \* the text cut into pieces no longer than the bound
    next,     \* the atom _greedy_pack looks at next
    current,  \* the chunk it is filling, or <<>>
    chunks,   \* the chunks it has finished
    done

\* A blank line is nothing but its line ending.
Lines == {l \in [length : Lengths, blank : BOOLEAN] : l.blank => l.length = 1}

\* The operators down to AtomsForUnits take the lines of a text.

\* The characters of the first n lines.
Total(text, n) == FoldLeft(LAMBDA sum, l : sum + l.length, 0, SubSeq(text, 1, n))

\* Lines i to j as an interval of characters.
Span(text, i, j) == <<Total(text, i - 1) + 1, Total(text, j)>>
Size(piece) == piece[2] - piece[1] + 1

\* itertools.groupby over _is_blank_line: maximal runs of like lines, as
\* intervals of line numbers.
Runs(text) ==
    FoldLeft(LAMBDA runs, i :
                IF runs # <<>> /\ text[Last(runs)[1]].blank = text[i].blank
                THEN Append(Front(runs), <<Last(runs)[1], i>>)
                ELSE Append(runs, <<i, i>>),
             <<>>, [i \in DOMAIN text |-> i])

\* _paragraph_units: a blank run joins the paragraph before it.
Units(text) ==
    FoldLeft(LAMBDA units, run :
                IF units # <<>> /\ text[run[1]].blank
                THEN Append(Front(units), <<Last(units)[1], run[2]>>)
                ELSE Append(units, run),
             <<>>, Runs(text))

\* Mutant: only full pieces.
HardSplitFull(piece) ==
    [j \in 1..(Size(piece) \div bound) |->
        <<piece[1] + (j - 1) * bound, piece[1] + j * bound - 1>>]

\* _hard_split: pieces of exactly the bound, the last one possibly shorter.
HardSplit(piece) ==
    [j \in 1..((Size(piece) + bound - 1) \div bound) |->
        <<piece[1] + (j - 1) * bound,
          IF piece[1] + j * bound - 1 < piece[2] THEN piece[1] + j * bound - 1
          ELSE piece[2]>>]

\* A line, or pieces of one that is too long.
LineAtoms(line) == IF Size(line) <= bound THEN <<line>> ELSE HardSplit(line)

\* Mutant: a unit as long as the bound is taken apart.
FitsBelow(piece) == Size(piece) < bound

Fits(piece) == Size(piece) <= bound

\* _atoms_for_units: a whole unit, or what becomes of its lines.
UnitAtoms(text, unit) ==
    IF Fits(Span(text, unit[1], unit[2])) THEN <<Span(text, unit[1], unit[2])>>
    ELSE FlattenSeq([i \in 1..(unit[2] - unit[1] + 1) |->
                        LineAtoms(Span(text, unit[1] + i - 1, unit[1] + i - 1))])

AtomsForUnits(text) ==
    LET units == Units(text)
    IN  FlattenSeq([u \in DOMAIN units |-> UnitAtoms(text, units[u])])

TypeOK ==
    /\ lines \in Seq(Lines)
    /\ bound \in Bounds
    /\ atoms \in Seq(Nat \X Nat)
    /\ next \in Nat \ {0}
    /\ current = <<>> \/ current \in Nat \X Nat
    /\ chunks \in Seq(Nat \X Nat)
    /\ done \in BOOLEAN

----------------------------------------------------------------------------

\* Mutant: a chunk is never filled up to the bound.
OverflowsEarly(piece) == current # <<>> /\ Size(current) + Size(piece) >= bound

Overflows(piece) == current # <<>> /\ Size(current) + Size(piece) > bound

\* _greedy_pack: the atom still fits, or starts a chunk of its own.
Pack ==
    /\ next <= Len(atoms)
    /\ ~Overflows(atoms[next])
    /\ current' = IF current = <<>> THEN atoms[next]
                  ELSE <<current[1], atoms[next][2]>>
    /\ next' = next + 1
    /\ UNCHANGED <<lines, bound, atoms, chunks, done>>

Flush ==
    /\ next <= Len(atoms)
    /\ Overflows(atoms[next])
    /\ chunks' = Append(chunks, current)
    /\ current' = atoms[next]
    /\ next' = next + 1
    /\ UNCHANGED <<lines, bound, atoms, done>>

Rest == IF current = <<>> THEN <<>> ELSE <<current>>

Finish ==
    /\ ~done
    /\ next = Len(atoms) + 1
    /\ done' = TRUE
    /\ chunks' = chunks \o Rest
    /\ current' = <<>>
    /\ UNCHANGED <<lines, bound, atoms, next>>

----------------------------------------------------------------------------

Inside(piece, whole) == whole[1] <= piece[1] /\ piece[2] <= whole[2]

\* A paragraph: consecutive lines that are not blank, as far as they go.
IsParagraph(i, j) ==
    /\ \A n \in i..j : ~lines[n].blank
    /\ i = 1 \/ lines[i - 1].blank
    /\ j = Len(lines) \/ lines[j + 1].blank

\* The blank lines that follow line j.
BlankEnd(j) ==
    CHOOSE e \in j..Len(lines) :
        /\ \A n \in (j + 1)..e : lines[n].blank
        /\ e = Len(lines) \/ ~lines[e + 1].blank

\* A paragraph that fits in a chunk with the blank lines after it is never
\* cut, and a line that fits in a chunk is never cut.
NaturalPiecesStayWhole ==
    done =>
        /\ \A i \in DOMAIN lines : \A j \in i..Len(lines) :
              IsParagraph(i, j) /\ Size(Span(lines, i, BlankEnd(j))) <= bound =>
                  \E c \in DOMAIN chunks : Inside(Span(lines, i, BlankEnd(j)), chunks[c])
        /\ \A i \in DOMAIN lines :
              lines[i].length <= bound =>
                  \E c \in DOMAIN chunks : Inside(Span(lines, i, i), chunks[c])

\* No two neighbouring chunks could have been one.
ChunksAreGreedy ==
    done =>
        \A i \in 1..(Len(chunks) - 1) :
            Size(chunks[i]) + Size(chunks[i + 1]) > bound
=============================================================================
