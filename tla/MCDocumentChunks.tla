-------------------------- MODULE MCDocumentChunks --------------------------
(* A small instance of DocumentChunks for TLC. *)
EXTENDS DocumentChunks

\* Three levels, a level-one heading that reads like two of them joined, and
\* a heading without a title.
MCHeadings ==
    {[level |-> n, title |-> <<"A">>] : n \in 1..3}
      \cup {[level |-> 1, title |-> <<"A", "A">>], [level |-> 2, title |-> <<>>]}

\* A fence with an info string, the same closed, a longer one, another, and
\* one behind a no-break space, which closes fences but opens none.
MCFenceLines ==
    {[char |-> "tick", length |-> 3, bare |-> FALSE, opens |-> TRUE],
     [char |-> "tick", length |-> 3, bare |-> TRUE, opens |-> TRUE],
     [char |-> "tick", length |-> 4, bare |-> TRUE, opens |-> TRUE],
     [char |-> "tilde", length |-> 4, bare |-> TRUE, opens |-> TRUE],
     [char |-> "tick", length |-> 3, bare |-> TRUE, opens |-> FALSE]}

\* A blank line, a short one and a long one.
MCTextLines ==
    {[length |-> 1, blank |-> TRUE], [length |-> 2, blank |-> FALSE],
     [length |-> 5, blank |-> FALSE]}

\* The longest texts are Markdown, have no text lines but short ones, and
\* are cut under the largest bound.
MCInit ==
    /\ DocumentInit
    /\ Len(lines) = MaxLines =>
          /\ format = "markdown"
          /\ \A b \in Bounds : b <= bound
          /\ \A i \in DOMAIN lines : lines[i].kind = "text" => lines[i].length = 2

MCSpec == MCInit /\ [][DocumentNext]_documentVars
=============================================================================
