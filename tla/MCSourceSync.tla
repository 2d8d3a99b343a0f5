---------------------------- MODULE MCSourceSync ----------------------------
(* A small instance of SourceSync for TLC. *)
EXTENDS SourceSync, TLC

\* A long content is two chunks under the small bound and one under the
\* large one, a short one a single chunk with the text of the long one's first.
MCSplit ==
    [cb \in Contents \X Bounds |->
        CASE cb = <<"long", "small">>  -> [i \in Positions |-> IF i = 1 THEN "x" ELSE "y"]
          [] cb = <<"long", "large">>  -> [i \in Positions |-> IF i = 1 THEN "xy" ELSE None]
          [] OTHER                     -> [i \in Positions |-> IF i = 1 THEN "x" ELSE None]]

\* Sources are interchangeable: the first call is of this one.
FirstSource == "docs"

MCNext ==
    /\ Next
    /\ \A c \in Connections :
          call'[c] # None /\ call'[c].now = 1 => call'[c].source = FirstSource

MCSpec == Init /\ [][MCNext]_vars /\ \A c \in Connections : WF_vars(SyncStep(c))

MCPositions == {1, 2}
MCTexts == {"x", "y", "xy"}
=============================================================================
