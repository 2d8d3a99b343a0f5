--------------------------- MODULE MCSearchSession --------------------------
(* A small instance of SearchSession for TLC: one source of one file. *)
EXTENDS SearchSession

\* A long content is two chunks, a short one only the first, retitled text,
\* a blank one none.
MCSplit ==
    [cb \in Contents \X Bounds |->
        CASE cb[1] = "long"  -> [i \in Positions |-> IF i = 1 THEN "x" ELSE "y"]
          [] cb[1] = "short" -> [i \in Positions |-> IF i = 1 THEN "z" ELSE None]
          [] OTHER           -> [i \in Positions |-> None]]

\* Anywhere but between DROP TABLE and CREATE VIRTUAL TABLE: a rebuild that
\* died there leaves no table, and the next one of the recorded dimension
\* puts an empty table beside metadata that say it is complete.
MCNoGap == Steps \ {"idle", "creating"}
MCNowhere == {}

MCPositions == {1, 2}
MCTexts == {"x", "y", "z"}
\* The two models are interchangeable: the reader has the first.
MCInit == SessionInit /\ session[1] = "m1"

MCSpec == MCInit /\ [][SessionNext]_sessionVars

MCMatching == {"x", "z"}
MCChunkOrder == <<<<<<"docs", "a">>, 1>>, <<<<"docs", "a">>, 2>>>>
=============================================================================
