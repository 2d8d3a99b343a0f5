--------------------------- MODULE MCVectorRebuild --------------------------
(* A small instance of VectorRebuild for TLC: one source of one file. *)
EXTENDS VectorRebuild, TLC

\* A long content is two chunks, a short one only the first, retitled text,
\* a blank one none.
MCSplit ==
    [cb \in Contents \X Bounds |->
        CASE cb[1] = "long"  -> [i \in Positions |-> IF i = 1 THEN "x" ELSE "y"]
          [] cb[1] = "short" -> [i \in Positions |-> IF i = 1 THEN "z" ELSE None]
          [] OTHER           -> [i \in Positions |-> None]]

MCAnywhere == Steps \ {"idle"}
MCNowhere == {}

MCPositions == {1, 2}
MCTexts == {"x", "y", "z"}
=============================================================================
