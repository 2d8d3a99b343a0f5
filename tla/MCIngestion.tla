----------------------------- MODULE MCIngestion ----------------------------
(* Small instances of Ingestion for TLC. *)
EXTENDS Ingestion, TLC

\* p1 is configured with another bound than the rest.
CONSTANT p1
MCBoundOf == [p \in Processes |-> IF p = p1 THEN 1 ELSE 2]

\* Two files, two paths.
MCPathOf == [f \in Files |-> f]

\* On a POSIX file system a name may contain a backslash: the file "a\b.md"
\* and the file "b.md" in the directory "a" have the same normalized path.
MCOnePath == [f \in Files |-> "a/b.md"]
=============================================================================
