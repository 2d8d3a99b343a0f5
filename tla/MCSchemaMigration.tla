-------------------------- MODULE MCSchemaMigration -------------------------
(* A small instance of SchemaMigration for TLC. *)
EXTENDS SchemaMigration, TLC
=============================================================================
