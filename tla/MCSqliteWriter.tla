--------------------------- MODULE MCSqliteWriter ---------------------------
(* Small instances of the writer. *)
EXTENDS SqliteWriter
=============================================================================
