--------------------------- MODULE MCTextFileModel ---------------------------
(* Small instances of TextFileModel. *)
EXTENDS TextFileModel
=============================================================================
