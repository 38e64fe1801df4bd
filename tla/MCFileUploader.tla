--------------------------- MODULE MCFileUploader ---------------------------
(* FileUploader for TLC. *)
EXTENDS FileUploader
=============================================================================
