-------------------------- MODULE MCEmployeeImport --------------------------
(* EmployeeImport for TLC. *)
EXTENDS EmployeeImport
=============================================================================
