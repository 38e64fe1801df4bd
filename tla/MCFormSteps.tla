---------------------------- MODULE MCFormSteps ----------------------------
(* FormSteps for TLC. *)
EXTENDS FormSteps
=============================================================================
