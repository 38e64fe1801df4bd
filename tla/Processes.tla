----------------------------- MODULE Processes -----------------------------
(***************************************************************************)
(* The processes that run the application (pods) on one database and one   *)
(* Redis, for the modules whose handlers they interleave.                  *)
(***************************************************************************)
CONSTANT Pods
=============================================================================
