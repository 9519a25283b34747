----------------------------- MODULE MCTaskGroup -----------------------------
(***************************************************************************)
(* The TLC instance of TaskGroup: the sets are given in the configuration. *)
(***************************************************************************)
EXTENDS TaskGroup
=============================================================================
