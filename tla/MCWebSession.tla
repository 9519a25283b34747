---------------------------- MODULE MCWebSession -----------------------------
(***************************************************************************)
(* TLC instances of WebSession: the sets are given in the configurations.  *)
(***************************************************************************)
EXTENDS WebSession
=============================================================================
