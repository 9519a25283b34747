--------------------------- MODULE MCAppLifecycle ----------------------------
(***************************************************************************)
(* TLC instance of AppLifecycle: one process from start to exit.           *)
(***************************************************************************)
EXTENDS AppLifecycle

CONSTANT cleanup   (* the call of Stop in the deferred cleanup                *)
=============================================================================
