----------------------------- MODULE MCBootstrap -----------------------------
(***************************************************************************)
(* TLC instance of AdminBootstrap: replicas that share a configuration.    *)
(***************************************************************************)
EXTENDS AdminBootstrap

CONSTANTS n1, n2, r1, r2

SameAdmin == [r \in Replica |-> n1]
=============================================================================
