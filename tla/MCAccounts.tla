----------------------------- MODULE MCAccounts -----------------------------
(***************************************************************************)
(* TLC instances of Accounts.                                              *)
(***************************************************************************)
EXTENDS Accounts

CONSTANTS n1, n2, r1, r2

(* A rollout that changes data.auth.admin.username. *)
RenamedAdmin == [r \in Replica |-> IF r = r1 THEN n1 ELSE n2]

(* One replica of a deployment without auth.admin. *)
OneWithoutAdmin == [r \in Replica |-> IF r = r1 THEN n1 ELSE NoAdmin]
=============================================================================
