----------------------------- MODULE MCAdminGate -----------------------------
(***************************************************************************)
(* TLC instances of AdminGate: one administrator id whose row changes      *)
(* hands between two names.                                                *)
(***************************************************************************)
EXTENDS AdminGate

CONSTANTS alice, bob

AdminToken == [state |-> "ok", role |-> "admin", id |-> 1, name |-> alice]
UserToken  == [state |-> "ok", role |-> "user", id |-> 1, name |-> alice]
GoneToken  == [state |-> "ok", role |-> "admin", id |-> 2, name |-> alice]

(* Every kind of token, for one request. *)
AnyToken == {[state |-> "none"], [state |-> "expired"], [state |-> "invalid"],
             AdminToken, UserToken, GoneToken}

=============================================================================
