----------------------------- MODULE MCDevPorts ------------------------------
(***************************************************************************)
(* TLC instances of DevPorts: the template and two derived repositories.   *)
(***************************************************************************)
EXTENDS DevPorts

CONSTANTS t, a, b

OwnId == [r \in Derived |-> r]   (* different project ids                    *)

(* The docs of a contain the web port of the first bundle, those of b a number
   that is nobody's port. *)
FirstWebPort == [r \in Derived |-> IF r = a THEN {5178} ELSE {5432}]
=============================================================================
