------------------------------ MODULE MCRelease ------------------------------
(***************************************************************************)
(* TLC instances of Release.                                               *)
(***************************************************************************)
EXTENDS Release, TLC

(* Publishers differ in their checkouts only. *)
Symmetry == Permutations(Publisher)
==============================================================================
