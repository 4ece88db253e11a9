---------------------------- MODULE MCVideoTable ----------------------------
(***************************************************************************)
(* The instance of VideoTable that TLC checks.                             *)
(***************************************************************************)
EXTENDS VideoTable, TLC

(* Requests and names are only compared, and the properties checked with   *)
(* the symmetry are invariants.                                            *)
Symmetry == Permutations(Request) \cup Permutations(Name)
=============================================================================
