------------------------------ MODULE WSHubMC ------------------------------
(***************************************************************************)
(* Small instances of WSHub for TLC.                                       *)
(***************************************************************************)
EXTENDS WSHub, TLC

CONSTANTS r1, r2, r3, p1

(* No action and no property tells one request from another. *)
RequestSymmetry == Permutations(Requests)
=============================================================================
