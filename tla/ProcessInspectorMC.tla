------------------------- MODULE ProcessInspectorMC -------------------------
(***************************************************************************)
(* A small instance of ProcessInspector for TLC.                           *)
(***************************************************************************)
EXTENDS ProcessInspector, TLC

CONSTANTS c1, c2, c3, port1

TwoPids == 1..2

Interchangeable == Permutations({c1, c2, c3})
=============================================================================
