--------------------------- MODULE AuthManagerMC ---------------------------
(***************************************************************************)
(* Small instances of AuthManager for TLC: a token that is about to        *)
(* expire, and one whose date cannot be read.                              *)
(***************************************************************************)
EXTENDS AuthManager, TLC

CONSTANTS c1, c2, short, dateless

SomeTokens == {short, dateless}
Dates      == (short :> 3) @@ (dateless :> Unreadable)
=============================================================================
