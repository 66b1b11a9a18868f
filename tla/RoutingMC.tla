----------------------------- MODULE RoutingMC ------------------------------
(***************************************************************************)
(* A small instance of Routing for TLC.                                    *)
(***************************************************************************)
EXTENDS Routing

CONSTANTS u1, q1

TwoPids    == {1, 2}
AnyProgram == {Pids \cup {0}}

(* The third account is the first one's user, who has logged in again. *)
ThreeAccounts == 1..3
Emails        == <<u1, Unknown, u1>>
=============================================================================
