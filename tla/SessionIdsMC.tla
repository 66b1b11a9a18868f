---------------------------- MODULE SessionIdsMC ----------------------------
(***************************************************************************)
(* Small instances of SessionIds for TLC.                                  *)
(***************************************************************************)
EXTENDS SessionIds

CONSTANTS p1, p2, s1, s2

(* No file, one that cannot be decoded, and one of an earlier run. *)
SomeFiles ==
  {[status |-> "absent",  ids |-> Empty],
   [status |-> "corrupt", ids |-> Empty],
   [status |-> "ok",      ids |-> [k \in Keys |-> IF k = NoPid THEN s1 ELSE NoId]]}
=============================================================================
