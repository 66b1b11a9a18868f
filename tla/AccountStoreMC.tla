--------------------------- MODULE AccountStoreMC ---------------------------
(***************************************************************************)
(* A small instance of AccountStore for TLC.                               *)
(***************************************************************************)
EXTENDS AccountStore, TLC

CONSTANTS u1, u2, p1, w1

TwoPointers == 1..2

(* What the state comes to.  An account that is neither in the list nor    *)
(* held by a worker is garbage; of one that is only held, whether it has   *)
(* tokens steers the worker, and whose they are is written nowhere; which  *)
(* proxy a request takes matters up to when it takes it.                   *)
Held == {job[w].ref : w \in Workers} \ {0}
Live == [r \in list |-> acc[r]]
Gone == [r \in Held \ list |->
           <<acc[r].refresh = NoToken, acc[r].access = NoToken, acc[r].proxy>>]
Work == [w \in Workers |->
           [job[w] EXCEPT !.via  = IF Naming(job[w]) THEN @ ELSE NoProxy,
                          !.sent = IF job[w].ref \in list THEN @ ELSE NoToken]]
View == <<Live, Gone, file, Work, unsaved, cleared, proxyVars, faults>>

Interchangeable == Permutations(Users)
=============================================================================
