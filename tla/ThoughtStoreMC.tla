--------------------------- MODULE ThoughtStoreMC ---------------------------
(***************************************************************************)
(* Small instances of ThoughtStore for TLC.                                *)
(***************************************************************************)
EXTENDS ThoughtStore, TLC

CONSTANTS c1, c2, read, s1, s2, s3, g1, g2

(* Two calls of one tool, each with its own signature; the old file below  *)
(* has another one for the first, from another stream that answered it.    *)
TwoCalls       == {c1, c2}
TwoCallsOffers == {<<c1, s1>>, <<c2, s2>>}

OneTool    == {read}
TwoCallers == {g1, g2}

(* The files a first start may find: none, an undecodable one, and one     *)
(* left by an earlier run, with an entry without a signature, one without  *)
(* a timestamp, and one about to expire.                                   *)
Entry(s, t) == [sig |-> s, time |-> t]

Absent  == [status |-> "absent",  items |-> Empty]
Corrupt == [status |-> "corrupt", items |-> Empty]
Old     == [status |-> "ok",
            items  |-> (<<c1, read>> :> Entry(s1, 1)) @@ (<<c1, NoTool>> :> Entry(s3, 0)) @@
                       [k \in Keys |-> IF k = <<c2, NoTool>> THEN Entry(Blank, 1) ELSE None]]
SomeFiles == {Absent, Corrupt, Old}
=============================================================================
