---------------------------- MODULE WriteOnceMap ----------------------------
(***************************************************************************)
(* What a debounced, write-once store promises, whatever its file format   *)
(* and its threads: a volatile map that never changes an entry it has, and *)
(* a stable copy that survives a restart.  The thought-signature store     *)
(* (thought_store.go) and the session-id table (session_persist.go) are    *)
(* both shown to implement it.                                             *)
(***************************************************************************)
CONSTANTS Keys,      \* what the store is asked for
          Entries,   \* what it answers
          None       \* no entry

VARIABLES mem,       \* the map requests are answered from
          stable,    \* what the next start of the process would find
          overflow   \* TRUE when mem has outgrown what the file may hold

vars == <<mem, stable, overflow>>

Maps == [Keys -> Entries \cup {None}]

(* Every entry of f is in g, unchanged. *)
Within(f, g) == \A k \in Keys : f[k] # None => g[k] = f[k]

TypeOK ==
  /\ mem \in Maps
  /\ stable \in Maps
  /\ overflow \in BOOLEAN

Init ==
  /\ stable \in Maps
  /\ mem = stable
  /\ overflow \in BOOLEAN

(* New entries appear; the ones already there stay as they are. *)
Learn ==
  /\ mem' \in Maps
  /\ Within(mem, mem')
  /\ overflow' \in BOOLEAN
  /\ UNCHANGED stable

(* The stable copy is replaced by a part of the map.  It forgets nothing,  *)
(* unless the map has outgrown the file.                                   *)
Checkpoint ==
  /\ stable' \in Maps
  /\ Within(stable', mem)
  /\ Within(stable, stable') \/ overflow
  /\ UNCHANGED <<mem, overflow>>

(* Stable entries grow too old to be read back. *)
Expire ==
  /\ stable' \in Maps
  /\ Within(stable', stable)
  /\ UNCHANGED <<mem, overflow>>

(* The process dies and starts again from the stable copy. *)
Restart ==
  /\ mem' = stable
  /\ overflow' \in BOOLEAN
  /\ UNCHANGED stable

Next == Learn \/ Checkpoint \/ Expire \/ Restart

Spec == Init /\ [][Next]_vars
=============================================================================
