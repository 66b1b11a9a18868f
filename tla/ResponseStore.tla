--------------------------- MODULE ResponseStore ---------------------------
(***************************************************************************)
(* The store of finished responses (src/response_store.go): a list, the    *)
(* most recently used response in front, and a map into the list, both     *)
(* under one mutex, holding at most Capacity responses in memory.          *)
(*                                                                         *)
(* Two ghost variables say what a user of the store can rely on: which     *)
(* responses were saved and not deleted, and which others were used since  *)
(* a response was used last.                                               *)
(***************************************************************************)
EXTENDS Naturals, Sequences, FiniteSets

CONSTANTS
  Ids,       \* response ids
  Capacity   \* responses the store holds: 300

ASSUME CapacityAssumption == Capacity \in Nat \ {0}

VARIABLES
  order,   \* s.order: [id, state], front first
  items,   \* the keys of s.items
  kept,    \* ghost: saved and not deleted
  since    \* ghost: for each id, the others used since it was used last

store == <<order, items, kept, since>>

Entry(id, state) == [id |-> id, state |-> state]

StoreInit ==
  /\ order = <<>>
  /\ items = {}
  /\ kept = {}
  /\ since = [id \in Ids |-> {}]

Position(id) == CHOOSE i \in DOMAIN order : order[i].id = id

Lookup(id) == order[Position(id)].state

(* list.MoveToFront, for the element at position p. *)
MovedToFront(list, p) ==
  [i \in 1..Len(list) |-> IF i = 1 THEN list[p] ELSE IF i <= p THEN list[i - 1] ELSE list[i]]

(* list.PushFront. *)
Pushed(entry, list) ==
  [i \in 1..(Len(list) + 1) |-> IF i = 1 THEN entry ELSE list[i - 1]]

(* list.Remove, for the element at position p. *)
Removed(list, p) ==
  [i \in 1..(Len(list) - 1) |-> IF i < p THEN list[i] ELSE list[i + 1]]

(* What stays when the list is cut down to Capacity from the back. *)
Trimmed(list) == [i \in 1..(IF Len(list) > Capacity THEN Capacity ELSE Len(list)) |-> list[i]]

Use(id) ==
  since' = [x \in Ids |-> IF x = id THEN {} ELSE since[x] \cup {id}]

(* Save: a known id is written over and moved to the front; a new one goes *)
(* to the front, and the back is dropped while there are too many.         *)
Save(id, state) ==
  /\ IF id \in items
     THEN /\ order' = MovedToFront([order EXCEPT ![Position(id)] = Entry(id, state)], Position(id))
          /\ UNCHANGED items
     ELSE /\ order' = Trimmed(Pushed(Entry(id, state), order))
          /\ items' = (items \cup {id}) \ {order[i].id : i \in {j \in DOMAIN order : j >= Capacity}}
  /\ kept' = kept \cup {id}
  /\ Use(id)

(* Mutant: a read does not count as a use. *)
GetInPlace(id) ==
  /\ id \in items
  /\ Use(id)
  /\ UNCHANGED <<order, items, kept>>

(* Get, of a response that is there and of one that is not. *)
Get(id) ==
  /\ id \in items
  /\ order' = MovedToFront(order, Position(id))
  /\ Use(id)
  /\ UNCHANGED <<items, kept>>

GetMissing(id) == id \notin items /\ UNCHANGED store

(* Mutant: the map keeps the key. *)
DeleteFromListOnly(id) ==
  /\ id \in items
  /\ order' = Removed(order, Position(id))
  /\ kept' = kept \ {id}
  /\ UNCHANGED <<items, since>>

(* Delete; of a response that is not there it does nothing. *)
Delete(id) ==
  /\ id \in items
  /\ order' = Removed(order, Position(id))
  /\ items' = items \ {id}
  /\ kept' = kept \ {id}
  /\ UNCHANGED since

(* The store lives in memory: a restart of the gateway empties it. *)
StoreRestart ==
  /\ order' = <<>>
  /\ items' = {}
  /\ kept' = {}
  /\ since' = [id \in Ids |-> {}]

(* What a state is, the store does not care. *)
StoreNext ==
  \/ \E id \in Ids : \/ \E state : Save(id, state)
                     \/ Get(id) \/ GetMissing(id) \/ Delete(id)
  \/ StoreRestart

StoreSpec == StoreInit /\ [][StoreNext]_store
-----------------------------------------------------------------------------
StoreTypeOK ==
  /\ \A i \in DOMAIN order : order[i].id \in Ids
  /\ items \subseteq Ids
  /\ kept \subseteq Ids
  /\ since \in [Ids -> SUBSET Ids]

(* The list and the map hold the same responses, each once, and never more *)
(* than the limit: a lookup in the map always finds its list element.      *)
ListMatchesMap ==
  /\ Len(order) <= Capacity
  /\ items = {order[i].id : i \in DOMAIN order}
  /\ \A i, j \in DOMAIN order : order[i].id = order[j].id => i = j

(* Least recently used: a saved response is only forgotten when at least   *)
(* Capacity others were saved or read since it was itself saved or read,   *)
(* in whatever order they came and whichever were deleted in between.      *)
RecentIsKept ==
  \A id \in kept : id \in items \/ Cardinality(since[id]) >= Capacity
=============================================================================
