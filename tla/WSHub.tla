------------------------------- MODULE WSHub -------------------------------
(***************************************************************************)
(* The live list of requests (src/ws_hub.go and its page, src/ui.html).    *)
(*                                                                         *)
(* A handler announces its request twice: "running" when it starts and a   *)
(* final status when it ends.  Each announcement is a goroutine of its own *)
(* (BroadcastRequestEvent) that first puts the row into the recent list    *)
(* and then writes it to every connected page, so the two announcements of *)
(* a request may overtake each other in either step.  A page that connects *)
(* is registered first and is sent a snapshot of the list later.           *)
(*                                                                         *)
(* completed, error and truncated are one status here, Final: the guards   *)
(* on both sides treat them alike.                                         *)
(***************************************************************************)
EXTENDS Naturals, Sequences, FiniteSets, SequencesExt

CONSTANTS
  Requests,    \* requests the gateway handles
  Pages,       \* pages that may connect
  MaxRecent    \* rows the list, and a page, keep: 50

ASSUME HubAssumption == MaxRecent \in Nat \ {0}

Final == "final"
Row(r, status) == [id |-> r, status |-> status]

VARIABLES
  handler,     \* what the handler of each request has announced last
  sending,     \* the goroutines under way: a row and the step they are at
  recent,      \* h.recentEvents, oldest first
  link,        \* the connection of each page
  snapshot,    \* the list a page is about to be sent
  shown,       \* the rows each page shows, newest first
  guarded,     \* liveReqTerminal of each page
  followed     \* ghost: requests that began while the page was connected

hubVars == <<handler, sending, recent, link, snapshot, shown, guarded, followed>>
pages == <<link, snapshot, shown, guarded, followed>>

HubInit ==
  /\ handler = [r \in Requests |-> "none"]
  /\ sending = {}
  /\ recent = <<>>
  /\ link = [p \in Pages |-> "away"]
  /\ snapshot = [p \in Pages |-> <<>>]
  /\ shown = [p \in Pages |-> <<>>]
  /\ guarded = [p \in Pages |-> {}]
  /\ followed = [p \in Pages |-> {}]
-----------------------------------------------------------------------------
(* BroadcastRequestEvent: a goroutine that will add the row, then cast it. *)
Announce(r, status) ==
  sending' = sending \cup {[row |-> Row(r, status), step |-> "add"]}

Begin(r) ==
  /\ handler[r] = "none"
  /\ handler' = [handler EXCEPT ![r] = "running"]
  /\ Announce(r, "running")
  /\ followed' = [p \in Pages |-> IF link[p] = "open" THEN followed[p] \cup {r} ELSE followed[p]]
  /\ UNCHANGED <<recent, link, snapshot, shown, guarded>>

End(r) ==
  /\ handler[r] = "running"
  /\ handler' = [handler EXCEPT ![r] = Final]
  /\ Announce(r, Final)
  /\ UNCHANGED <<recent, pages>>

Positions(rows, r) == {i \in DOMAIN rows : rows[i].id = r}

Appended(list, row) ==
  Append(IF Len(list) >= MaxRecent THEN Tail(list) ELSE list, row)

(* Mutant: without the guard of A3, a late "running" wins. *)
WithRowUnguarded(list, row) ==
  IF Positions(list, row.id) = {} THEN Appended(list, row)
  ELSE [i \in DOMAIN list |-> IF list[i].id = row.id THEN row ELSE list[i]]

(* Mutant: the row is not looked for in the list. *)
WithRowAppending(list, row) == Appended(list, row)

(* AddRecentRequest: the row replaces the one with its id, but "running"   *)
(* never replaces a final status; a new row pushes the oldest out.         *)
WithRow(list, row) ==
  IF Positions(list, row.id) = {} THEN Appended(list, row)
  ELSE [i \in DOMAIN list |->
          IF list[i].id = row.id /\ ~(list[i].status = Final /\ row.status = "running")
          THEN row ELSE list[i]]

Add(g) ==
  /\ g.step = "add"
  /\ recent' = WithRow(recent, g.row)
  /\ sending' = (sending \ {g}) \cup {[g EXCEPT !.step = "cast"]}
  /\ UNCHANGED <<handler, pages>>

(* Mutant: the page's guard is forgotten. *)
PrependedUnguarded(rows, guards, row) ==
  IF Positions(rows, row.id) # {}
  THEN [i \in DOMAIN rows |-> IF rows[i].id = row.id THEN row ELSE rows[i]]
  ELSE IF Len(rows) >= MaxRecent THEN <<row>> \o Front(rows) ELSE <<row>> \o rows

(* prependLiveRequest, on the page: a row that is there is replaced unless *)
(* the guard says it has ended; a new one goes on top.                     *)
Prepended(rows, guards, row) ==
  IF Positions(rows, row.id) # {}
  THEN [i \in DOMAIN rows |->
          IF rows[i].id = row.id /\ ~(row.id \in guards /\ row.status = "running")
          THEN row ELSE rows[i]]
  ELSE IF Len(rows) >= MaxRecent THEN <<row>> \o Front(rows) ELSE <<row>> \o rows

(* Broadcast: the row is written to every registered page, under the lock. *)
Cast(g) ==
  /\ g.step = "cast"
  /\ sending' = sending \ {g}
  /\ shown' = [p \in Pages |-> IF link[p] = "away" THEN shown[p]
                               ELSE Prepended(shown[p], guarded[p], g.row)]
  /\ guarded' = [p \in Pages |-> IF link[p] = "away" \/ g.row.status # Final THEN guarded[p]
                                 ELSE guarded[p] \cup {g.row.id}]
  /\ UNCHANGED <<handler, recent, link, snapshot, followed>>
-----------------------------------------------------------------------------
(* handleWebSocket: register, ... *)
Register(p) ==
  /\ link[p] = "away"
  /\ link' = [link EXCEPT ![p] = "registered"]
  /\ UNCHANGED <<handler, sending, recent, snapshot, shown, guarded, followed>>

(* ... take the snapshot, ... *)
TakeSnapshot(p) ==
  /\ link[p] = "registered"
  /\ link' = [link EXCEPT ![p] = "snapshot"]
  /\ snapshot' = [snapshot EXCEPT ![p] = recent]
  /\ UNCHANGED <<handler, sending, recent, shown, guarded, followed>>

(* renderRecentRequests, on the page: the list is gone through from its    *)
(* newest row; each replaces the one that is there, guarded or not, or     *)
(* goes to the bottom.                                                     *)
Put(rows, row) ==
  IF Positions(rows, row.id) = {} THEN Append(rows, row)
  ELSE [i \in DOMAIN rows |-> IF rows[i].id = row.id THEN row ELSE rows[i]]

Rendered(rows, list) == FoldLeft(Put, rows, Reverse(list))

(* ... and send it. *)
SendInitState(p) ==
  /\ link[p] = "snapshot"
  /\ link' = [link EXCEPT ![p] = "open"]
  /\ shown' = [shown EXCEPT ![p] = Rendered(shown[p], snapshot[p])]
  /\ snapshot' = [snapshot EXCEPT ![p] = <<>>]
  /\ UNCHANGED <<handler, sending, recent, guarded, followed>>

(* The connection breaks, or a write fails; the page stays as it is and    *)
(* connects again, or it is loaded anew.                                   *)
Close(p) ==
  /\ link[p] # "away"
  /\ link' = [link EXCEPT ![p] = "away"]
  /\ snapshot' = [snapshot EXCEPT ![p] = <<>>]
  /\ followed' = [followed EXCEPT ![p] = {}]
  /\ \/ UNCHANGED <<shown, guarded>>
     \/ shown' = [shown EXCEPT ![p] = <<>>] /\ guarded' = [guarded EXCEPT ![p] = {}]
  /\ UNCHANGED <<handler, sending, recent>>

HubNext ==
  \/ \E r \in Requests : Begin(r) \/ End(r)
  \/ \E g \in sending : Add(g) \/ Cast(g)
  \/ \E p \in Pages : Register(p) \/ TakeSnapshot(p) \/ SendInitState(p) \/ Close(p)

HubSpec == HubInit /\ [][HubNext]_hubVars

Rows == {Row(r, status) : r \in Requests, status \in {"running", Final}}
-----------------------------------------------------------------------------
Begun == {r \in Requests : handler[r] # "none"}
RowsOf(list) == {list[i] : i \in DOMAIN list}

(* The states of the variables; the recent list never outgrows its limit.  *)
HubTypeOK ==
  /\ handler \in [Requests -> {"none", "running", Final}]
  /\ sending \subseteq [row : Rows, step : {"add", "cast"}]
  /\ RowsOf(recent) \subseteq Rows /\ Len(recent) <= MaxRecent
  /\ link \in [Pages -> {"away", "registered", "snapshot", "open"}]
  /\ \A p \in Pages : RowsOf(shown[p]) \cup RowsOf(snapshot[p]) \subseteq Rows
  /\ guarded \in [Pages -> SUBSET Requests]
  /\ followed \in [Pages -> SUBSET Requests]

(* A request has at most one row, in the list and on a page, although rows *)
(* arrive twice, in any order, by two ways (the snapshot and the casts),   *)
(* and come back after they were pushed out.                               *)
OneRowEach ==
  \A r \in Requests :
    /\ Cardinality(Positions(recent, r)) <= 1
    /\ \A p \in Pages : Cardinality(Positions(shown[p], r)) <= 1

(* The type invariant and the one that a list with two rows would break.   *)
WellFormed == HubTypeOK /\ OneRowEach

(* Whatever the order of the goroutines: once they are through, the list   *)
(* says of every request what its handler said last (as long as there are  *)
(* no more requests than rows).                                            *)
ListTells ==
  sending = {} /\ Cardinality(Begun) <= MaxRecent =>
    RowsOf(recent) = {Row(r, handler[r]) : r \in Begun}

(* And so does a page that was connected when the request began: its guard *)
(* outlasts every order of the messages.                                   *)
FollowerSeesEnd ==
  sending = {} /\ Cardinality(Begun) <= MaxRecent =>
    \A p \in Pages : \A r \in followed[p] : Row(r, handler[r]) \in RowsOf(shown[p])

(* The guard of AddRecentRequest (test TestCompletedNotOverwrittenByRunning): *)
(* a row in the list does not go back to "running".                        *)
ListNeverGoesBack ==
  [][\A r \in Requests :
       Row(r, Final) \in RowsOf(recent) => Row(r, "running") \notin RowsOf(recent')]_hubVars
=============================================================================
