----------------------------- MODULE SessionIds -----------------------------
(***************************************************************************)
(* The table of session ids (getStealthSessionID in src/protocol.go,       *)
(* src/session_persist.go).                                                *)
(*                                                                         *)
(* Google keeps a prompt cache per session, so a client process must keep  *)
(* its session id for as long as it lives, restarts of the gateway         *)
(* included.  Ids are made up on first use and written to sessions.json by *)
(* a goroutine that is woken through a one-slot channel, as in             *)
(* ThoughtStore; unlike there, the channel is marked while the lock is     *)
(* still held, nothing expires, nothing is capped, and a file that cannot  *)
(* be decoded stays where it is until the next save replaces it.           *)
(***************************************************************************)
EXTENDS Naturals

CONSTANTS
  Pids,       \* process ids of clients
  NoPid,      \* the key of all clients whose process id is unknown
  Sids,       \* session ids the random generator may come up with
  NoId,       \* no entry
  FirstFiles  \* what the very first start may find on disk

Keys == Pids \cup {NoPid}
Maps == [Keys -> Sids \cup {NoId}]

Empty == [k \in Keys |-> NoId]

Files == {f \in [status : {"absent", "corrupt", "ok"}, ids : Maps] :
            f.status # "ok" => f.ids = Empty}

ASSUME SessionAssumption ==
  /\ NoPid \notin Pids
  /\ NoId \notin Sids
  /\ FirstFiles \subseteq Files

VARIABLES
  sessions,    \* stealthSessionMap
  dirty,       \* sessionsDirtyCh holds its token
  persister,   \* where the persister goroutine is
  snap,        \* its copy of the table
  file,        \* sessions.json
  saveFailed   \* ghost: the last save failed

sessionVars == <<sessions, dirty, persister, snap, file, saveFailed>>

SessionTypeOK ==
  /\ sessions \in Maps
  /\ dirty \in BOOLEAN
  /\ persister \in {"receive", "sleep", "copy", "write", "rename"}
  /\ snap \in Maps
  /\ file \in Files
  /\ saveFailed \in BOOLEAN

(* loadStealthSessions runs before the server starts: a file that is       *)
(* missing or cannot be decoded gives nothing, and is left in place.       *)
Loaded(f) == f.ids

SessionInit ==
  /\ file \in FirstFiles
  /\ sessions = Loaded(file)
  /\ dirty = FALSE
  /\ persister = "receive"
  /\ snap = Empty
  /\ saveFailed = FALSE
-----------------------------------------------------------------------------
(* Mutant: clients without a process id get a new id on each request, as   *)
(* the comment in getStealthSessionID says they once did.                  *)
GetStealthSessionIDAnew(k, sid) ==
  /\ sessions[k] = NoId \/ k = NoPid
  /\ sessions' = [sessions EXCEPT ![k] = sid]
  /\ dirty' = TRUE
  /\ UNCHANGED <<persister, snap, file, saveFailed>>

(* Mutant: the table is changed, but not marked dirty. *)
GetStealthSessionIDUnmarked(k, sid) ==
  /\ sessions[k] = NoId
  /\ sessions' = [sessions EXCEPT ![k] = sid]
  /\ UNCHANGED <<dirty, persister, snap, file, saveFailed>>

(* getStealthSessionID for a client that has no id yet and brings none: a  *)
(* new one is entered and the table marked dirty, all under the lock.  In  *)
(* the other cases it changes nothing.                                     *)
GetStealthSessionID(k, sid) ==
  /\ sessions[k] = NoId
  /\ sessions' = [sessions EXCEPT ![k] = sid]
  /\ dirty' = TRUE
  /\ UNCHANGED <<persister, snap, file, saveFailed>>

(* startSessionPersister: receive, sleep a second, drain, save. *)
Receive ==
  /\ persister = "receive"
  /\ dirty
  /\ dirty' = FALSE
  /\ persister' = "sleep"
  /\ UNCHANGED <<sessions, snap, file, saveFailed>>

Drain ==
  /\ persister = "sleep"
  /\ dirty' = FALSE
  /\ persister' = "copy"
  /\ UNCHANGED <<sessions, snap, file, saveFailed>>

(* saveSessions: copy the table under the lock, ... *)
Copy ==
  /\ persister = "copy"
  /\ snap' = sessions
  /\ persister' = "write"
  /\ UNCHANGED <<sessions, dirty, file, saveFailed>>

GiveUp ==
  /\ persister' = "receive"
  /\ snap' = Empty
  /\ saveFailed' = TRUE
  /\ UNCHANGED <<sessions, dirty, file>>

(* ... write the temporary file, ... *)
WriteTmp ==
  /\ persister = "write"
  /\ \/ /\ persister' = "rename"
        /\ UNCHANGED <<sessions, dirty, snap, file, saveFailed>>
     \/ GiveUp

(* Mutant: the channel is drained after the save instead. *)
RenameThenDrain ==
  /\ persister = "rename"
  /\ file' = [status |-> "ok", ids |-> snap]
  /\ snap' = Empty
  /\ dirty' = FALSE
  /\ persister' = "receive"
  /\ saveFailed' = FALSE
  /\ UNCHANGED sessions

(* ... and rename it. *)
Rename ==
  /\ persister = "rename"
  /\ \/ /\ file' = [status |-> "ok", ids |-> snap]
        /\ snap' = Empty
        /\ persister' = "receive"
        /\ saveFailed' = FALSE
        /\ UNCHANGED <<sessions, dirty>>
     \/ GiveUp

(* The process dies, at any point, and starts again. *)
Restart ==
  /\ sessions' = Loaded(file)
  /\ dirty' = FALSE
  /\ persister' = "receive"
  /\ snap' = Empty
  /\ saveFailed' = FALSE
  /\ UNCHANGED file

Persister == Receive \/ Drain \/ Copy \/ WriteTmp \/ Rename

SessionNext ==
  \/ \E k \in Keys, sid \in Sids : GetStealthSessionID(k, sid)
  \/ Persister
  \/ Restart

SessionSpec == SessionInit /\ [][SessionNext]_sessionVars

FairSessionSpec == SessionSpec /\ WF_sessionVars(Persister)
-----------------------------------------------------------------------------
Within(f, g) == \A k \in Keys : f[k] # NoId => g[k] = f[k]

Pending == dirty \/ persister \in {"sleep", "copy"}

(* What the file has is in the table, what is on its way to the file is    *)
(* between the two, and no new id is forgotten between the lock, the       *)
(* channel and the persister: either a copy is still to be made, or the    *)
(* one under way or the file is complete.                                  *)
NoLostWakeup ==
  /\ Within(file.ids, sessions)
  /\ persister \in {"write", "rename"} => Within(snap, sessions) /\ Within(file.ids, snap)
  /\ \/ Pending
     \/ persister \in {"write", "rename"} /\ Within(sessions, snap)
     \/ persister = "receive" /\ (saveFailed \/ Within(sessions, file.ids))

SessionInv == SessionTypeOK /\ NoLostWakeup

(* A client's session id is never replaced by another one, and once it is  *)
(* in the file no crash changes that: the table is a write-once map with a *)
(* stable copy.                                                            *)
WriteOnce == INSTANCE WriteOnceMap WITH
  Entries <- Sids, None <- NoId, mem <- sessions, stable <- Loaded(file), overflow <- FALSE

ImplementsWriteOnceMap == WriteOnce!Spec

(* Every id reaches the file, unless a save fails or the process dies. *)
EventuallyDurable ==
  \A k \in Keys :
    sessions[k] # NoId ~> file.ids[k] = sessions[k] \/ sessions[k] = NoId \/ saveFailed
=============================================================================
