---------------------------- MODULE ThoughtStore ----------------------------
(***************************************************************************)
(* The thought-signature store (src/thought_store.go).                     *)
(*                                                                         *)
(* Gemini signs the reasoning behind each function call; a later request   *)
(* that replays the call must carry the same signature.  Streams hand      *)
(* signatures to Store, requests ask for them with Get, and one goroutine, *)
(* the persister, writes the map to a file: it receives from the one-slot  *)
(* channel `dirty`, sleeps, drains the channel, copies the map under the   *)
(* read lock, writes a temporary file and renames it over the real one.    *)
(*                                                                         *)
(* Store inserts under the lock and marks the store dirty after unlocking, *)
(* so the two are separate steps of a caller.  The process may die between *)
(* any two steps.  lastSignature is left out: only GetFallback reads it,   *)
(* and nothing calls GetFallback.                                          *)
(***************************************************************************)
EXTENDS Naturals, FiniteSets

CONSTANTS
  CallIds,     \* function-call ids
  Tools,       \* tool names
  NoTool,      \* the empty tool name: the key <<c, NoTool>> is the "twin"
  Offers,      \* the pairs <<call id, signature>> the streams hand to Store
  Sigs,        \* signatures
  Blank,       \* the empty signature: "nothing found"
  None,        \* no entry in a map
  Callers,     \* goroutines that call Store
  MaxKeys,     \* thoughtMaxKeys
  TTL,         \* thoughtTTL, in ticks of the clock
  MaxTime,     \* bound of the clock
  FirstFiles   \* what the very first start may find on disk

Keys  == CallIds \X (Tools \cup {NoTool})
Items == [sig : Sigs \cup {Blank}, time : Nat]
Maps  == [Keys -> Items \cup {None}]

Empty      == [k \in Keys |-> None]
Defined(m) == {k \in Keys : m[k] # None}

(* Every entry of f is in g, unchanged. *)
Within(f, g) == \A k \in Keys : f[k] # None => g[k] = f[k]

(* A missing, torn or otherwise undecodable file has no items. *)
Files == {f \in [status : {"absent", "corrupt", "ok"}, items : Maps] :
            f.status # "ok" => f.items = Empty}

ASSUME ConstantsAssumption ==
  /\ NoTool \notin Tools
  /\ Blank \notin Sigs
  /\ None \notin Items
  /\ Offers \subseteq CallIds \X Sigs
  /\ IsFiniteSet(Keys)
  /\ MaxKeys \in Nat \ {0}
  /\ TTL \in Nat
  /\ MaxTime \in Nat \ {0}
  /\ FirstFiles \subseteq Files

VARIABLES
  cache,       \* s.cache
  dirty,       \* s.dirty holds its token
  file,        \* thought_signatures.json
  snap,        \* the persister's copy, on its way to the file
  persister,   \* where the persister is
  caller,      \* where each caller of Store is
  now,         \* time.Now()
  saveFailed   \* ghost: the last save the persister tried failed

vars == <<cache, dirty, file, snap, persister, caller, now, saveFailed>>

TypeOK ==
  /\ cache \in Maps
  /\ dirty \in BOOLEAN
  /\ file \in Files
  /\ snap \in Maps
  /\ persister \in {"receive", "sleep", "copy", "write", "rename"}
  /\ caller \in [Callers -> {"idle", "mark"}]
  /\ now \in Nat
  /\ saveFailed \in BOOLEAN
-----------------------------------------------------------------------------
(* What loadFromFile keeps of a readable file: entries with a signature    *)
(* that are not older than the TTL; a zero timestamp never expires.        *)
Live(item) ==
  /\ item # None
  /\ item.sig # Blank
  /\ item.time = 0 \/ now - item.time <= TTL

Loaded(f) ==
  [k \in Keys |-> IF f.status = "ok" /\ Live(f.items[k]) THEN f.items[k] ELSE None]

(* An undecodable file is renamed out of the way; if that fails it stays.  *)
AfterLoad(f) ==
  IF f.status = "corrupt" THEN {f, [status |-> "absent", items |-> Empty]} ELSE {f}

(* NewThoughtStore on the file f: the persister waits, nobody has called. *)
Started(f) ==
  /\ cache' = Loaded(f)
  /\ dirty' = FALSE
  /\ snap' = Empty
  /\ persister' = "receive"
  /\ caller' = [c \in Callers |-> "idle"]
  /\ saveFailed' = FALSE
  /\ file' \in AfterLoad(f)

Init ==
  /\ now = 1
  /\ \E f \in FirstFiles : /\ cache = Loaded(f)
                           /\ file \in AfterLoad(f)
  /\ dirty = FALSE
  /\ snap = Empty
  /\ persister = "receive"
  /\ caller = [c \in Callers |-> "idle"]
  /\ saveFailed = FALSE
-----------------------------------------------------------------------------
(* Mutant: the exact key takes the latest value (header of                 *)
(* thought_store.go, item 4, undone).                                      *)
RememberedLatest(c, t, s) ==
  [k \in Keys |-> IF k = <<c, t>> \/ (k = <<c, NoTool>> /\ cache[k] = None)
                  THEN [sig |-> s, time |-> now]
                  ELSE cache[k]]

(* The map after Store(c, t, s): the exact key and the twin keep the first *)
(* value they got.                                                         *)
Remembered(c, t, s) ==
  [k \in Keys |-> IF k \in {<<c, t>>, <<c, NoTool>>} /\ cache[k] = None
                  THEN [sig |-> s, time |-> now]
                  ELSE cache[k]]

(* Mutant: Store forgets to mark the store dirty. *)
StoreInsertUnmarked(g, c, t, s) ==
  /\ caller[g] = "idle"
  /\ cache' = Remembered(c, t, s)
  /\ UNCHANGED <<dirty, file, snap, persister, caller, now, saveFailed>>

(* Store, up to the unlock.  An empty call id stores nothing. *)
StoreInsert(g, c, t, s) ==
  /\ caller[g] = "idle"
  /\ cache' = Remembered(c, t, s)
  /\ caller' = [caller EXCEPT ![g] = "mark"]
  /\ UNCHANGED <<dirty, file, snap, persister, now, saveFailed>>

StoreNoCallId(g) ==
  /\ caller[g] = "idle"
  /\ caller' = [caller EXCEPT ![g] = "mark"]
  /\ UNCHANGED <<cache, dirty, file, snap, persister, now, saveFailed>>

(* markDirty: a send that gives up when the slot is taken. *)
MarkDirty(g) ==
  /\ caller[g] = "mark"
  /\ dirty' = TRUE
  /\ caller' = [caller EXCEPT ![g] = "idle"]
  /\ UNCHANGED <<cache, file, snap, persister, now, saveFailed>>

(* Mutant: the global ":tool" alias Get once fell back to (item 1).        *)
GetThroughAlias(c, t) ==
  LET hits == {k \in Defined(cache) : k = <<c, t>> \/ k = <<c, NoTool>> \/ k[2] = t}
  IN  IF hits = {} THEN Blank ELSE cache[CHOOSE k \in hits : TRUE].sig

(* Get: the exact key, then the twin, then nothing. *)
Get(c, t) ==
  IF t # NoTool /\ cache[<<c, t>>] # None THEN cache[<<c, t>>].sig
  ELSE IF cache[<<c, NoTool>>] # None THEN cache[<<c, NoTool>>].sig
  ELSE Blank
-----------------------------------------------------------------------------
(* The persister: it takes the token, ... *)
Receive ==
  /\ persister = "receive"
  /\ dirty
  /\ dirty' = FALSE
  /\ persister' = "sleep"
  /\ UNCHANGED <<cache, file, snap, caller, now, saveFailed>>

(* ... wakes up and drains the channel, ... *)
Drain ==
  /\ persister = "sleep"
  /\ dirty' = FALSE
  /\ persister' = "copy"
  /\ UNCHANGED <<cache, file, snap, caller, now, saveFailed>>

(* What the size cap lets through of a map: all of it, or the first        *)
(* MaxKeys entries of an ascending sort by time, ties in any order.        *)
Kept(m) ==
  IF Cardinality(Defined(m)) <= MaxKeys THEN {Defined(m)}
  ELSE {K \in SUBSET Defined(m) :
          /\ Cardinality(K) = MaxKeys
          /\ \A k \in K, d \in Defined(m) \ K : m[k].time <= m[d].time}

Restricted(m, K) == [k \in Keys |-> IF k \in K THEN m[k] ELSE None]

(* ... copies the map under the read lock and caps the copy, ... *)
Copy ==
  /\ persister = "copy"
  /\ \E K \in Kept(cache) : snap' = Restricted(cache, K)
  /\ persister' = "write"
  /\ UNCHANGED <<cache, dirty, file, caller, now, saveFailed>>

(* saveAsync gives up: it logs the error and nothing marks the store dirty.*)
GiveUp ==
  /\ persister' = "receive"
  /\ snap' = Empty
  /\ saveFailed' = TRUE
  /\ UNCHANGED <<cache, dirty, file, caller, now>>

(* Mutant: the file itself is truncated and written. *)
WriteInPlace ==
  /\ persister = "write"
  /\ file' = [status |-> "corrupt", items |-> Empty]
  /\ persister' = "rename"
  /\ UNCHANGED <<cache, dirty, snap, caller, now, saveFailed>>

(* ... writes the temporary file, ... *)
WriteTmp ==
  /\ persister = "write"
  /\ \/ /\ persister' = "rename"
        /\ UNCHANGED <<cache, dirty, file, snap, caller, now, saveFailed>>
     \/ GiveUp

(* Mutant: the channel is drained after the save, so what a caller marked  *)
(* since the copy is thrown away.                                          *)
RenameThenDrain ==
  /\ persister = "rename"
  /\ file' = [status |-> "ok", items |-> snap]
  /\ snap' = Empty
  /\ dirty' = FALSE
  /\ persister' = "receive"
  /\ saveFailed' = FALSE
  /\ UNCHANGED <<cache, caller, now>>

(* ... and renames it over the file. *)
Rename ==
  /\ persister = "rename"
  /\ \/ /\ file' = [status |-> "ok", items |-> snap]
        /\ snap' = Empty
        /\ persister' = "receive"
        /\ saveFailed' = FALSE
        /\ UNCHANGED <<cache, dirty, caller, now>>
     \/ GiveUp
-----------------------------------------------------------------------------
Tick ==
  /\ now < MaxTime
  /\ now' = now + 1
  /\ UNCHANGED <<cache, dirty, file, snap, persister, caller, saveFailed>>

(* The process dies at any point and is started again.  Time that passes   *)
(* while it is down is a Tick before the crash: nobody else runs.          *)
Restart == Started(file) /\ UNCHANGED now

Persister == Receive \/ Drain \/ Copy \/ WriteTmp \/ Rename

Store(g) ==
  \/ \E o \in Offers, t \in Tools \cup {NoTool} : StoreInsert(g, o[1], t, o[2])
  \/ StoreNoCallId(g)

Next ==
  \/ \E g \in Callers : Store(g) \/ MarkDirty(g)
  \/ Persister
  \/ Tick
  \/ Restart

Spec == Init /\ [][Next]_vars

(* A goroutine that can run does: the persister, and a caller between the  *)
(* unlock and the send.  Nobody has to call Store, time may stand still,   *)
(* and the process may die as often as it likes.                           *)
FairSpec ==
  /\ Spec
  /\ WF_vars(Persister)
  /\ \A g \in Callers : WF_vars(MarkDirty(g))
-----------------------------------------------------------------------------
Overflow == Cardinality(Defined(cache)) > MaxKeys

(* Get never answers with the signature of another function call: neither  *)
(* the twin key, nor a conflict between two streams, nor a restart mixes   *)
(* them up (the alias the header of thought_store.go says was removed).    *)
SigsAtFirst(c) ==
  UNION {{f.items[<<c, t>>].sig : t \in {u \in Tools \cup {NoTool} : f.items[<<c, u>>] # None}}
           : f \in FirstFiles}

NoForeignSignature ==
  \A c \in CallIds, t \in Tools \cup {NoTool} :
    Get(c, t) # Blank => <<c, Get(c, t)>> \in Offers \/ Get(c, t) \in SigsAtFirst(c)

(* Every signature a map holds was offered for its call, or was on disk    *)
(* under it when the first process started.                                *)
Attributed(m) ==
  \A c \in CallIds, t \in Tools \cup {NoTool} :
    LET item == m[<<c, t>>] IN
    item # None /\ item.sig # Blank => <<c, item.sig>> \in Offers \/ item.sig \in SigsAtFirst(c)

(* Why Get answers nothing foreign: nothing foreign is on the way round    *)
(* from the map through the copy and the file to the map of the next start.*)
NothingForeign ==
  Attributed(cache) /\ Attributed(snap) /\ Attributed(file.items)

(* No wakeup is lost between Store's unlock, the one-slot channel and the  *)
(* persister's drain: when the persister waits, the channel is empty and   *)
(* no caller is on its way to mark it, the file has every entry of the map *)
(* (unless the save failed or the map is over the cap).                    *)
QuiescentMeansSaved ==
  /\ persister = "receive" /\ ~dirty
  /\ \A g \in Callers : caller[g] = "idle"
  /\ ~saveFailed /\ ~Overflow
  => Within(cache, file.items)

(* What the file would give back to the next start is what requests are    *)
(* being answered with now: a crash cannot change an answer, only lose it. *)
RestartAgrees == Within(Loaded(file), cache)

(* Some step already under way will copy the map after now. *)
Pending ==
  \/ dirty
  \/ persister \in {"sleep", "copy"}
  \/ \E g \in Callers : caller[g] = "mark"

(* The copy on its way to the file: it is a part of the map, it has what   *)
(* the file has, and either it is up to date or a later copy will be made. *)
CopyAgrees ==
  persister \in {"write", "rename"} =>
    /\ Within(snap, cache)
    /\ Overflow \/ Within(Loaded(file), snap)

NoLostWakeup ==
  ~Overflow =>
    \/ Pending
    \/ persister \in {"write", "rename"} /\ Within(cache, snap)
    \/ persister = "receive" /\ (saveFailed \/ Within(cache, file.items))

(* The inductive invariant the proofs rest on: why no crash changes an     *)
(* answer and no wakeup is lost.                                           *)
IInv == TypeOK /\ RestartAgrees /\ CopyAgrees /\ NoLostWakeup

(* A signature that reached the file is never replaced there by another    *)
(* one while it is young enough to be read back, across any number of      *)
(* saves, conflicts and restarts.                                          *)
DurableFirstWins ==
  [][\A k \in Keys : Live(file.items[k]) /\ file'.items[k] # None
                        => file'.items[k] = file.items[k]]_vars

(* No crash makes a readable file unreadable. *)
NeverTorn == [][file.status # "corrupt" => file'.status # "corrupt"]_vars

(* Every entry reaches the file, however busy the callers are, unless a    *)
(* save fails, the map is over the cap or the process dies first.          *)
EventuallyDurable ==
  \A k \in Keys :
    cache[k] # None ~> \/ file.items[k] = cache[k]
                       \/ cache[k] = None
                       \/ saveFailed
                       \/ Overflow

(* The store is a write-once map with a stable copy. *)
WriteOnce == INSTANCE WriteOnceMap WITH
  Entries <- Items, mem <- cache, stable <- Loaded(file), overflow <- Overflow

ImplementsWriteOnceMap == WriteOnce!Spec
=============================================================================
