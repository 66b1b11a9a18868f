------------------------- MODULE ThoughtStoreProofs -------------------------
(***************************************************************************)
(* Proofs about ThoughtStore, for every set of calls, tools, signatures    *)
(* and callers, every cap and every TTL.                                   *)
(***************************************************************************)
EXTENDS ThoughtStore, FiniteSetTheorems, TLAPS
-----------------------------------------------------------------------------
(* A map that has everything another one has is at least as large. *)
LEMMA WithinCardinality ==
  ASSUME NEW f, NEW g, Within(f, g)
  PROVE  Cardinality(Defined(f)) <= Cardinality(Defined(g))
<1>1. Defined(f) \subseteq Defined(g)
  BY DEF Within, Defined
<1>2. IsFiniteSet(Defined(g))
  <2>1. Defined(g) \subseteq Keys
    BY DEF Defined
  <2> QED
    BY <2>1, ConstantsAssumption, FS_Subset
<1> QED
  BY <1>1, <1>2, FS_Subset

(* Cardinalities of what maps hold are numbers. *)
LEMMA DefinedNat ==
  ASSUME NEW f
  PROVE  Cardinality(Defined(f)) \in Nat
<1>1. Defined(f) \subseteq Keys
  BY DEF Defined
<1> QED
  BY <1>1, ConstantsAssumption, FS_Subset, FS_CardinalityType

(* A map that grows stays over the cap once it is. *)
LEMMA OverflowStays ==
  ASSUME Within(cache, cache'), Overflow
  PROVE  Overflow'
<1>1. Cardinality(Defined(cache)) <= Cardinality(Defined(cache'))
  BY WithinCardinality
<1>2. /\ Cardinality(Defined(cache)) \in Nat
      /\ Cardinality(Defined(cache')) \in Nat
  BY DefinedNat
<1>3. Defined(cache)' = Defined(cache')
  BY DEF Defined
<1> QED
  BY <1>1, <1>2, <1>3, ConstantsAssumption DEF Overflow

(* What a start reads from a file is a map, and a part of the file. *)
LEMMA LoadedType ==
  ASSUME NEW f \in Files
  PROVE  Loaded(f) \in Maps /\ Within(Loaded(f), f.items)
BY DEF Loaded, Files, Maps, Within

(* Store adds to the map and changes nothing in it. *)
LEMMA RememberedGrows ==
  ASSUME TypeOK, NEW c \in CallIds, NEW t \in Tools \cup {NoTool}, NEW s \in Sigs
  PROVE  Remembered(c, t, s) \in Maps /\ Within(cache, Remembered(c, t, s))
<1>1. [sig |-> s, time |-> now] \in Items
  BY DEF TypeOK, Items
<1> QED
  BY <1>1 DEF TypeOK, Remembered, Maps, Within

(* A capped copy is a part of the map, and all of it below the cap. *)
LEMMA RestrictedWithin ==
  ASSUME TypeOK, NEW K \in Kept(cache)
  PROVE  /\ Restricted(cache, K) \in Maps
         /\ Within(Restricted(cache, K), cache)
         /\ ~Overflow => Within(cache, Restricted(cache, K))
<1>1. Restricted(cache, K) \in Maps /\ Within(Restricted(cache, K), cache)
  BY DEF TypeOK, Restricted, Maps, Within
<1>2. ASSUME ~Overflow PROVE Within(cache, Restricted(cache, K))
  <2>1. Cardinality(Defined(cache)) <= MaxKeys
    BY <1>2, DefinedNat, ConstantsAssumption DEF Overflow
  <2>2. K = Defined(cache)
    BY <2>1 DEF Kept
  <2> QED
    BY <2>2 DEF Within, Restricted, Defined
<1> QED
  BY <1>1, <1>2
-----------------------------------------------------------------------------
LEMMA InitIInv == Init => IInv
<1> SUFFICES ASSUME Init PROVE IInv
  OBVIOUS
<1>1. PICK f \in FirstFiles : cache = Loaded(f) /\ file \in AfterLoad(f)
  BY DEF Init
<1>2. f \in Files
  BY ConstantsAssumption
<1>3. file \in Files /\ file.items = f.items /\ Loaded(file) = Loaded(f)
  BY <1>1, <1>2 DEF AfterLoad, Files, Loaded
<1>4. TypeOK
  <2>1. Empty \in Maps
    BY DEF Empty, Maps
  <2> QED
    BY <1>1, <1>2, <1>3, <2>1, LoadedType DEF Init, TypeOK
<1>5. RestartAgrees
  BY <1>1, <1>3 DEF RestartAgrees, Within
<1>6. CopyAgrees
  BY DEF Init, CopyAgrees
<1>7. NoLostWakeup
  BY <1>1, <1>2, <1>3, LoadedType DEF Init, NoLostWakeup
<1> QED
  BY <1>4, <1>5, <1>6, <1>7 DEF IInv

(* TypeOK is inductive on its own. *)
LEMMA TypeOKStep == TypeOK /\ [Next]_vars => TypeOK'
<1> SUFFICES ASSUME TypeOK, [Next]_vars PROVE TypeOK'
  OBVIOUS
<1> USE DEF TypeOK
<1>0. Empty \in Maps
  BY DEF Empty, Maps
<1>1. ASSUME NEW g \in Callers, Store(g) PROVE TypeOK'
  <2>1. ASSUME NEW o \in Offers, NEW t \in Tools \cup {NoTool}, StoreInsert(g, o[1], t, o[2])
        PROVE  TypeOK'
    <3>1. o[1] \in CallIds /\ o[2] \in Sigs
      BY ConstantsAssumption
    <3> QED
      BY <2>1, <3>1, RememberedGrows DEF StoreInsert
  <2>2. CASE StoreNoCallId(g)
    BY <2>2 DEF StoreNoCallId
  <2> QED
    BY <1>1, <2>1, <2>2 DEF Store
<1>2. ASSUME NEW g \in Callers, MarkDirty(g) PROVE TypeOK'
  BY <1>2 DEF MarkDirty
<1>3. CASE Receive
  BY <1>3 DEF Receive
<1>4. CASE Drain
  BY <1>4 DEF Drain
<1>5. CASE Copy
  BY <1>5, RestrictedWithin DEF Copy
<1>6. CASE WriteTmp
  BY <1>6, <1>0 DEF WriteTmp, GiveUp
<1>7. CASE Rename
  <2>1. file' = [status |-> "ok", items |-> snap] => file' \in Files
    BY DEF Files
  <2> QED
    BY <1>7, <1>0, <2>1 DEF Rename, GiveUp
<1>8. CASE Tick
  BY <1>8 DEF Tick
<1>9. CASE Restart
  <2>1. file' \in Files
    BY <1>9 DEF Restart, Started, AfterLoad, Files
  <2> QED
    BY <1>9, <1>0, <2>1, LoadedType DEF Restart, Started
<1>10. CASE UNCHANGED vars
  BY <1>10 DEF vars
<1> QED
  BY <1>1, <1>2, <1>3, <1>4, <1>5, <1>6, <1>7, <1>8, <1>9, <1>10 DEF Next, Persister

(* The whole invariant is inductive. *)
LEMMA IInvStep == IInv /\ [Next]_vars => IInv'
<1> SUFFICES ASSUME IInv, [Next]_vars PROVE IInv'
  OBVIOUS
<1>t. TypeOK /\ TypeOK'
  BY TypeOKStep DEF IInv
<1> USE <1>t DEF IInv
<1>1. ASSUME NEW g \in Callers, Store(g) PROVE IInv'
  <2>1. /\ Within(cache, cache')
        /\ caller' = [caller EXCEPT ![g] = "mark"]
        /\ UNCHANGED <<file, snap, persister, now>>
    <3>1. ASSUME NEW o \in Offers, NEW t \in Tools \cup {NoTool}, StoreInsert(g, o[1], t, o[2])
          PROVE  Within(cache, cache')
      <4>1. o[1] \in CallIds /\ o[2] \in Sigs
        BY ConstantsAssumption
      <4> QED
        BY <3>1, <4>1, RememberedGrows DEF StoreInsert
    <3>2. CASE StoreNoCallId(g)
      BY <3>2 DEF StoreNoCallId, Within
    <3> QED
      BY <1>1, <3>1, <3>2 DEF Store, StoreInsert, StoreNoCallId, Within
  <2>2. RestartAgrees'
    BY <2>1 DEF RestartAgrees, Within, Loaded, Live
  <2>3. CopyAgrees'
    <3>1. Overflow => Overflow'
      BY <2>1, OverflowStays
    <3> QED
      BY <2>1, <3>1 DEF CopyAgrees, Within, Loaded, Live
  <2>4. NoLostWakeup'
    BY <2>1 DEF NoLostWakeup, Pending, TypeOK
  <2> QED
    BY <2>2, <2>3, <2>4
<1>2. ASSUME NEW g \in Callers, MarkDirty(g) PROVE IInv'
  BY <1>2 DEF MarkDirty, RestartAgrees, CopyAgrees, NoLostWakeup, Pending, Loaded, Live,
              Within, Overflow, Defined
<1>3. CASE Receive
  BY <1>3 DEF Receive, RestartAgrees, CopyAgrees, NoLostWakeup, Pending, Loaded, Live,
              Within, Overflow, Defined
<1>4. CASE Drain
  BY <1>4 DEF Drain, RestartAgrees, CopyAgrees, NoLostWakeup, Pending, Loaded, Live,
              Within, Overflow, Defined
<1>5. CASE Copy
  <2>1. PICK K \in Kept(cache) : snap' = Restricted(cache, K)
    BY <1>5 DEF Copy
  <2>2. /\ Within(snap', cache)
        /\ ~Overflow => Within(cache, snap')
    BY <2>1, RestrictedWithin
  <2>3. /\ UNCHANGED <<cache, file, now>>
        /\ persister' = "write"
        /\ Overflow' <=> Overflow
    BY <1>5 DEF Copy, Overflow, Defined
  <2>4. RestartAgrees'
    BY <2>3 DEF RestartAgrees, Loaded, Live, Within
  <2>5. CopyAgrees'
    BY <2>2, <2>3 DEF CopyAgrees, RestartAgrees, Loaded, Live, Within
  <2>6. NoLostWakeup'
    BY <2>2, <2>3 DEF NoLostWakeup, Within
  <2> QED
    BY <2>4, <2>5, <2>6
<1>6. ASSUME GiveUp PROVE IInv'
  BY <1>6 DEF GiveUp, RestartAgrees, CopyAgrees, NoLostWakeup, Loaded, Live, Within
<1>7. CASE WriteTmp
  <2>1. CASE persister = "write" /\ persister' = "rename"
             /\ UNCHANGED <<cache, dirty, file, snap, caller, now, saveFailed>>
    BY <2>1 DEF RestartAgrees, CopyAgrees, NoLostWakeup, Pending, Loaded, Live, Within,
                Overflow, Defined
  <2> QED
    BY <1>7, <1>6, <2>1 DEF WriteTmp
<1>8. CASE Rename
  <2>1. CASE /\ persister = "rename"
             /\ file' = [status |-> "ok", items |-> snap]
             /\ persister' = "receive"
             /\ UNCHANGED <<cache, dirty, caller, now>>
    <3>1. RestartAgrees'
      BY <2>1 DEF RestartAgrees, CopyAgrees, Loaded, Live, Within
    <3>2. CopyAgrees'
      BY <2>1 DEF CopyAgrees
    <3>3. NoLostWakeup'
      BY <2>1 DEF NoLostWakeup, Pending, Within, Overflow, Defined
    <3> QED
      BY <3>1, <3>2, <3>3
  <2> QED
    BY <1>8, <1>6, <2>1 DEF Rename
<1>9. CASE Tick
  <2>1. Within(Loaded(file)', Loaded(file))
    BY <1>9, ConstantsAssumption DEF Tick, Within, Loaded, Live, TypeOK, Files, Maps, Items
  <2>2. RestartAgrees'
    BY <1>9, <2>1 DEF Tick, RestartAgrees, Within
  <2>3. CopyAgrees'
    BY <1>9, <2>1 DEF Tick, CopyAgrees, Within, Overflow, Defined
  <2>4. NoLostWakeup'
    BY <1>9 DEF Tick, NoLostWakeup, Pending, Within, Overflow, Defined
  <2> QED
    BY <2>2, <2>3, <2>4
<1>10. CASE Restart
  <2>1. /\ file'.items = file.items
        /\ Loaded(file)' = Loaded(file)
        /\ cache' = Loaded(file)
        /\ persister' = "receive"
    BY <1>10 DEF Restart, Started, AfterLoad, Loaded, Live, TypeOK, Files
  <2>2. Within(cache', file'.items)
    BY <2>1, LoadedType DEF TypeOK
  <2> QED
    BY <2>1, <2>2 DEF RestartAgrees, CopyAgrees, NoLostWakeup, Within
<1>11. CASE UNCHANGED vars
  BY <1>11 DEF vars, RestartAgrees, CopyAgrees, NoLostWakeup, Pending, Loaded, Live, Within,
               Overflow, Defined
<1> QED
  BY <1>1, <1>2, <1>3, <1>4, <1>5, <1>7, <1>8, <1>9, <1>10, <1>11 DEF Next, Persister
-----------------------------------------------------------------------------
(* Every reachable state satisfies the inductive invariant. *)
THEOREM Invariance == Spec => []IInv
<1>1. Init => IInv
  BY InitIInv
<1>2. IInv /\ [Next]_vars => IInv'
  BY IInvStep
<1> QED
  BY <1>1, <1>2, PTL DEF Spec

(* The variables keep their types. *)
THEOREM TypeCorrect == Spec => []TypeOK
<1>1. IInv => TypeOK
  BY DEF IInv
<1> QED
  BY <1>1, Invariance, PTL

(* A crash and restart, at any step of Store and of the persister, never   *)
(* changes what a request is answered: it can only lose entries.           *)
THEOREM RestartCannotChangeAnswers == Spec => []RestartAgrees
<1>1. IInv => RestartAgrees
  BY DEF IInv
<1> QED
  BY <1>1, Invariance, PTL

(* Store's unlock-then-mark, the one-slot channel and the persister's      *)
(* receive, drain and copy lose no wakeup.                                 *)
THEOREM NothingLeftUnsaved == Spec => []QuiescentMeansSaved
<1>1. IInv => QuiescentMeansSaved
  BY DEF IInv, NoLostWakeup, Pending, QuiescentMeansSaved
<1> QED
  BY <1>1, Invariance, PTL

(* A signature on disk is not replaced by another one before it expires.   *)
THEOREM DurableEntriesStay == Spec => DurableFirstWins
<1> DEFINE Stays == \A k \in Keys : Live(file.items[k]) /\ file'.items[k] # None
                                     => file'.items[k] = file.items[k]
<1>1. ASSUME IInv, [Next]_vars PROVE Stays
  <2>1. CASE file' = [status |-> "ok", items |-> snap] /\ persister = "rename"
    <3> SUFFICES ASSUME NEW k \in Keys, Live(file.items[k]), snap[k] # None
                 PROVE  snap[k] = file.items[k]
      BY <2>1
    <3>1. file.status = "ok"
      BY <1>1 DEF IInv, TypeOK, Files, Empty, Live
    <3>2. cache[k] = file.items[k]
      BY <1>1, <3>1 DEF IInv, RestartAgrees, Within, Loaded, Live
    <3> QED
      BY <1>1, <2>1, <3>2 DEF IInv, CopyAgrees, Within
  <2>2. CASE file'.items = file.items
    BY <2>2
  <2>3. file'.items = file.items \/ (file' = [status |-> "ok", items |-> snap] /\ persister = "rename")
    BY <1>1 DEF IInv, TypeOK, Files, Next, vars, Store, StoreInsert, StoreNoCallId, MarkDirty,
                Persister, Receive, Drain, Copy, WriteTmp, Rename, GiveUp, Tick, Restart,
                Started, AfterLoad
  <2> QED
    BY <2>1, <2>2, <2>3
<1>2. IInv /\ [Next]_vars => [Stays]_vars
  BY <1>1
<1> QED
  BY <1>2, Invariance, PTL DEF Spec, DurableFirstWins

(* The temporary file and the rename: no crash makes the file unreadable.  *)
THEOREM FileNeverTorn == Spec => NeverTorn
<1>1. [Next]_vars => [file.status # "corrupt" => file'.status # "corrupt"]_vars
  BY DEF Next, vars, Store, StoreInsert, StoreNoCallId, MarkDirty, Persister, Receive, Drain,
         Copy, WriteTmp, Rename, GiveUp, Tick, Restart, Started, AfterLoad
<1> QED
  BY <1>1, PTL DEF Spec, NeverTorn
-----------------------------------------------------------------------------
(* An empty map, and a part of an attributed map, are attributed. *)
LEMMA EmptyAttributed == Attributed(Empty)
BY DEF Attributed, Empty, Keys

LEMMA PartAttributed ==
  ASSUME NEW f, NEW g, Within(f, g), Attributed(g)
  PROVE  Attributed(f)
BY DEF Within, Attributed, Keys

(* What the first start finds on disk is attributed by definition. *)
LEMMA FirstFileAttributed ==
  ASSUME NEW f \in FirstFiles
  PROVE  Attributed(f.items)
<1> SUFFICES ASSUME NEW c \in CallIds, NEW t \in Tools \cup {NoTool}, f.items[<<c, t>>] # None
             PROVE  f.items[<<c, t>>].sig \in SigsAtFirst(c)
  BY DEF Attributed
<1>1. f.items[<<c, t>>].sig
        \in {f.items[<<c, u>>].sig : u \in {v \in Tools \cup {NoTool} : f.items[<<c, v>>] # None}}
  OBVIOUS
<1> QED
  BY <1>1 DEF SigsAtFirst

LEMMA InitNothingForeign == Init => NothingForeign
<1> SUFFICES ASSUME Init PROVE NothingForeign
  OBVIOUS
<1>1. PICK f \in FirstFiles : cache = Loaded(f) /\ file \in AfterLoad(f)
  BY DEF Init
<1>2. f \in Files /\ Attributed(f.items)
  BY ConstantsAssumption, FirstFileAttributed
<1>3. Attributed(cache)
  BY <1>1, <1>2, LoadedType, PartAttributed
<1>4. file.items = f.items
  BY <1>1, <1>2 DEF AfterLoad, Files
<1> QED
  BY <1>2, <1>3, <1>4, EmptyAttributed DEF Init, NothingForeign

(* Only Store adds a signature, and it adds it under the call it is for.   *)
LEMMA NothingForeignStep == TypeOK /\ NothingForeign /\ [Next]_vars => NothingForeign'
<1> SUFFICES ASSUME TypeOK, NothingForeign, [Next]_vars PROVE NothingForeign'
  OBVIOUS
<1> USE DEF NothingForeign
<1>1. ASSUME NEW g \in Callers, Store(g) PROVE NothingForeign'
  <2>1. ASSUME NEW o \in Offers, NEW t \in Tools \cup {NoTool}, StoreInsert(g, o[1], t, o[2])
        PROVE  Attributed(cache')
    <3>1. o = <<o[1], o[2]>>
      BY ConstantsAssumption
    <3>2. ASSUME NEW c \in CallIds, NEW u \in Tools \cup {NoTool}
          PROVE  \/ cache'[<<c, u>>] = cache[<<c, u>>]
                 \/ c = o[1] /\ cache'[<<c, u>>].sig = o[2]
      BY <2>1 DEF StoreInsert, Remembered, Keys
    <3> QED
      BY <3>1, <3>2 DEF Attributed
  <2>2. UNCHANGED <<snap, file>>
    BY <1>1 DEF Store, StoreInsert, StoreNoCallId
  <2>3. Attributed(cache')
    BY <1>1, <2>1 DEF Store, StoreNoCallId
  <2> QED
    BY <2>2, <2>3 DEF Attributed
<1>2. CASE Copy
  <2>1. PICK K \in Kept(cache) : snap' = Restricted(cache, K)
    BY <1>2 DEF Copy
  <2>2. Attributed(snap')
    BY <2>1, RestrictedWithin, PartAttributed
  <2> QED
    BY <1>2, <2>2 DEF Copy, Attributed
<1>3. CASE Rename
  BY <1>3, EmptyAttributed DEF Rename, GiveUp, Attributed
<1>4. CASE WriteTmp
  BY <1>4, EmptyAttributed DEF WriteTmp, GiveUp, Attributed
<1>5. CASE Restart
  <2>1. file'.items = file.items
    BY <1>5 DEF Restart, Started, AfterLoad, TypeOK, Files
  <2>2. Attributed(cache')
    BY <1>5, LoadedType, PartAttributed DEF Restart, Started, TypeOK
  <2> QED
    BY <1>5, <2>1, <2>2, EmptyAttributed DEF Restart, Started, Attributed
<1>6. CASE \/ \E g \in Callers : MarkDirty(g)
           \/ Receive \/ Drain \/ Tick
           \/ UNCHANGED vars
  BY <1>6 DEF MarkDirty, Receive, Drain, Tick, vars, Attributed
<1> QED
  BY <1>1, <1>2, <1>3, <1>4, <1>5, <1>6 DEF Next, Persister

(* Get never answers with the signature of another function call.          *)
THEOREM OnlyOwnSignatures == Spec => []NoForeignSignature
<1>1. TypeOK /\ NothingForeign => NoForeignSignature
  <2> SUFFICES ASSUME NothingForeign, NEW c \in CallIds, NEW t \in Tools \cup {NoTool},
                      Get(c, t) # Blank
               PROVE  <<c, Get(c, t)>> \in Offers \/ Get(c, t) \in SigsAtFirst(c)
    BY DEF NoForeignSignature
  <2>1. \E u \in {t, NoTool} : cache[<<c, u>>] # None /\ Get(c, t) = cache[<<c, u>>].sig
    BY DEF Get
  <2> QED
    BY <2>1 DEF NothingForeign, Attributed
<1>2. Init => NothingForeign
  BY InitNothingForeign
<1>3. TypeOK /\ NothingForeign /\ [Next]_vars => NothingForeign'
  BY NothingForeignStep
<1> QED
  BY <1>1, <1>2, <1>3, TypeCorrect, PTL DEF Spec
-----------------------------------------------------------------------------
(* The two spellings of "everything of f is in g" are the same. *)
LEMMA SameWithin == ASSUME NEW f, NEW g PROVE WriteOnce!Within(f, g) <=> Within(f, g)
BY DEF Within, WriteOnce!Within

(* Every step of the store is a step of the write-once map, or none. *)
LEMMA StepSimulation == IInv /\ IInv' /\ [Next]_vars => [WriteOnce!Next]_(WriteOnce!vars)
<1> SUFFICES ASSUME IInv, IInv', [Next]_vars
             PROVE  [WriteOnce!Next]_(WriteOnce!vars)
  OBVIOUS
<1> USE SameWithin
<1>t. /\ TypeOK /\ TypeOK'
      /\ Maps = WriteOnce!Maps
      /\ Loaded(file) \in Maps /\ Loaded(file)' \in Maps
      /\ Overflow \in BOOLEAN /\ Overflow' \in BOOLEAN
  BY LoadedType DEF IInv, TypeOK, Maps, WriteOnce!Maps, Overflow, Loaded, Files, Live
<1>1. ASSUME NEW g \in Callers, Store(g) PROVE WriteOnce!Learn
  <2>1. Within(cache, cache') /\ UNCHANGED <<file, now>>
    <3>1. ASSUME NEW o \in Offers, NEW t \in Tools \cup {NoTool}, StoreInsert(g, o[1], t, o[2])
          PROVE  Within(cache, cache') /\ UNCHANGED <<file, now>>
      <4>1. o[1] \in CallIds /\ o[2] \in Sigs
        BY ConstantsAssumption
      <4> QED
        BY <1>t, <3>1, <4>1, RememberedGrows DEF StoreInsert
    <3>2. CASE StoreNoCallId(g)
      BY <3>2 DEF StoreNoCallId, Within
    <3> QED
      BY <1>1, <3>1, <3>2 DEF Store
  <2>2. Loaded(file)' = Loaded(file)
    BY <2>1 DEF Loaded, Live
  <2> QED
    BY <1>t, <2>1, <2>2 DEF TypeOK, WriteOnce!Learn
<1>2. ASSUME UNCHANGED <<cache, file, now>> PROVE UNCHANGED WriteOnce!vars
  BY <1>2 DEF WriteOnce!vars, Loaded, Live, Overflow, Defined
<1>3. CASE Rename
  <2>1. CASE /\ persister = "rename"
             /\ file' = [status |-> "ok", items |-> snap]
             /\ UNCHANGED <<cache, now>>
    <3>1. Within(Loaded(file)', cache) /\ (Overflow \/ Within(Loaded(file), Loaded(file)'))
      BY <2>1 DEF IInv, CopyAgrees, Within, Loaded, Live
    <3>2. Overflow' = Overflow
      BY <2>1 DEF Overflow, Defined
    <3> QED
      BY <1>t, <2>1, <3>1, <3>2 DEF WriteOnce!Next, WriteOnce!Checkpoint
  <2> QED
    BY <1>2, <1>3, <2>1 DEF Rename, GiveUp
<1>4. CASE Tick
  <2>1. Within(Loaded(file)', Loaded(file))
    BY <1>4, <1>t, ConstantsAssumption DEF Tick, Within, Loaded, Live, TypeOK, Files, Maps, Items
  <2>2. UNCHANGED <<cache, Overflow>>
    BY <1>4 DEF Tick, Overflow, Defined
  <2> QED
    BY <1>t, <2>1, <2>2 DEF WriteOnce!Next, WriteOnce!Expire
<1>5. CASE Restart
  <2>1. cache' = Loaded(file) /\ Loaded(file)' = Loaded(file)
    BY <1>5, <1>t DEF Restart, Started, AfterLoad, Loaded, Live, TypeOK, Files
  <2> QED
    BY <1>t, <2>1 DEF WriteOnce!Next, WriteOnce!Restart
<1>6. CASE \/ \E g \in Callers : MarkDirty(g)
           \/ Receive \/ Drain \/ Copy \/ WriteTmp
           \/ UNCHANGED vars
  <2>1. UNCHANGED <<cache, file, now>>
    BY <1>6 DEF MarkDirty, Receive, Drain, Copy, WriteTmp, GiveUp, vars
  <2> QED
    BY <1>2, <2>1
<1> QED
  BY <1>1, <1>3, <1>4, <1>5, <1>6 DEF Next, Persister, WriteOnce!Next

(* The debounced, capped, expiring store implements the write-once map     *)
(* with a stable copy.                                                     *)
THEOREM ThoughtStoreRefines == Spec => ImplementsWriteOnceMap
<1>1. Init => WriteOnce!Init
  <2> SUFFICES ASSUME Init PROVE WriteOnce!Init
    OBVIOUS
  <2>1. IInv
    BY InitIInv
  <2>2. cache = Loaded(file)
    BY ConstantsAssumption DEF Init, AfterLoad, Loaded, Files
  <2>3. Loaded(file) \in Maps
    BY <2>1, LoadedType DEF IInv, TypeOK
  <2> QED
    BY <2>2, <2>3 DEF WriteOnce!Init, WriteOnce!Maps, Maps, Overflow
<1>2. IInv /\ IInv' /\ [Next]_vars => [WriteOnce!Next]_(WriteOnce!vars)
  BY StepSimulation
<1> QED
  BY <1>1, <1>2, Invariance, PTL DEF Spec, ImplementsWriteOnceMap, WriteOnce!Spec
=============================================================================
