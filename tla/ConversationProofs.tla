------------------------- MODULE ConversationProofs -------------------------
(***************************************************************************)
(* Proofs about the response store and about the conversations that use    *)
(* it, for every set of ids, every capacity and every set of answers.      *)
(*                                                                         *)
(* 1. The store (StoreSpec): the list and the map agree, and it forgets    *)
(*    the least recently used response only.  Whatever stands in front of  *)
(*    a response in the list was used after it.  When the limit pushes a   *)
(*    response out, the others in the full list and the new one stand in   *)
(*    front of it, so that at least Capacity others were used since.       *)
(* 2. Conversations use the store through its operations only, so what is  *)
(*    proved of the store holds in every conversation.                     *)
(* 3. What is stored of an answer is what was sent and said; merging keeps *)
(*    parts and makes roles alternate, the guards only add turns at the    *)
(*    ends; every output follows its call.  So turns alternate, a named    *)
(*    answer is extended, and results go with their calls.                 *)
(* 4. What a transcript says, item for item, depends on the signatures of  *)
(*    its answers only, and those stay as long as the answers are stored.  *)
(*    A request that names an answer is sent the parts its transcript      *)
(*    says, and so is one that replays it.                                 *)
(***************************************************************************)
EXTENDS Conversation, FiniteSetTheorems, SequenceTheorems, FoldLemmas, TLAPS

IsList(list) == Len(list) \in Nat /\ list = [i \in 1..Len(list) |-> list[i]]

(* A list that agrees with the map, and whose every element was used later *)
(* than those behind it.                                                   *)
Sound(list, keys, used) ==
  /\ IsList(list)
  /\ Len(list) <= Capacity
  /\ keys = {list[i].id : i \in 1..Len(list)}
  /\ \A i, j \in 1..Len(list) : list[i].id = list[j].id => i = j
  /\ \A i, j \in 1..Len(list) : i < j => list[i].id \in used[list[j].id]

SinceFinite == \A id \in Ids : IsFiniteSet(since[id])

(* The inductive invariant. *)
StoreInv ==
  /\ items \subseteq Ids
  /\ kept \subseteq Ids
  /\ since \in [Ids -> SUBSET Ids]
  /\ Sound(order, items, since)
  /\ SinceFinite
  /\ RecentIsKept

(* The ids a new element pushes out. *)
Evicted(list) == {list[i].id : i \in {j \in DOMAIN list : j >= Capacity}}

(* What Use does to the ghost. *)
Used(id, used) == [x \in Ids |-> IF x = id THEN {} ELSE used[x] \cup {id}]

(* A function on 1..n is a sequence of length n. *)
LEMMA FunctionIsList ==
  ASSUME NEW n \in Nat, NEW f, f = [i \in 1..n |-> f[i]]
  PROVE  Len(f) = n /\ IsList(f)
<1> DEFINE S == {f[i] : i \in 1..n}
<1>1. f \in [1..n -> S]
  OBVIOUS
<1>2. f \in Seq(S)
  BY <1>1, SeqDef
<1>3. Len(f) \in Nat /\ DOMAIN f = 1..Len(f)
  BY <1>2, LenProperties
<1>4. Len(f) = n
  BY <1>1, <1>2, <1>3, LenProperties
<1> QED BY <1>4 DEF IsList

(* The ids in a list, each way.                                            *)
LEMMA IdsOfList ==
  ASSUME NEW f, NEW n, NEW S,
         \A y \in S : \E i \in 1..n : f[i].id = y,
         \A i \in 1..n : f[i].id \in S
  PROVE  S = {f[i].id : i \in 1..n}
OBVIOUS

(* Moving an element to the front, when it is used, keeps the list sound.  *)
LEMMA MoveKeepsSound ==
  ASSUME NEW list, NEW keys \in SUBSET Ids, NEW used \in [Ids -> SUBSET Ids],
         Sound(list, keys, used),
         NEW p \in 1..Len(list)
  PROVE  Sound(MovedToFront(list, p), keys, Used(list[p].id, used))
<1> DEFINE n == Len(list)
           m == MovedToFront(list, p)
           u == Used(list[p].id, used)
<1>1. n \in Nat /\ \A i \in 1..n : list[i].id \in Ids
  BY DEF Sound, IsList
<1>2. m = [i \in 1..n |-> IF i = 1 THEN list[p] ELSE IF i <= p THEN list[i - 1] ELSE list[i]]
  BY DEF MovedToFront
<1>3. m = [i \in 1..n |-> m[i]]
  BY <1>2
<1>4. Len(m) = n /\ IsList(m)
  BY <1>1, <1>3, FunctionIsList
<1>5. \A i \in 1..n : /\ i = 1 => m[i] = list[p]
                      /\ i # 1 /\ i <= p => m[i] = list[i - 1]
                      /\ i # 1 /\ ~(i <= p) => m[i] = list[i]
  BY <1>2
<1>6. keys = {m[i].id : i \in 1..n}
  <2>1. \A i \in 1..n : \E k \in 1..n : m[i] = list[k]
    BY <1>1, <1>5
  <2>2. \A k \in 1..n : \E i \in 1..n : m[i] = list[k]
    <3> SUFFICES ASSUME NEW k \in 1..n PROVE \E i \in 1..n : m[i] = list[k]
      OBVIOUS
    <3>1. CASE k = p
      <4>1. 1 \in 1..n
        BY <1>1
      <4> QED BY <3>1, <4>1, <1>5
    <3>2. CASE k < p
      <4>1. k + 1 \in 1..n /\ k + 1 # 1 /\ k + 1 <= p /\ (k + 1) - 1 = k
        BY <3>2, <1>1
      <4> QED BY <4>1, <1>5
    <3>3. CASE k > p
      <4>1. k # 1 /\ ~(k <= p)
        BY <3>3, <1>1
      <4> QED BY <4>1, <1>5
    <3>4. k = p \/ k < p \/ k > p
      BY <1>1
    <3> QED BY <3>1, <3>2, <3>3, <3>4
  <2>3. keys = {list[i].id : i \in 1..n}
    BY DEF Sound
  <2>4. \A i \in 1..n : m[i].id \in keys
    BY <2>1, <2>3
  <2>5. \A y \in keys : \E i \in 1..n : m[i].id = y
    <3> HIDE DEF m, n
    <3> QED
      BY <2>2, <2>3
  <2> HIDE DEF m, n
  <2> QED BY <2>4, <2>5
<1>7. \A i, j \in 1..n : list[i].id = list[j].id => i = j
  BY DEF Sound
<1>8. \A i, j \in 1..n : m[i].id = m[j].id => i = j
  <2> SUFFICES ASSUME NEW i \in 1..n, NEW j \in 1..n, m[i].id = m[j].id PROVE i = j
    OBVIOUS
  <2> DEFINE from(k) == IF k = 1 THEN p ELSE IF k <= p THEN k - 1 ELSE k
  <2>1. \A k \in 1..n : from(k) \in 1..n /\ m[k] = list[from(k)]
    BY <1>1, <1>5
  <2>2. from(i) = from(j)
    <3> HIDE DEF from, m, n
    <3>1. /\ from(i) \in 1..n /\ from(j) \in 1..n
          /\ list[from(i)].id = list[from(j)].id
      BY <2>1
    <3> QED
      BY <3>1, <1>7
  <2>3. n \in Nat /\ p \in 1..n
    BY <1>1
  <2> HIDE DEF m, n
  <2> QED BY <2>2, <2>3
<1>9. \A i, j \in 1..n : i < j => m[i].id \in u[m[j].id]
  <2> SUFFICES ASSUME NEW i \in 1..n, NEW j \in 1..n, i < j PROVE m[i].id \in u[m[j].id]
    OBVIOUS
  <2> DEFINE from(k) == IF k = 1 THEN p ELSE IF k <= p THEN k - 1 ELSE k
  <2>1. \A k \in 1..n : from(k) \in 1..n /\ m[k] = list[from(k)]
    BY <1>1, <1>5
  <2>2. from(j) # p
    BY <1>1
  <2>3. m[j].id # list[p].id /\ m[j].id \in Ids
    BY <2>1, <2>2, <1>1, <1>7
  <2>4. u[m[j].id] = used[m[j].id] \cup {list[p].id}
    BY <2>3 DEF Used
  <2>5. CASE i = 1
    BY <2>4, <2>5, <1>5
  <2>6. CASE i # 1
    <3>1. from(i) < from(j)
      BY <2>6, <1>1
    <3>2. list[from(i)].id \in used[list[from(j)].id]
      BY <2>1, <3>1 DEF Sound
    <3> QED BY <3>2, <2>1, <2>4
  <2> QED BY <2>5, <2>6
<1> QED BY <1>4, <1>6, <1>8, <1>9 DEF Sound

(* The position of a key in a sound list. *)
LEMMA PositionOfKey ==
  ASSUME Sound(order, items, since), NEW id \in items
  PROVE  Position(id) \in 1..Len(order) /\ order[Position(id)].id = id
<1>1. DOMAIN order = 1..Len(order)
  BY DEF Sound, IsList
<1>2. \E i \in DOMAIN order : order[i].id = id
  BY <1>1 DEF Sound
<1> QED BY <1>1, <1>2 DEF Position

(* A use makes the ghost grow for everyone else, and keeps it finite.      *)
LEMMA UseGrows ==
  ASSUME since \in [Ids -> SUBSET Ids], SinceFinite, NEW id \in Ids, Use(id)
  PROVE  /\ since' = Used(id, since)
         /\ since' \in [Ids -> SUBSET Ids]
         /\ SinceFinite'
         /\ \A x \in Ids : x # id => Cardinality(since'[x]) >= Cardinality(since[x])
<1>1. since' = Used(id, since)
  BY DEF Use, Used
<1>2. since' \in [Ids -> SUBSET Ids]
  BY <1>1 DEF Used
<1>3. \A x \in Ids : since'[x] = IF x = id THEN {} ELSE since[x] \cup {id}
  BY <1>1 DEF Used
<1>4. ASSUME NEW x \in Ids PROVE IsFiniteSet(since'[x])
  <2>1. IsFiniteSet(since[x])
    BY DEF SinceFinite
  <2>2. IsFiniteSet(since[x] \cup {id})
    BY <2>1, FS_AddElement
  <2> QED BY <1>3, <2>2, FS_EmptySet
<1>5. ASSUME NEW x \in Ids, x # id PROVE Cardinality(since'[x]) >= Cardinality(since[x])
  <2>1. IsFiniteSet(since'[x]) /\ since[x] \in SUBSET since'[x] /\ IsFiniteSet(since[x])
    BY <1>3, <1>4, <1>5 DEF SinceFinite
  <2>2. Cardinality(since[x]) <= Cardinality(since'[x])
    BY <2>1, FS_Subset
  <2> QED BY <2>1, <2>2, FS_CardinalityType
<1> QED BY <1>1, <1>2, <1>4, <1>5 DEF SinceFinite

(* What is still in the store stays recent enough, and what was not there  *)
(* does not become more recent, when the map loses no key.                 *)
LEMMA UseKeepsRecent ==
  ASSUME since \in [Ids -> SUBSET Ids], SinceFinite, kept \subseteq Ids, RecentIsKept,
         NEW id \in Ids, Use(id), id \in items', items \subseteq items',
         kept' \subseteq kept \cup {id}
  PROVE  RecentIsKept'
<1> SUFFICES ASSUME NEW x \in kept', x \notin items' PROVE Cardinality(since'[x]) >= Capacity
  BY DEF RecentIsKept
<1>1. x \in kept /\ x \in Ids /\ x # id /\ x \notin items
  OBVIOUS
<1>2. Cardinality(since[x]) >= Capacity
  BY <1>1 DEF RecentIsKept
<1>3. Cardinality(since'[x]) >= Cardinality(since[x])
  BY <1>1, UseGrows
<1>4. IsFiniteSet(since[x]) /\ IsFiniteSet(since'[x])
  BY <1>1, UseGrows DEF SinceFinite
<1>5. Cardinality(since[x]) \in Nat /\ Cardinality(since'[x]) \in Nat
  BY <1>4, FS_CardinalityType
<1> QED BY <1>2, <1>3, <1>5, CapacityAssumption

(* Get and a Save of a known id. *)
LEMMA MovePreserves ==
  ASSUME StoreInv, NEW id \in items, NEW list,
         IsList(list), Len(list) = Len(order),
         \A i \in 1..Len(order) : list[i].id = order[i].id,
         order' = MovedToFront(list, Position(id)), items' = items,
         kept' \subseteq kept \cup {id}, Use(id)
  PROVE  StoreInv'
<1>1. id \in Ids /\ Position(id) \in 1..Len(list) /\ list[Position(id)].id = id
  BY PositionOfKey DEF StoreInv
<1>2. Sound(list, items, since)
  BY DEF StoreInv, Sound
<1>3. Sound(order', items, Used(id, since))
  BY <1>1, <1>2, MoveKeepsSound DEF StoreInv
<1>4. since' = Used(id, since) /\ since' \in [Ids -> SUBSET Ids] /\ SinceFinite'
  BY <1>1, UseGrows DEF StoreInv
<1>5. RecentIsKept'
  BY <1>1, UseKeepsRecent DEF StoreInv
<1>6. Sound(order', items', since')
  BY <1>3, <1>4
<1> QED BY <1>1, <1>4, <1>5, <1>6 DEF StoreInv

(* The list after a Save of a new id. *)
LEMMA PushedList ==
  ASSUME NEW list, IsList(list), Len(list) <= Capacity, NEW entry
  PROVE  LET m == Trimmed(Pushed(entry, list))
         IN /\ IsList(m)
            /\ Len(list) = Capacity => Len(m) = Len(list)
            /\ Len(list) # Capacity => Len(m) = Len(list) + 1
            /\ m[1] = entry
            /\ \A i \in 2..Len(m) : m[i] = list[i - 1]
<1> DEFINE n == Len(list)
           q == Pushed(entry, list)
           k == IF n = Capacity THEN Capacity ELSE n + 1
           m == Trimmed(q)
<1>1. n \in Nat /\ n + 1 \in Nat /\ Capacity \in Nat /\ Capacity >= 1 /\ n <= Capacity
  BY CapacityAssumption DEF IsList
<1>2. q = [i \in 1..(n + 1) |-> IF i = 1 THEN entry ELSE list[i - 1]]
  BY DEF Pushed
<1>3. q = [i \in 1..(n + 1) |-> q[i]]
  BY <1>2
<1>4. Len(q) = n + 1
  BY <1>1, <1>3, FunctionIsList
<1>5. k = IF Len(q) > Capacity THEN Capacity ELSE Len(q)
  BY <1>1, <1>4
<1>6. m = [i \in 1..k |-> q[i]]
  BY <1>5 DEF Trimmed
<1>7. m = [i \in 1..k |-> m[i]] /\ k \in Nat
  BY <1>1, <1>6
<1>8. Len(m) = k /\ IsList(m)
  BY <1>7, FunctionIsList
<1>9. \A i \in 1..k : i \in 1..(n + 1) /\ m[i] = q[i]
  BY <1>1, <1>6
<1>10. m[1] = entry
  BY <1>1, <1>2, <1>9
<1>11. ASSUME NEW i \in 2..k PROVE m[i] = list[i - 1]
  BY <1>1, <1>2, <1>9
<1>12. /\ n = Capacity => k = n
       /\ n # Capacity => k = n + 1
  BY <1>1
<1> QED BY <1>8, <1>10, <1>11, <1>12

(* The response that is pushed out was used before Capacity others.        *)
LEMMA EvictedIsOld ==
  ASSUME StoreInv, NEW id \in Ids \ items, Use(id), Len(order) = Capacity
  PROVE  Cardinality(since'[order[Capacity].id]) >= Capacity
<1> DEFINE x == order[Capacity].id
           g == [i \in 1..Capacity |-> IF i = Capacity THEN id ELSE order[i].id]
<1>1. Capacity \in Nat /\ Capacity >= 1 /\ Capacity \in 1..Len(order)
  BY CapacityAssumption
<1>2. \A i \in 1..Capacity : order[i].id \in items
  BY <1>1 DEF StoreInv, Sound
<1>3. x \in Ids /\ x # id
  BY <1>1, <1>2 DEF StoreInv
<1>4. since'[x] = since[x] \cup {id}
  BY <1>3 DEF Use, StoreInv
<1>5. \A i \in 1..Capacity : i # Capacity => order[i].id \in since[x]
  BY <1>1 DEF StoreInv, Sound
<1>6. \A i \in 1..Capacity : g[i] \in since'[x]
  BY <1>4, <1>5
<1>7. \A i, j \in 1..Capacity : g[i] = g[j] => i = j
  BY <1>1, <1>2 DEF StoreInv, Sound
<1>8. g \in Injection(1..Capacity, since'[x])
  BY <1>6, <1>7 DEF Injection, IsInjective
<1>9. IsFiniteSet(since'[x])
  BY <1>3, UseGrows DEF StoreInv, SinceFinite
<1>10. Cardinality(1..Capacity) <= Cardinality(since'[x])
  BY <1>8, <1>9, FS_Injection
<1>11. Cardinality(1..Capacity) = Capacity
  BY <1>1, FS_Interval
<1>12. Cardinality(since'[x]) \in Nat
  BY <1>9, FS_CardinalityType
<1> QED BY <1>1, <1>10, <1>11, <1>12

(* Putting a new element in front, and the last one out when the list is   *)
(* full, keeps the list sound.                                             *)
LEMMA PushKeepsSound ==
  ASSUME NEW list, NEW keys \in SUBSET Ids, NEW used \in [Ids -> SUBSET Ids],
         Sound(list, keys, used),
         NEW id \in Ids \ keys, NEW state,
         NEW newKeys,
         newKeys = (keys \cup {id}) \ Evicted(list),
         NEW m, m = Trimmed(Pushed(Entry(id, state), list)),
         NEW u, u = Used(id, used)
  PROVE  Sound(m, newKeys, u)
<1> DEFINE n == Len(list)
<1>1. /\ n \in Nat /\ n <= Capacity /\ Capacity \in Nat /\ Capacity >= 1 /\ IsList(list)
      /\ \A i \in 1..n : list[i].id \in keys
  BY CapacityAssumption DEF Sound, IsList
<1>2. DOMAIN list = 1..n
  BY DEF Sound, IsList
<1>3. /\ IsList(m) /\ Len(m) \in Nat
      /\ n = Capacity => Len(m) = n
      /\ n # Capacity => Len(m) = n + 1
      /\ m[1].id = id
      /\ \A i \in 2..Len(m) : i - 1 \in 1..n /\ m[i] = list[i - 1]
  <2>1. /\ IsList(m)
        /\ n = Capacity => Len(m) = n
        /\ n # Capacity => Len(m) = n + 1
        /\ m[1] = Entry(id, state)
        /\ \A i \in 2..Len(m) : m[i] = list[i - 1]
    BY <1>1, PushedList
  <2>2. m[1].id = id
    BY <2>1 DEF Entry
  <2>3. Len(m) \in Nat
    BY <2>1, <1>1
  <2>4. \A i \in 2..Len(m) : i - 1 \in 1..n
    BY <2>1, <1>1
  <2> QED BY <2>1, <2>2, <2>3, <2>4
<1>4. \A i, j \in 1..n : list[i].id = list[j].id => i = j
  BY DEF Sound
<1>5. \A x \in Ids : x # id => u[x] = used[x] \cup {id}
  BY DEF Used
<1>6. newKeys = {m[i].id : i \in 1..Len(m)}
  <2>1. CASE n = Capacity
    <3>1. newKeys = (keys \cup {id}) \ {list[Capacity].id}
      <4>1. {j \in DOMAIN list : j >= Capacity} = {Capacity}
        BY <1>1, <1>2, <2>1
      <4> QED BY <4>1 DEF Evicted
    <3>2. \A y \in newKeys : \E i \in 1..Len(m) : m[i].id = y
      <4> SUFFICES ASSUME NEW y \in newKeys PROVE \E i \in 1..Len(m) : m[i].id = y
        OBVIOUS
      <4>1. CASE y = id
        <5>1. 1 \in 1..Len(m)
          BY <1>1, <1>3
        <5> QED BY <4>1, <5>1, <1>3
      <4>2. CASE y # id
        <5>1. PICK i \in 1..n : list[i].id = y
          BY <3>1, <4>2 DEF Sound
        <5>2. i # Capacity
          BY <3>1, <5>1
        <5>3. i + 1 \in 2..Len(m) /\ (i + 1) - 1 = i
          BY <5>2, <1>1, <1>3, <2>1
        <5>4. m[i + 1].id = y /\ i + 1 \in 1..Len(m)
          BY <5>1, <5>3, <1>3
        <5> QED BY <5>4
      <4> QED BY <4>1, <4>2
    <3>3. \A i \in 1..Len(m) : m[i].id \in newKeys
      <4> SUFFICES ASSUME NEW i \in 1..Len(m) PROVE m[i].id \in newKeys
        OBVIOUS
      <4>1. CASE i = 1
        <5>1. Capacity \in 1..n
          BY <1>1, <2>1
        <5> QED BY <4>1, <5>1, <3>1, <1>1, <1>3
      <4>2. CASE i # 1
        <5>1. i \in 2..Len(m) /\ i - 1 \in 1..n /\ i - 1 # Capacity /\ Capacity \in 1..n
          BY <4>2, <1>1, <1>3, <2>1
        <5>2. list[i - 1].id # list[Capacity].id
          BY <5>1, <1>4
        <5> QED BY <5>1, <5>2, <3>1, <1>1, <1>3
      <4> QED BY <4>1, <4>2
    <3> QED BY <3>2, <3>3, IdsOfList
  <2>2. CASE n < Capacity
    <3>1. newKeys = keys \cup {id}
      <4>1. {j \in DOMAIN list : j >= Capacity} = {}
        BY <1>1, <1>2, <2>2
      <4> QED BY <4>1 DEF Evicted
    <3>2. \A y \in newKeys : \E i \in 1..Len(m) : m[i].id = y
      <4> SUFFICES ASSUME NEW y \in newKeys PROVE \E i \in 1..Len(m) : m[i].id = y
        OBVIOUS
      <4>1. CASE y = id
        <5>1. 1 \in 1..Len(m)
          BY <1>1, <1>3, <2>2
        <5> QED BY <4>1, <5>1, <1>3
      <4>2. CASE y # id
        <5>1. PICK i \in 1..n : list[i].id = y
          BY <3>1, <4>2 DEF Sound
        <5>2. i + 1 \in 2..Len(m) /\ (i + 1) - 1 = i
          BY <5>1, <1>1, <1>3, <2>2
        <5>3. m[i + 1].id = y /\ i + 1 \in 1..Len(m)
          BY <5>1, <5>2, <1>3
        <5> QED BY <5>3
      <4> QED BY <4>1, <4>2
    <3>3. \A i \in 1..Len(m) : m[i].id \in newKeys
      <4> SUFFICES ASSUME NEW i \in 1..Len(m) PROVE m[i].id \in newKeys
        OBVIOUS
      <4>1. CASE i = 1
        BY <4>1, <3>1, <1>3
      <4>2. CASE i # 1
        <5>1. i \in 2..Len(m) /\ i - 1 \in 1..n
          BY <4>2, <1>1, <1>3
        <5> QED BY <5>1, <3>1, <1>1, <1>3
      <4> QED BY <4>1, <4>2
    <3> QED BY <3>2, <3>3, IdsOfList
  <2>3. n = Capacity \/ n < Capacity
    BY <1>1
  <2> QED BY <2>1, <2>2, <2>3, Zenon
<1>7. \A i, j \in 1..Len(m) : m[i].id = m[j].id => i = j
  <2>1. \A i \in 1..Len(m) : i # 1 => i \in 2..Len(m) /\ i - 1 \in 1..n /\ m[i].id = list[i - 1].id
    BY <1>3
  <2>2. \A i \in 1..Len(m) : i # 1 => m[i].id # id
    BY <2>1, <1>1
  <2> SUFFICES ASSUME NEW i \in 1..Len(m), NEW j \in 1..Len(m), m[i].id = m[j].id PROVE i = j
    OBVIOUS
  <2>3. CASE i = 1 \/ j = 1
    BY <2>2, <2>3, <1>3
  <2>4. CASE i # 1 /\ j # 1
    <3>1. i - 1 \in 1..n /\ j - 1 \in 1..n /\ list[i - 1].id = list[j - 1].id
      BY <2>1, <2>4
    <3>2. i - 1 = j - 1
      BY <3>1, <1>4
    <3> QED BY <3>2, <1>1, <1>3
  <2> QED BY <2>3, <2>4
<1>8. \A i, j \in 1..Len(m) : i < j => m[i].id \in u[m[j].id]
  <2> SUFFICES ASSUME NEW i \in 1..Len(m), NEW j \in 1..Len(m), i < j
               PROVE  m[i].id \in u[m[j].id]
    OBVIOUS
  <2>1. j \in 2..Len(m) /\ j - 1 \in 1..n /\ m[j] = list[j - 1]
    BY <1>3
  <2>2. m[j].id \in Ids /\ m[j].id # id
    BY <2>1, <1>1 
  <2>3. u[m[j].id] = used[m[j].id] \cup {id}
    BY <2>2, <1>5
  <2>4. CASE i = 1
    BY <2>3, <2>4, <1>3
  <2>5. CASE i # 1
    <3>1. i \in 2..Len(m) /\ i - 1 \in 1..n /\ m[i] = list[i - 1] /\ i - 1 < j - 1
      BY <2>5, <1>3
    <3>2. list[i - 1].id \in used[list[j - 1].id]
      BY <2>1, <3>1 DEF Sound
    <3> QED BY <2>1, <2>3, <3>1, <3>2
  <2> QED BY <2>4, <2>5
<1>9. Len(m) <= Capacity
  BY <1>1, <1>3
<1> QED BY <1>3, <1>6, <1>7, <1>8, <1>9 DEF Sound

(* A Save of a new id. *)
LEMMA PushPreserves ==
  ASSUME StoreInv, NEW id \in Ids \ items, NEW state, Save(id, state)
  PROVE  StoreInv'
<1> DEFINE n == Len(order)
<1>1. /\ n \in Nat /\ n <= Capacity /\ Capacity \in Nat /\ Capacity >= 1
  BY CapacityAssumption DEF StoreInv, Sound, IsList
<1>3. DOMAIN order = 1..n
  BY DEF StoreInv, Sound, IsList
<1>2. /\ order' = Trimmed(Pushed(Entry(id, state), order))
      /\ items' = (items \cup {id}) \ {order[i].id : i \in {j \in DOMAIN order : j >= Capacity}}
      /\ kept' = kept \cup {id} /\ Use(id)
  BY DEF Save
<1>5. since' = Used(id, since) /\ since' \in [Ids -> SUBSET Ids] /\ SinceFinite'
  BY <1>2, UseGrows DEF StoreInv
<1>9. Sound(order', items', since')
  BY <1>2, <1>5, PushKeepsSound DEF StoreInv, Evicted
<1>10. RecentIsKept'
  <2> SUFFICES ASSUME NEW x \in kept', x \notin items' PROVE Cardinality(since'[x]) >= Capacity
    BY DEF RecentIsKept
  <2>1. id \in items'
    <3>1. \A i \in DOMAIN order : order[i].id # id
      BY <1>3 DEF StoreInv, Sound
    <3> QED BY <3>1, <1>2
  <2>2. x # id /\ x \in kept /\ x \in Ids
    BY <2>1, <1>2 DEF StoreInv
  <2>3. CASE x \in items
    <3>1. PICK i \in 1..n : i >= Capacity /\ order[i].id = x
      BY <1>2, <1>3, <2>3
    <3>2. i = Capacity /\ n = Capacity
      BY <3>1, <1>1
    <3> QED BY <3>1, <3>2, <1>2, EvictedIsOld
  <2>4. CASE x \notin items
    <3>1. Cardinality(since[x]) >= Capacity
      BY <2>2, <2>4 DEF StoreInv, RecentIsKept
    <3>2. Cardinality(since'[x]) >= Cardinality(since[x])
      BY <2>2, <1>2, UseGrows DEF StoreInv
    <3>3. IsFiniteSet(since[x]) /\ IsFiniteSet(since'[x])
      BY <2>2, <1>5 DEF StoreInv, SinceFinite
    <3>4. Cardinality(since[x]) \in Nat /\ Cardinality(since'[x]) \in Nat
      BY <3>3, FS_CardinalityType
    <3> QED BY <3>1, <3>2, <3>4, <1>1
  <2> QED BY <2>3, <2>4
<1>11. items' \subseteq Ids /\ kept' \subseteq Ids
  BY <1>2 DEF StoreInv
<1> QED BY <1>5, <1>9, <1>10, <1>11 DEF StoreInv

(* Taking an element out keeps the list sound. *)
LEMMA RemoveKeepsSound ==
  ASSUME NEW list, NEW keys \in SUBSET Ids, NEW used, Sound(list, keys, used),
         NEW p \in 1..Len(list),
         NEW m, m = Removed(list, p)
  PROVE  Sound(m, keys \ {list[p].id}, used)
<1> DEFINE n == Len(list)
           from(k) == IF k < p THEN k ELSE k + 1
<1>1. /\ n \in Nat /\ n <= Capacity /\ n >= 1 /\ n - 1 \in Nat /\ p \in 1..n
  BY DEF Sound, IsList
<1>2. m = [i \in 1..(n - 1) |-> IF i < p THEN list[i] ELSE list[i + 1]]
  BY DEF Removed
<1>3. Len(m) = n - 1 /\ IsList(m)
  <2>1. m = [i \in 1..(n - 1) |-> m[i]]
    BY <1>2
  <2> QED BY <2>1, <1>1, FunctionIsList
<1>4. \A k \in 1..(n - 1) : from(k) \in 1..n /\ from(k) # p /\ m[k] = list[from(k)]
  BY <1>1, <1>2
<1>5. \A i, j \in 1..n : list[i].id = list[j].id => i = j
  BY DEF Sound
<1>6. \A i, j \in 1..(n - 1) : m[i].id = m[j].id => i = j
  <2> SUFFICES ASSUME NEW i \in 1..(n - 1), NEW j \in 1..(n - 1), m[i].id = m[j].id PROVE i = j
    OBVIOUS
  <2>1. from(i) = from(j)
    <3> HIDE DEF from, n
    <3> QED
      BY <1>4, <1>5
  <2>2. n \in Nat /\ p \in 1..n
    BY <1>1
  <2> HIDE DEF n
  <2> QED BY <2>1, <2>2
<1>7. \A i, j \in 1..(n - 1) : i < j => m[i].id \in used[m[j].id]
  <2> SUFFICES ASSUME NEW i \in 1..(n - 1), NEW j \in 1..(n - 1), i < j
               PROVE  m[i].id \in used[m[j].id]
    OBVIOUS
  <2>1. from(i) < from(j)
    BY <1>1
  <2>2. list[from(i)].id \in used[list[from(j)].id]
    BY <2>1, <1>4 DEF Sound
  <2> QED BY <2>2, <1>4
<1>8. keys \ {list[p].id} = {m[i].id : i \in 1..(n - 1)}
  <2>1. keys = {list[i].id : i \in 1..n}
    BY DEF Sound
  <2>2. \A k \in 1..(n - 1) : m[k].id \in keys \ {list[p].id}
    BY <2>1, <1>1, <1>4, <1>5
  <2>3. ASSUME NEW y \in keys \ {list[p].id} PROVE \E k \in 1..(n - 1) : m[k].id = y
    <3>1. PICK i \in 1..n : list[i].id = y
      BY <2>1
    <3>2. CASE i < p
      <4>1. i \in 1..(n - 1)
        BY <3>2, <1>1
      <4> QED BY <3>1, <3>2, <4>1, <1>2
    <3>3. CASE i > p
      <4>1. i - 1 \in 1..(n - 1) /\ ~(i - 1 < p) /\ (i - 1) + 1 = i
        BY <3>3, <1>1
      <4>2. m[i - 1] = list[i]
        BY <4>1, <1>2
      <4> QED BY <3>1, <4>1, <4>2
    <3>4. i # p
      BY <3>1
    <3> QED BY <3>2, <3>3, <3>4, <1>1
  <2> QED BY <2>2, <2>3, IdsOfList
<1>9. Len(m) <= Capacity
  BY <1>1, <1>3, CapacityAssumption
<1> QED BY <1>3, <1>6, <1>7, <1>8, <1>9 DEF Sound

(* The empty store is sound. *)
LEMMA EmptyIsSound ==
  ASSUME NEW used PROVE Sound(<<>>, {}, used)
<1>1. Len(<<>>) = 0 /\ IsList(<<>>)
  BY DEF IsList
<1> QED BY <1>1, CapacityAssumption DEF Sound

(* Every operation of the store preserves the invariant. *)
LEMMA StepPreserves ==
  ASSUME StoreInv, [StoreNext]_store PROVE StoreInv'
<1>1. ASSUME NEW id \in Ids, NEW state, Save(id, state) PROVE StoreInv'
  <2>1. CASE id \in items
    <3> DEFINE list == [order EXCEPT ![Position(id)] = Entry(id, state)]
    <3>1. /\ order' = MovedToFront(list, Position(id)) /\ items' = items
          /\ kept' = kept \cup {id} /\ Use(id)
      BY <1>1, <2>1 DEF Save
    <3>2. Position(id) \in 1..Len(order) /\ order[Position(id)].id = id
      BY <2>1, PositionOfKey DEF StoreInv
    <3>3. Len(order) \in Nat /\ DOMAIN order = 1..Len(order)
      BY DEF StoreInv, Sound, IsList
    <3>4. list = [i \in 1..Len(order) |-> list[i]]
      BY <3>3
    <3>5. Len(list) = Len(order) /\ IsList(list)
      BY <3>3, <3>4, FunctionIsList
    <3>6. \A i \in 1..Len(order) : list[i].id = order[i].id
      BY <3>2, <3>3 DEF Entry
    <3> HIDE DEF list
    <3> QED BY <2>1, <3>1, <3>5, <3>6, MovePreserves
  <2>2. CASE id \notin items
    BY <1>1, <2>2, PushPreserves
  <2> QED BY <2>1, <2>2
<1>2. ASSUME NEW id \in Ids, Get(id) PROVE StoreInv'
  <2>1. /\ id \in items /\ order' = MovedToFront(order, Position(id)) /\ items' = items
        /\ kept' \subseteq kept \cup {id} /\ Use(id)
    BY <1>2 DEF Get
  <2>2. IsList(order)
    BY DEF StoreInv, Sound
  <2> QED BY <2>1, <2>2, MovePreserves
<1>3. ASSUME NEW id \in Ids, Delete(id) PROVE StoreInv'
  <2>1. /\ id \in items /\ order' = Removed(order, Position(id)) /\ items' = items \ {id}
        /\ kept' = kept \ {id} /\ since' = since
    BY <1>3 DEF Delete
  <2>2. Position(id) \in 1..Len(order) /\ order[Position(id)].id = id
    BY <2>1, PositionOfKey DEF StoreInv
  <2>3. Sound(order', items', since')
    BY <2>1, <2>2, RemoveKeepsSound DEF StoreInv
  <2>4. RecentIsKept'
    BY <2>1 DEF StoreInv, RecentIsKept
  <2> QED BY <2>1, <2>3, <2>4 DEF StoreInv, SinceFinite
<1>4. ASSUME StoreRestart PROVE StoreInv'
  <2>1. Sound(order', items', since')
    BY <1>4, EmptyIsSound DEF StoreRestart
  <2> QED BY <1>4, <2>1, FS_EmptySet DEF StoreRestart, StoreInv, SinceFinite, RecentIsKept
<1>5. ASSUME UNCHANGED store PROVE StoreInv'
  BY <1>5 DEF store, StoreInv, SinceFinite, RecentIsKept
<1> QED BY <1>1, <1>2, <1>3, <1>4, <1>5 DEF StoreNext, GetMissing

(* The invariant holds of the store in every run.                          *)
THEOREM StoreInvariance == StoreSpec => []StoreInv
<1>1. StoreInit => StoreInv
  BY EmptyIsSound, FS_EmptySet DEF StoreInit, StoreInv, SinceFinite, RecentIsKept
<1>2. StoreInv /\ [StoreNext]_store => StoreInv'
  BY StepPreserves
<1> QED BY <1>1, <1>2, PTL DEF StoreSpec

(* The list and the map hold the same ids, each once, within the limit,    *)
(* for every limit and any number of ids: no lookup in the map meets a     *)
(* list element that is gone.                                              *)
THEOREM ListAgreesWithMap == StoreSpec => []ListMatchesMap
<1>1. StoreInv => ListMatchesMap
  <2> SUFFICES ASSUME StoreInv PROVE ListMatchesMap
    OBVIOUS
  <2>1. DOMAIN order = 1..Len(order)
    BY DEF StoreInv, Sound, IsList
  <2> QED BY <2>1 DEF StoreInv, Sound, ListMatchesMap
<1> QED BY <1>1, StoreInvariance, PTL

(* A saved response is forgotten only after Capacity others were used,     *)
(* for every limit and any order of saving, reading and deleting.          *)
THEOREM ForgetsLeastRecent == StoreSpec => []RecentIsKept
<1>1. StoreInv => RecentIsKept
  BY DEF StoreInv
<1> QED BY <1>1, StoreInvariance, PTL
-----------------------------------------------------------------------------

(* A step of a conversation is an operation of the store or leaves it.     *)
LEMMA StepIsStoreStep ==
  ASSUME [Next]_vars PROVE [StoreNext]_store
<1>1. ASSUME NEW r \in Ids, NEW fresh, First(r, fresh) PROVE UNCHANGED store
  BY <1>1 DEF First
<1>2. ASSUME NEW r \in Ids, SaveResponseState(r) PROVE [StoreNext]_store
  <2>1. CASE turn[r].answer = <<>>
    BY <1>2, <2>1 DEF SaveResponseState
  <2>2. CASE turn[r].answer # <<>>
    BY <1>2, <2>2 DEF SaveResponseState, StoreNext
  <2> QED BY <2>1, <2>2
<1>10. ASSUME NEW r \in Ids, NEW answer, Finish(r, answer) PROVE UNCHANGED store
  BY <1>10 DEF Finish
<1>3. ASSUME NEW r \in Ids, Fail(r) PROVE UNCHANGED store
  BY <1>3 DEF Fail
<1>4. ASSUME NEW r \in Ids, Read(r) PROVE [StoreNext]_store
  BY <1>4 DEF Read, StoreNext
<1>5. ASSUME NEW r \in Ids, Forget(r) PROVE [StoreNext]_store
  BY <1>5 DEF Forget, StoreNext
<1>6. ASSUME NEW r, NEW p, NEW fresh, Replay(r, p, fresh) PROVE UNCHANGED store
  BY <1>6 DEF Replay
<1>7. ASSUME NEW r \in Ids, NEW p \in Ids, NEW fresh, Chain(r, p, fresh) PROVE [StoreNext]_store
  BY <1>7 DEF Chain, StoreNext
<1>8. ASSUME Restart PROVE [StoreNext]_store
  BY <1>8 DEF Restart, StoreNext
<1>9. ASSUME UNCHANGED vars PROVE UNCHANGED store
  BY <1>9 DEF vars
<1> QED BY <1>1, <1>2, <1>3, <1>4, <1>5, <1>6, <1>7, <1>8, <1>9, <1>10 DEF Next

(* Conversations implement the store's specification: whatever requests    *)
(* are open or fail, the store sees nothing but its own operations.        *)
THEOREM ConversationUsesStore == Spec => StoreSpec
<1>1. Init => StoreInit
  BY DEF Init
<1>2. [Next]_vars => [StoreNext]_store
  BY StepIsStoreStep
<1> QED BY <1>1, <1>2, PTL DEF Spec, StoreSpec

(* In every conversation the list and the map of the store agree.          *)
THEOREM ConversationListAgrees == Spec => []ListMatchesMap
BY ConversationUsesStore, ListAgreesWithMap, PTL

(* In every conversation an answer can be named until Capacity others were *)
(* saved, read or named, unless it is deleted or the gateway restarts.     *)
THEOREM ConversationForgetsLeastRecent == Spec => []RecentIsKept
BY ConversationUsesStore, ForgetsLeastRecent, PTL
-----------------------------------------------------------------------------

Origins == (Ids \cup {None}) \X Nat

Items ==
  [type : {"user", "reasoning", "assistant", "function_call", "function_call_output"},
   says : Origins, signed : BOOLEAN]

(* No call in a user turn, no result in a turn of the model.               *)
UserParts == [kind : {"text", "result"}, says : Origins, signed : BOOLEAN, named : BOOLEAN]
AnswerParts == [kind : {"thought", "text", "call"}, says : Origins, signed : BOOLEAN, named : BOOLEAN]

Parts == UserParts \cup AnswerParts
Turns == [role : {"user"}, parts : Seq(UserParts)] \cup [role : {"model"}, parts : Seq(AnswerParts)]

(* Sequences of parts, joined in either order.                             *)
LEMMA PartsInARow ==
  ASSUME NEW a \in Seq(Parts), NEW b \in Seq(Parts), NEW c \in Seq(Parts)
  PROVE  (a \o b) \o c = a \o (b \o c)
<1> DEFINE Assoc(S) == \A x, y, z \in Seq(S) : (x \o y) \o z = x \o (y \o z)
<1>1. \A S : Assoc(S)
  BY ConcatAssociative
<1> HIDE DEF Assoc
<1>2. Assoc(Parts)
  BY <1>1
<1> QED
  BY <1>2 DEF Assoc

LEMMA AnswersInARow ==
  ASSUME NEW a \in Seq(AnswerParts), NEW b \in Seq(AnswerParts), NEW c \in Seq(AnswerParts)
  PROVE  (a \o b) \o c = a \o (b \o c)
<1> DEFINE Assoc(S) == \A x, y, z \in Seq(S) : (x \o y) \o z = x \o (y \o z)
<1>1. \A S : Assoc(S)
  BY ConcatAssociative
<1> HIDE DEF Assoc
<1>2. Assoc(AnswerParts)
  BY <1>1
<1> QED
  BY <1>2 DEF Assoc

LEMMA TurnAtTheEnd ==
  ASSUME NEW s \in Seq(Turns), NEW t \in Turns
  PROVE  Append(s, t) \in Seq(Turns) /\ Append(s, t) # <<>>
BY AppendProperties

(* Items become turns, or parts, one after the other.                      *)
LEMMA PartsOfMore ==
  ASSUME NEW f, IsSeqMap(f, Items, Parts), NEW s \in Seq(Items), NEW e \in Items
  PROVE  FlatMap(f, Append(s, e)) = FlatMap(f, s) \o f[e]
BY FlatMapAppend

LEMMA AnswerMapped ==
  ASSUME NEW f, IsSeqMap(f, AnswerParts, AnswerParts), NEW s \in Seq(AnswerParts)
  PROVE  /\ FlatMap(f, s) \in Seq(AnswerParts)
         /\ Range(FlatMap(f, s)) = UNION {Range(f[s[i]]) : i \in DOMAIN s}
<1>1. FlatMap(f, s) \in Seq(AnswerParts)
  BY FlatMapFacts
<1>2. Range(FlatMap(f, s)) = UNION {Range(f[s[i]]) : i \in DOMAIN s}
  BY FlatMapFacts
<1> QED BY <1>1, <1>2

LEMMA TurnsOfMore ==
  ASSUME NEW f, IsSeqMap(f, Items, Turns), NEW s \in Seq(Items), NEW e \in Items
  PROVE  /\ FlatMap(f, s) \in Seq(Turns)
         /\ FlatMap(f, Append(s, e)) = FlatMap(f, s) \o f[e]
<1>1. FlatMap(f, s) \in Seq(Turns)
  BY FlatMapFacts
<1>2. FlatMap(f, Append(s, e)) = FlatMap(f, s) \o f[e]
  BY FlatMapAppend
<1> QED BY <1>1, <1>2

(* The roles of neighbours differ. *)
Alternating(turns) == \A i \in 1..(Len(turns) - 1) : turns[i].role # turns[i + 1].role

(* Two turns of one role are mergeable, since they have no call and result.*)
LEMMA TurnFacts ==
  ASSUME NEW t \in Turns
  PROVE  /\ t.role \in {"user", "model"} /\ t.parts \in Seq(Parts)
         /\ t.role = "user" => t.parts \in Seq(UserParts) /\ ~HasKind(t, "call")
         /\ t.role = "model" => t.parts \in Seq(AnswerParts) /\ ~HasKind(t, "result")
<1>1. CASE t.role = "user"
  <2>1. t.parts \in Seq(UserParts)
    BY <1>1 DEF Turns
  <2>2. ~HasKind(t, "call")
    <3>1. \A i \in DOMAIN t.parts : t.parts[i] \in UserParts
      BY <2>1, ElementOfSeq, LenProperties
    <3>2. \A part \in UserParts : part.kind # "call"
      BY DEF UserParts
    <3> QED
      BY <3>1, <3>2 DEF HasKind
  <2>3. t.parts \in Seq(Parts)
    BY <2>1, SeqMonotonic DEF Parts
  <2> QED
    BY <1>1, <2>1, <2>2, <2>3
<1>2. CASE t.role = "model"
  <2>1. t.parts \in Seq(AnswerParts)
    BY <1>2 DEF Turns
  <2>2. ~HasKind(t, "result")
    <3>1. \A i \in DOMAIN t.parts : t.parts[i] \in AnswerParts
      BY <2>1, ElementOfSeq, LenProperties
    <3>2. \A part \in AnswerParts : part.kind # "result"
      BY DEF AnswerParts
    <3> QED
      BY <3>1, <3>2 DEF HasKind
  <2>3. t.parts \in Seq(Parts)
    BY <2>1, SeqMonotonic DEF Parts
  <2> QED
    BY <1>2, <2>1, <2>2, <2>3
<1>3. t.role \in {"user", "model"}
  BY DEF Turns
<1> QED
  BY <1>1, <1>2, <1>3

(* The parts of turns, one turn after the other.                           *)
LEMMA PartsOfFacts ==
  /\ PartsOf(<<>>) = <<>>
  /\ \A turns \in Seq(Turns) : PartsOf(turns) \in Seq(Parts)
  /\ \A turns \in Seq(Turns), t \in Turns : PartsOf(Append(turns, t)) = PartsOf(turns) \o t.parts
  /\ \A a, b \in Seq(Turns) : PartsOf(a \o b) = PartsOf(a) \o PartsOf(b)
  /\ \A turns \in Seq(Turns) :
       Range(PartsOf(turns)) = UNION {Range(turns[i].parts) : i \in DOMAIN turns}
<1> DEFINE L(turns) == [i \in DOMAIN turns |-> turns[i].parts]
<1>1. ASSUME NEW turns \in Seq(Turns)
      PROVE  L(turns) \in Seq(Seq(Parts)) /\ Len(L(turns)) = Len(turns)
             /\ DOMAIN turns = 1..Len(turns)
  <2>1. Len(turns) \in Nat /\ DOMAIN turns = 1..Len(turns) /\ \A i \in 1..Len(turns) : turns[i] \in Turns
    BY LenProperties, ElementOfSeq
  <2>2. \A i \in 1..Len(turns) : turns[i].parts \in Seq(Parts)
    BY <2>1, TurnFacts
  <2>3. L(turns) \in [1..Len(turns) -> Seq(Parts)]
    BY <2>1, <2>2
  <2>4. L(turns) \in Seq(Seq(Parts))
    BY <2>1, <2>3, SeqDef
  <2>5. DOMAIN L(turns) = 1..Len(turns)
    BY <2>1
  <2>6. Len(L(turns)) = Len(turns)
    BY <2>1, <2>4, <2>5, LenProperties
  <2> QED
    BY <2>1, <2>4, <2>6
<1>2. ASSUME NEW a \in Seq(Turns), NEW b \in Seq(Turns)
      PROVE  L(a \o b) = L(a) \o L(b)
  <2>1. /\ a \o b \in Seq(Turns) /\ Len(a \o b) = Len(a) + Len(b)
        /\ \A i \in 1..(Len(a) + Len(b)) : (a \o b)[i] = IF i <= Len(a) THEN a[i] ELSE b[i - Len(a)]
        /\ Len(a) \in Nat /\ Len(b) \in Nat
    BY ConcatProperties, LenProperties
  <2>2. /\ L(a \o b) \in Seq(Seq(Parts)) /\ Len(L(a \o b)) = Len(a) + Len(b)
        /\ L(a) \in Seq(Seq(Parts)) /\ Len(L(a)) = Len(a)
        /\ L(b) \in Seq(Seq(Parts)) /\ Len(L(b)) = Len(b)
    BY <1>1, <2>1
  <2>3. /\ L(a) \o L(b) \in Seq(Seq(Parts)) /\ Len(L(a) \o L(b)) = Len(a) + Len(b)
        /\ \A i \in 1..(Len(a) + Len(b)) :
             (L(a) \o L(b))[i] = IF i <= Len(a) THEN L(a)[i] ELSE L(b)[i - Len(a)]
    <3> DEFINE la == L(a)
               lb == L(b)
    <3>1. la \in Seq(Seq(Parts)) /\ lb \in Seq(Seq(Parts)) /\ Len(la) = Len(a) /\ Len(lb) = Len(b)
      BY <2>2
    <3> HIDE DEF la, lb
    <3>2. /\ la \o lb \in Seq(Seq(Parts)) /\ Len(la \o lb) = Len(la) + Len(lb)
          /\ \A i \in 1..(Len(la) + Len(lb)) : (la \o lb)[i] = IF i <= Len(la) THEN la[i] ELSE lb[i - Len(la)]
      BY <3>1, ConcatProperties
    <3> QED
      BY <3>1, <3>2 DEF la, lb
  <2>4. ASSUME NEW i \in 1..(Len(a) + Len(b)) PROVE L(a \o b)[i] = (L(a) \o L(b))[i]
    <3>1. L(a \o b)[i] = (a \o b)[i].parts
      BY <1>1, <2>1
    <3>2. CASE i <= Len(a)
      <4>1. i \in DOMAIN a
        BY <3>2, <2>1, <1>1
      <4>2. L(a)[i] = a[i].parts
        BY <4>1
      <4> QED
        BY <3>1, <3>2, <4>2, <2>1, <2>3
    <3>3. CASE ~(i <= Len(a))
      <4>1. i - Len(a) \in DOMAIN b
        BY <3>3, <2>1, <1>1
      <4>2. L(b)[i - Len(a)] = b[i - Len(a)].parts
        BY <4>1
      <4> QED
        BY <3>1, <3>3, <4>2, <2>1, <2>3
    <3> QED
      BY <3>2, <3>3
  <2> HIDE DEF L
  <2> QED
    BY <2>2, <2>3, <2>4, SeqEqual
<1>3. \A turns \in Seq(Turns) : PartsOf(turns) = FlattenSeq(L(turns))
  BY DEF PartsOf
<1>4. PartsOf(<<>>) = <<>>
  <2>1. L(<<>>) = <<>>
    OBVIOUS
  <2> QED
    BY <1>3, <2>1, FlattenEmpty, EmptySeq
<1>5. ASSUME NEW turns \in Seq(Turns), NEW t \in Turns
      PROVE  PartsOf(Append(turns, t)) = PartsOf(turns) \o t.parts
  <2>1. Append(turns, t) = turns \o <<t>> /\ <<t>> \in Seq(Turns) /\ Append(turns, t) \in Seq(Turns)
    BY AppendIsConcat, AppendProperties
  <2>2. L(<<t>>) = <<t.parts>> /\ t.parts \in Seq(Parts)
    BY TurnFacts
  <2>3. L(Append(turns, t)) = L(turns) \o <<t.parts>>
    BY <1>2, <2>1, <2>2
  <2> HIDE DEF L
  <2>4. L(Append(turns, t)) = Append(L(turns), t.parts)
    BY <1>1, <2>2, <2>3, AppendIsConcat
  <2>5. FlattenSeq(Append(L(turns), t.parts)) = FlattenSeq(L(turns)) \o t.parts
    BY <1>1, <2>2, FlattenAppend
  <2> QED
    BY <1>3, <2>1, <2>4, <2>5
<1>8. ASSUME NEW turns \in Seq(Turns)
      PROVE  Range(PartsOf(turns)) = UNION {Range(turns[i].parts) : i \in DOMAIN turns}
  <2> DEFINE l == L(turns)
  <2>1. DOMAIN l = DOMAIN turns /\ \A i \in DOMAIN turns : l[i] = turns[i].parts
    OBVIOUS
  <2>2. l \in Seq(Seq(Parts)) /\ PartsOf(turns) = FlattenSeq(l)
    BY <1>1, <1>3
  <2> HIDE DEF l
  <2>3. Range(FlattenSeq(l)) = UNION {Range(l[i]) : i \in DOMAIN l}
    BY <2>2, FlattenRange
  <2> QED
    BY <2>1, <2>2, <2>3
<1> HIDE DEF L
<1>6. ASSUME NEW a \in Seq(Turns), NEW b \in Seq(Turns) PROVE PartsOf(a \o b) = PartsOf(a) \o PartsOf(b)
  <2>1. a \o b \in Seq(Turns)
    BY ConcatProperties
  <2>2. FlattenSeq(L(a) \o L(b)) = FlattenSeq(L(a)) \o FlattenSeq(L(b))
    BY <1>1, FlattenConcat
  <2> QED
    BY <1>2, <1>3, <2>1, <2>2
<1>7. \A turns \in Seq(Turns) : PartsOf(turns) \in Seq(Parts)
  <2> SUFFICES ASSUME NEW turns \in Seq(Turns) PROVE PartsOf(turns) \in Seq(Parts)
    OBVIOUS
  <2>1. <<>> \in Seq(Parts) /\ L(turns) \in Seq(Seq(Parts))
    BY <1>1, EmptySeq
  <2>2. FlattenSeq(L(turns)) \in Seq(Parts)
    BY <2>1, FlattenAppend
  <2> QED
    BY <1>3, <2>2
<1> QED
  BY <1>4, <1>5, <1>6, <1>7, <1>8

(* One turn more: either merged with the last, or behind it.               *)
LEMMA JoinedFacts ==
  ASSUME NEW merged \in Seq(Turns), NEW t \in Turns
  PROVE  /\ Joined(merged, t) \in Seq(Turns) /\ Joined(merged, t) # <<>>
         /\ PartsOf(Joined(merged, t)) = PartsOf(merged) \o t.parts
         /\ Head(Joined(merged, t)).role = IF merged = <<>> THEN t.role ELSE Head(merged).role
         /\ Last(Joined(merged, t)).role = t.role
         /\ Alternating(merged) => Alternating(Joined(merged, t))
<1> DEFINE n == Len(merged)
           j == Joined(merged, t)
<1>1. n \in Nat /\ (\A i \in 1..n : merged[i] \in Turns) /\ (merged # <<>> => n > 0)
  BY LenProperties, ElementOfSeq, EmptySeq
<1>2. CASE merged # <<>> /\ merged[n].role = t.role
  <2> DEFINE m == Turn(t.role, merged[n].parts \o t.parts)
             front == SubSeq(merged, 1, n - 1)
  <2>1. n \in 1..n /\ merged[n] \in Turns
    BY <1>1, <1>2
  <2>2. Mergeable(merged[n], t)
    BY <1>2, <2>1, TurnFacts DEF Mergeable
  <2>3. j = Append(front, m)
    BY <1>2, <2>2 DEF Joined, Last, Front
  <2>4. m \in Turns /\ m.role = t.role /\ m.parts = merged[n].parts \o t.parts
    <3>1. CASE t.role = "user"
      <4>1. merged[n].parts \o t.parts \in Seq(UserParts)
        BY <1>2, <2>1, <3>1, TurnFacts, ConcatProperties
      <4> QED
        BY <3>1, <4>1 DEF Turn, Turns
    <3>2. CASE t.role = "model"
      <4>1. merged[n].parts \o t.parts \in Seq(AnswerParts)
        BY <1>2, <2>1, <3>2, TurnFacts, ConcatProperties
      <4> QED
        BY <3>2, <4>1 DEF Turn, Turns
    <3> QED
      BY <3>1, <3>2, TurnFacts
  <2>5. /\ front \in Seq(Turns) /\ Len(front) = n - 1 /\ \A i \in 1..(n - 1) : front[i] = merged[i]
    <3>1. 1 \in Int /\ n - 1 \in Int /\ \A i \in 1..(n - 1) : merged[i] \in Turns
      BY <1>1
    <3>2. /\ front \in Seq(Turns)
          /\ Len(front) = IF 1 <= n - 1 THEN (n - 1) - 1 + 1 ELSE 0
          /\ \A i \in 1..((n - 1) - 1 + 1) : front[i] = merged[1 + i - 1]
      BY <3>1, SubSeqProperties
    <3> HIDE DEF n, front
    <3>3. n > 0 /\ n \in Nat
      BY <1>1, <1>2
    <3>4. \A i \in 1..(n - 1) : i \in 1..((n - 1) - 1 + 1) /\ 1 + i - 1 = i
      BY <3>3
    <3> QED
      BY <3>2, <3>3, <3>4
  <2> HIDE DEF m, front
  <2>6. merged = Append(front, merged[n])
    <3>1. Append(front, merged[n]) \in Seq(Turns) /\ Len(Append(front, merged[n])) = n
          /\ (\A i \in 1..(n - 1) : Append(front, merged[n])[i] = merged[i])
          /\ Append(front, merged[n])[n] = merged[n]
      BY <2>1, <2>5, <1>1, AppendProperties
    <3>2. \A i \in 1..n : Append(front, merged[n])[i] = merged[i]
      BY <3>1, <1>1
    <3> QED
      BY <3>1, <3>2, SeqEqual
  <2>7. /\ j \in Seq(Turns) /\ j # <<>> /\ Len(j) = n
        /\ (\A i \in 1..(n - 1) : j[i] = merged[i]) /\ j[n] = m
    BY <2>3, <2>4, <2>5, <1>1, AppendProperties
  <2>8. PartsOf(j) = PartsOf(merged) \o t.parts
    <3>1. PartsOf(j) = PartsOf(front) \o m.parts
      BY <2>3, <2>4, <2>5, PartsOfFacts
    <3>2. PartsOf(merged) = PartsOf(front) \o merged[n].parts
      BY <2>1, <2>5, <2>6, PartsOfFacts
    <3>3. PartsOf(front) \in Seq(Parts) /\ merged[n].parts \in Seq(Parts) /\ t.parts \in Seq(Parts)
      BY <2>1, <2>5, PartsOfFacts, TurnFacts
    <3>4. PartsOf(front) \o (merged[n].parts \o t.parts) = (PartsOf(front) \o merged[n].parts) \o t.parts
      <4> DEFINE a == PartsOf(front)
                 b == merged[n].parts
                 c == t.parts
      <4>1. a \in Seq(Parts) /\ b \in Seq(Parts) /\ c \in Seq(Parts)
        <5> QED BY ONLY <3>3
      <4> HIDE DEF a, b, c
      <4>2. a \o (b \o c) = (a \o b) \o c
        BY <4>1, PartsInARow
      <4> QED
        BY <4>2 DEF a, b, c
    <3> QED
      BY <2>4, <3>1, <3>2, <3>4
  <2>9. Head(j).role = Head(merged).role /\ Last(j).role = t.role
    <3>1. Head(j) = j[1] /\ Head(merged) = merged[1] /\ Last(j) = j[n]
      BY <2>7, <1>2 DEF Last
    <3> QED
      BY <3>1, <2>4, <2>7, <1>1, <1>2
  <2>10. Alternating(merged) => Alternating(j)
    <3> SUFFICES ASSUME Alternating(merged), NEW i \in 1..(n - 1) PROVE j[i].role # j[i + 1].role
      BY <2>7 DEF Alternating
    <3>1. merged[i].role # merged[i + 1].role
      BY DEF Alternating
    <3>2. j[i].role = merged[i].role
      BY <2>7
    <3>3. j[i + 1].role = merged[i + 1].role
      <4>1. i + 1 = n \/ i + 1 \in 1..(n - 1)
        BY <1>1
      <4> QED
        BY <4>1, <1>2, <2>4, <2>7
    <3> QED
      BY <3>1, <3>2, <3>3
  <2> QED
    BY <1>2, <2>7, <2>8, <2>9, <2>10
<1>3. CASE ~(merged # <<>> /\ merged[n].role = t.role)
  <2>1. j = Append(merged, t)
    BY <1>3 DEF Joined, Last, Mergeable
  <2>2. /\ j \in Seq(Turns) /\ j # <<>> /\ Len(j) = n + 1
        /\ (\A i \in 1..n : j[i] = merged[i]) /\ j[n + 1] = t
    BY <2>1, AppendProperties
  <2>3. PartsOf(j) = PartsOf(merged) \o t.parts
    BY <2>1, PartsOfFacts
  <2>4. Head(j) = (IF merged = <<>> THEN t ELSE Head(merged)) /\ Last(j) = t
    BY <2>1, <2>2, HeadTailAppend DEF Last
  <2>5. Alternating(merged) => Alternating(j)
    <3> SUFFICES ASSUME Alternating(merged), NEW i \in 1..n PROVE j[i].role # j[i + 1].role
      BY <1>1, <2>2 DEF Alternating
    <3>1. CASE i = n
      <4>1. merged # <<>>
        BY <3>1, EmptySeq
      <4> QED
        BY <1>3, <2>2, <3>1, <4>1
    <3>2. CASE i # n
      <4>1. i \in 1..(n - 1) /\ i + 1 \in 1..n
        BY <1>1, <3>2
      <4>2. merged[i].role # merged[i + 1].role
        BY <4>1 DEF Alternating
      <4> QED
        BY <2>2, <4>1, <4>2
    <3> QED
      BY <3>1, <3>2
  <2> QED
    BY <2>2, <2>3, <2>4, <2>5
<1> QED
  BY <1>2, <1>3

(* The loop over the turns, step by step.                                  *)
LEMMA MergedSteps ==
  ASSUME NEW turns \in Seq(Turns)
  PROVE  \E f : /\ f[0] = <<>>
                /\ \A k \in 1..Len(turns) : f[k] = Joined(f[k - 1], turns[k])
                /\ Merged(turns) = f[Len(turns)]
<1> DEFINE n == Len(turns)
           step == [x \in Seq(Turns) \X (1..n) |-> Joined(x[1], turns[x[2]])]
           body(it, s) == IF s = {} THEN <<>> ELSE Joined(it[s \ {Max(s)}], turns[Max(s)])
           w == CHOOSE it : it = [s \in SUBSET (DOMAIN turns) |-> body(it, s)]
<1>1. n \in Nat /\ DOMAIN turns = 1..n /\ \A k \in 1..n : turns[k] \in Turns
  BY LenProperties, ElementOfSeq
<1>2. step \in [Seq(Turns) \X (1..n) -> Seq(Turns)]
  <2>1. \A merged \in Seq(Turns), t \in Turns : Joined(merged, t) \in Seq(Turns)
    BY JoinedFacts
  <2> QED
    BY <1>1, <2>1
<1>3. PICK it : IsFold(it, Seq(Turns), <<>>, n, step)
  <2>1. n \in Nat /\ <<>> \in Seq(Turns)
    BY <1>1, EmptySeq
  <2> HIDE DEF step, n
  <2> QED
    BY <2>1, <1>2, FoldExists
<1>4. \A s \in SUBSET (1..n) : it[s] = body(it, s)
  <2> SUFFICES ASSUME NEW s \in SUBSET (1..n), s # {} PROVE it[s] = body(it, s)
    BY <1>3 DEF IsFold
  <2>1. Max(s) \in 1..n /\ it[s \ {Max(s)}] \in Seq(Turns)
    BY <1>3 DEF IsFold
  <2>2. it[s] = step[<<it[s \ {Max(s)}], Max(s)>>]
    BY <1>3 DEF IsFold
  <2> QED
    BY <2>1, <2>2
<1>5. it = [s \in SUBSET (DOMAIN turns) |-> body(it, s)]
  <2> HIDE DEF body, n
  <2> QED
    BY <1>1, <1>3, <1>4 DEF IsFold
<1>6. w = [s \in SUBSET (DOMAIN turns) |-> body(w, s)]
  <2> HIDE DEF body
  <2> QED
    BY <1>5
<1>7. Merged(turns) = w[DOMAIN turns]
  BY DEF Merged, FoldLeft, MapThenFoldSet
<1> HIDE DEF w
<1> DEFINE f == [k \in 0..n |-> w[1..k]]
<1>8. f[0] = <<>>
  BY <1>1, <1>6
<1>9. ASSUME NEW k \in 1..n PROVE f[k] = Joined(f[k - 1], turns[k])
  <2>0. k \in Nat /\ k > 0
    BY <1>1
  <2>1. Max(1..k) = k /\ (1..k) \ {k} = 1..(k - 1)
    BY <2>0, MaxOfRange
  <2>2. w[1..k] = body(w, 1..k)
    <3>1. 1..k \in SUBSET (DOMAIN turns)
      BY <1>1
    <3> HIDE DEF body
    <3> QED
      BY <3>1, <1>6
  <2>3. f[k] = w[1..k] /\ f[k - 1] = w[1..(k - 1)]
    BY <1>1
  <2>4. 1..k # {}
    <3>1. k \in 1..k
      BY <2>0
    <3> QED
      BY <3>1
  <2> QED
    BY <2>1, <2>2, <2>3, <2>4
<1>10. Merged(turns) = f[n]
  BY <1>1, <1>7
<1> QED
  BY <1>8, <1>9, <1>10

(* A turn more is joined to what was merged before. *)
LEMMA MergedAppend ==
  /\ Merged(<<>>) = <<>>
  /\ \A turns \in Seq(Turns) : Merged(turns) \in Seq(Turns)
  /\ \A turns \in Seq(Turns), t \in Turns : Merged(Append(turns, t)) = Joined(Merged(turns), t)
<1>1. Merged(<<>>) = <<>>
  BY MergedSteps, EmptySeq
<1>2. ASSUME NEW turns \in Seq(Turns), NEW t \in Turns
      PROVE  Merged(Append(turns, t)) = Joined(Merged(turns), t)
  <2> DEFINE n == Len(turns)
             more == Append(turns, t)
  <2>1. /\ n \in Nat /\ more \in Seq(Turns) /\ Len(more) = n + 1
        /\ (\A k \in 1..n : more[k] = turns[k]) /\ more[n + 1] = t
    BY LenProperties, AppendProperties
  <2>2. PICK f : /\ f[0] = <<>> /\ \A k \in 1..n : f[k] = Joined(f[k - 1], turns[k])
                 /\ Merged(turns) = f[n]
    BY MergedSteps
  <2> HIDE DEF n, more
  <2>3. PICK g : /\ g[0] = <<>> /\ \A k \in 1..Len(more) : g[k] = Joined(g[k - 1], more[k])
                 /\ Merged(more) = g[Len(more)]
    BY <2>1, MergedSteps
  <2> DEFINE S == {k \in Nat : k <= n => g[k] = f[k]}
  <2>4. 0 \in S
    BY <2>2, <2>3
  <2>5. ASSUME NEW k \in Nat, k \in S PROVE k + 1 \in S
    <3> SUFFICES ASSUME k + 1 <= n PROVE g[k + 1] = f[k + 1]
      OBVIOUS
    <3>1. k <= n /\ k + 1 \in 1..n /\ k + 1 \in 1..Len(more) /\ (k + 1) - 1 = k
      BY <2>1
    <3> QED
      BY <3>1, <2>1, <2>2, <2>3, <2>5
  <2>6. g[n] = f[n]
    <3>1. Nat \subseteq S
      <4> HIDE DEF S
      <4> QED
        BY <2>4, <2>5, InductiveSet
    <3> QED
      BY <2>1, <3>1
  <2>7. n + 1 \in 1..Len(more) /\ (n + 1) - 1 = n
    BY <2>1
  <2> QED
    BY <2>1, <2>2, <2>3, <2>6, <2>7 DEF more
<1>3. \A turns \in Seq(Turns) : Merged(turns) \in Seq(Turns)
  <2> DEFINE G == {turns \in Seq(Turns) : Merged(turns) \in Seq(Turns)}
  <2>1. <<>> \in G
    BY <1>1, EmptySeq
  <2>2. ASSUME NEW turns \in Seq(Turns), NEW t \in Turns, turns \in G PROVE Append(turns, t) \in G
    BY <2>2, <1>2, JoinedFacts, AppendProperties
  <2>3. Seq(Turns) \subseteq G
    <3> HIDE DEF G
    <3> QED
      BY <2>1, <2>2, SequenceInduction
  <2> QED
    BY <2>3
<1> QED
  BY <1>1, <1>2, <1>3

(* Merging says the same, part for part, in turns that alternate.          *)
LEMMA MergedFacts ==
  ASSUME NEW turns \in Seq(Turns)
  PROVE  /\ Merged(turns) \in Seq(Turns)
         /\ Alternating(Merged(turns))
         /\ PartsOf(Merged(turns)) = PartsOf(turns)
         /\ Merged(turns) = <<>> <=> turns = <<>>
         /\ turns # <<>> => /\ Head(Merged(turns)).role = Head(turns).role
                            /\ Last(Merged(turns)).role = Last(turns).role
<1> DEFINE Good(s) == /\ Alternating(Merged(s))
                      /\ PartsOf(Merged(s)) = PartsOf(s)
                      /\ Merged(s) = <<>> <=> s = <<>>
                      /\ s # <<>> => /\ Head(Merged(s)).role = Head(s).role
                                     /\ Last(Merged(s)).role = Last(s).role
           G == {s \in Seq(Turns) : Good(s)}
<1>1. <<>> \in G
  <2>1. Alternating(<<>>)
    BY DEF Alternating
  <2>2. Merged(<<>>) = <<>> /\ <<>> \in Seq(Turns)
    BY MergedAppend, EmptySeq
  <2> QED
    BY <2>1, <2>2
<1>2. ASSUME NEW s \in Seq(Turns), NEW t \in Turns, s \in G PROVE Append(s, t) \in G
  <2>1. /\ Merged(s) \in Seq(Turns) /\ Merged(Append(s, t)) = Joined(Merged(s), t)
        /\ Append(s, t) \in Seq(Turns) /\ Append(s, t) # <<>>
    <3>1. Append(s, t) \in Seq(Turns) /\ Append(s, t) # <<>>
      BY TurnAtTheEnd
    <3>2. Merged(s) \in Seq(Turns) /\ Merged(Append(s, t)) = Joined(Merged(s), t)
      BY MergedAppend
    <3> QED
      BY <3>1, <3>2
  <2>2. /\ Joined(Merged(s), t) # <<>>
        /\ PartsOf(Joined(Merged(s), t)) = PartsOf(Merged(s)) \o t.parts
        /\ Head(Joined(Merged(s), t)).role = IF Merged(s) = <<>> THEN t.role ELSE Head(Merged(s)).role
        /\ Last(Joined(Merged(s), t)).role = t.role
        /\ Alternating(Merged(s)) => Alternating(Joined(Merged(s), t))
    BY <2>1, JoinedFacts
  <2>3. PartsOf(Append(s, t)) = PartsOf(s) \o t.parts
    BY PartsOfFacts
  <2>4. Head(Append(s, t)) = (IF s = <<>> THEN t ELSE Head(s)) /\ Last(Append(s, t)) = t
    BY HeadTailAppend, AppendProperties DEF Last
  <2>5. Good(s)
    BY <1>2
  <2>6. Good(Append(s, t))
    BY <2>1, <2>2, <2>3, <2>4, <2>5
  <2> QED
    BY <2>1, <2>6
<1>3. Seq(Turns) \subseteq G
  <2> HIDE DEF G
  <2> QED
    BY <1>1, <1>2, SequenceInduction
<1> QED
  BY <1>3, MergedAppend

Proper(turns) ==
  /\ turns # <<>> /\ Alternating(turns)
  /\ Head(turns).role = "user" /\ Last(turns).role = "user"

LEMMA GuardTurns ==
  /\ Hello \in Turns /\ Hello.role = "user" /\ Hello.parts \in Seq(Parts)
  /\ Continue \in Turns /\ Continue.role = "user" /\ Continue.parts \in Seq(Parts)
  /\ \A part \in Range(Hello.parts) \cup Range(Continue.parts) : part.kind = "text"
<1> DEFINE p(i) == Part("text", <<None, i>>, FALSE)
<1>1. \A i \in Nat : p(i) \in UserParts /\ p(i).kind = "text"
  BY DEF Part, UserParts, Origins
<1>2. p(1) \in UserParts /\ p(2) \in UserParts /\ p(1).kind = "text" /\ p(2).kind = "text"
  BY <1>1
<1> HIDE DEF p
<1>3. Hello = Turn("user", <<p(1)>>) /\ Continue = Turn("user", <<p(2)>>)
  BY DEF Hello, Continue, p
<1>4. <<p(1)>> \in Seq(UserParts) /\ <<p(2)>> \in Seq(UserParts)
  BY <1>2
<1>5. Hello \in Turns /\ Hello.role = "user" /\ Continue \in Turns /\ Continue.role = "user"
      /\ Hello.parts = <<p(1)>> /\ Continue.parts = <<p(2)>>
  BY <1>3, <1>4 DEF Turn, Turns
<1>6. Hello.parts \in Seq(Parts) /\ Continue.parts \in Seq(Parts)
  BY <1>5, TurnFacts
<1>7. Range(<<p(1)>>) = {p(1)} /\ Range(<<p(2)>>) = {p(2)}
  BY DEF Range
<1> QED
  BY <1>2, <1>5, <1>6, <1>7

(* The fail-safe guards add a user turn in front and behind, and only where*)
(* there is none.                                                          *)
LEMMA GuardedFacts ==
  ASSUME NEW turns \in Seq(Turns), Alternating(turns)
  PROVE  /\ Guarded(turns) \in Seq(Turns) /\ Proper(Guarded(turns))
         /\ \E before, after \in {<<>>, Hello.parts, Continue.parts} :
              /\ PartsOf(Guarded(turns)) = (before \o PartsOf(turns)) \o after
              /\ turns # <<>> /\ Head(turns).role = "user" => before = <<>>
              /\ turns # <<>> /\ Last(turns).role = "user" => after = <<>>
<1> DEFINE opened == IF turns = <<>> \/ Head(turns).role = "model" THEN <<Hello>> \o turns ELSE turns
           before == IF turns = <<>> \/ Head(turns).role = "model" THEN Hello.parts ELSE <<>>
<1>1. /\ opened \in Seq(Turns) /\ opened # <<>> /\ Alternating(opened)
      /\ Head(opened).role = "user"
      /\ PartsOf(opened) = before \o PartsOf(turns)
      /\ turns # <<>> => Last(opened).role = Last(turns).role
      /\ turns = <<>> => Last(opened).role = "user"
  <2>1. CASE turns = <<>> \/ Head(turns).role = "model"
    <3> DEFINE h == <<Hello>>
               n == Len(turns)
    <3>1. opened = h \o turns /\ h \in Seq(Turns) /\ Len(h) = 1 /\ h[1] = Hello
      BY <2>1, GuardTurns
    <3> HIDE DEF h
    <3>2. /\ opened \in Seq(Turns) /\ Len(opened) = 1 + n
          /\ \A i \in 1..(1 + n) : opened[i] = IF i <= 1 THEN h[i] ELSE turns[i - 1]
      BY <3>1, ConcatProperties
    <3>3. n \in Nat /\ (turns # <<>> => n > 0 /\ Head(turns) = turns[1]) /\ (turns = <<>> => n = 0)
      BY LenProperties, EmptySeq
    <3> HIDE DEF n
    <3>4. opened # <<>> /\ opened[1] = Hello /\ Head(opened) = opened[1] /\ Last(opened) = opened[1 + n]
      <4>1. 1 \in 1..(1 + n)
        BY <3>3
      <4>2. opened # <<>>
        BY <3>2, <3>3, EmptySeq
      <4>3. Head(opened) = opened[1]
        BY <3>2, <4>2
      <4> HIDE DEF opened
      <4> QED
        BY <3>1, <3>2, <3>3, <4>1, <4>2, <4>3 DEF Last
    <3>5. \A i \in 1..n : opened[i + 1] = turns[i]
      BY <3>2, <3>3
    <3>6. Alternating(opened)
      <4> SUFFICES ASSUME NEW i \in 1..n PROVE opened[i].role # opened[i + 1].role
        BY <3>2, <3>3 DEF Alternating
      <4>1. opened[i + 1] = turns[i]
        BY <3>5
      <4>2. CASE i = 1
        <5>1. turns # <<>> /\ turns[1].role = "model"
          BY <2>1, <3>3, <4>2
        <5> QED
          BY <3>4, <4>1, <4>2, <5>1, GuardTurns
      <4>3. CASE i # 1
        <5>1. i - 1 \in 1..(n - 1) /\ i - 1 \in 1..n /\ (i - 1) + 1 = i
          BY <3>3, <4>3
        <5>2. opened[i] = turns[i - 1]
          BY <3>5, <5>1
        <5>3. turns[i - 1].role # turns[i].role
          BY <5>1 DEF Alternating, n
        <5> QED
          BY <4>1, <5>2, <5>3
      <4> QED
        BY <4>2, <4>3
    <3>7. PartsOf(opened) = before \o PartsOf(turns)
      <4>1. PartsOf(h) = Hello.parts
        <5>1. h = Append(<<>>, Hello)
          BY DEF h
        <5>2. PartsOf(h) = <<>> \o Hello.parts
          BY <5>1, PartsOfFacts, GuardTurns, EmptySeq
        <5> QED
          BY <5>2, GuardTurns, ConcatEmptySeq
      <4> QED
        BY <2>1, <3>1, <4>1, PartsOfFacts
    <3>8. turns # <<>> => Last(opened).role = Last(turns).role
      <4> SUFFICES ASSUME turns # <<>> PROVE Last(opened).role = Last(turns).role
        OBVIOUS
      <4>1. n \in 1..n /\ n + 1 = 1 + n
        BY <3>3
      <4>2. opened[1 + n] = turns[n]
        BY <3>5, <4>1
      <4> QED
        BY <3>4, <4>2 DEF Last, n
    <3>9. turns = <<>> => Last(opened).role = "user"
      BY <3>3, <3>4, GuardTurns
    <3> HIDE DEF opened, before
    <3> QED
      BY <3>2, <3>4, <3>6, <3>7, <3>8, <3>9, GuardTurns
  <2>2. CASE ~(turns = <<>> \/ Head(turns).role = "model")
    <3>1. Head(turns) \in Turns /\ PartsOf(turns) \in Seq(Parts)
      BY <2>2, HeadTailProperties, PartsOfFacts
    <3>2. Head(turns).role = "user"
      BY <2>2, <3>1, TurnFacts
    <3>3. <<>> \o PartsOf(turns) = PartsOf(turns)
      BY <3>1, ConcatEmptySeq
    <3> QED
      BY <2>2, <3>2, <3>3
  <2> QED
    BY <2>1, <2>2
<1>2. before \in {<<>>, Hello.parts, Continue.parts} /\ before \in Seq(Parts)
      /\ (turns # <<>> /\ Head(turns).role = "user" => before = <<>>)
  BY GuardTurns, EmptySeq
<1>3. Guarded(turns) = IF Last(opened).role = "model" THEN Append(opened, Continue) ELSE opened
  BY DEF Guarded
<1> HIDE DEF opened, before
<1>4. PartsOf(opened) \in Seq(Parts)
  BY <1>1, PartsOfFacts
<1>5. Last(opened) \in Turns /\ Last(opened) = opened[Len(opened)] /\ Len(opened) \in Nat
  BY <1>1, EmptySeq, ElementOfSeq, LenProperties DEF Last
<1>6. CASE Last(opened).role = "model"
  <2> DEFINE n == Len(opened)
             g == Append(opened, Continue)
  <2>1. /\ g \in Seq(Turns) /\ g # <<>> /\ Len(g) = n + 1
        /\ (\A i \in 1..n : g[i] = opened[i]) /\ g[n + 1] = Continue
    BY <1>1, GuardTurns, AppendProperties
  <2>2. Head(g) = Head(opened) /\ Last(g) = Continue
    BY <1>1, <2>1, HeadTailAppend DEF Last
  <2> HIDE DEF g
  <2>3. Alternating(g)
    <3> SUFFICES ASSUME NEW i \in 1..n PROVE g[i].role # g[i + 1].role
      BY <1>5, <2>1 DEF Alternating
    <3>1. CASE i = n
      BY <1>5, <1>6, <2>1, <3>1, GuardTurns
    <3>2. CASE i # n
      <4>1. i \in 1..(n - 1) /\ i + 1 \in 1..n
        BY <1>5, <3>2
      <4>2. opened[i].role # opened[i + 1].role
        BY <1>1, <4>1 DEF Alternating
      <4> QED
        BY <2>1, <4>1, <4>2
    <3> QED
      BY <3>1, <3>2
  <2>4. Guarded(turns) = g /\ Proper(g)
    BY <1>1, <1>3, <1>6, <2>1, <2>2, <2>3, GuardTurns DEF Proper, g
  <2>5. PartsOf(g) = (before \o PartsOf(turns)) \o Continue.parts
    BY <1>1, GuardTurns, PartsOfFacts DEF g
  <2>6. ~(turns # <<>> /\ Last(turns).role = "user")
    BY <1>1, <1>6
  <2> QED
    BY <1>2, <2>1, <2>4, <2>5, <2>6
<1>7. CASE Last(opened).role # "model"
  <2>1. Last(opened).role = "user"
    BY <1>5, <1>7, TurnFacts
  <2>2. Guarded(turns) = opened /\ Proper(opened)
    BY <1>1, <1>3, <1>7, <2>1 DEF Proper
  <2>3. PartsOf(opened) = (before \o PartsOf(turns)) \o <<>>
    BY <1>1, <1>4, ConcatEmptySeq
  <2> QED
    BY <1>1, <1>2, <2>2, <2>3
<1> QED
  BY <1>6, <1>7

(* The part an item becomes: calls and results come from the calls and     *)
(* outputs whose signature is known.                                       *)
Becomes(item, role, part) ==
  /\ \/ role = "user" /\ part \in UserParts /\ item.type \in {"user", "function_call_output"}
     \/ role = "model" /\ part \in AnswerParts /\ item.type \notin {"user", "function_call_output"}
  /\ part.says = item.says
  /\ part.kind = "call" <=> item.type = "function_call" /\ item.says \in signatures
  /\ part.kind = "result" <=> item.type = "function_call_output" /\ item.says \in signatures

(* An item makes one turn with one part; only a thought may make none.     *)
LEMMA ItemTurn ==
  ASSUME NEW sent, NEW item \in Items
  PROVE  \/ item.type = "reasoning" /\ TurnsOf(sent, item) = <<>>
         \/ \E role, part : TurnsOf(sent, item) = <<Turn(role, <<part>>)>> /\ Becomes(item, role, part)
<1> DEFINE Makes(role, part) == TurnsOf(sent, item) = <<Turn(role, <<part>>)>>
<1>1. item.says \in Origins
  BY DEF Items
<1> SUFFICES ASSUME ~(item.type = "reasoning" /\ TurnsOf(sent, item) = <<>>)
             PROVE  \E role, part : Makes(role, part) /\ Becomes(item, role, part)
  OBVIOUS
<1>2. ASSUME NEW kind \in {"text", "result"}, NEW signed \in BOOLEAN
      PROVE  Part(kind, item.says, signed) \in UserParts
  BY <1>1 DEF Part, UserParts
<1>3. ASSUME NEW kind \in {"thought", "text", "call"}, NEW signed \in BOOLEAN
      PROVE  Part(kind, item.says, signed) \in AnswerParts
  BY <1>1 DEF Part, AnswerParts
<1>4. \A kind, signed : Part(kind, item.says, signed).kind = kind
                        /\ Part(kind, item.says, signed).says = item.says
  BY DEF Part
<1>5. CASE item.type = "user"
  <2> DEFINE part == Part("text", item.says, FALSE)
  <2>1. Makes("user", part)
    BY <1>5 DEF TurnsOf
  <2>2. part \in UserParts /\ part.kind = "text" /\ part.says = item.says
    BY <1>2, <1>4
  <2> HIDE DEF part
  <2> QED
    BY <1>5, <2>1, <2>2 DEF Becomes
<1>6. CASE item.type = "reasoning"
  <2>1. CASE item.signed
    <3> DEFINE part == Part("thought", item.says, TRUE)
    <3>1. Makes("model", part)
      BY <1>6, <2>1 DEF TurnsOf, ReasoningTurns
    <3>2. part \in AnswerParts /\ part.kind = "thought" /\ part.says = item.says
      BY <1>3, <1>4
    <3> HIDE DEF part
    <3> QED
      BY <1>6, <3>1, <3>2 DEF Becomes
  <2>2. CASE ~item.signed
    BY <1>6, <2>2 DEF TurnsOf, ReasoningTurns
  <2> QED
    BY <2>1, <2>2
<1>7. CASE item.type = "assistant"
  <2> DEFINE part == Part("text", item.says, item.says \in signatures)
  <2>1. Makes("model", part)
    BY <1>7 DEF TurnsOf
  <2>2. part \in AnswerParts /\ part.kind = "text" /\ part.says = item.says
    <3>1. (item.says \in signatures) \in BOOLEAN
      OBVIOUS
    <3> QED
      BY <1>3, <1>4, <3>1
  <2> HIDE DEF part
  <2> QED
    BY <1>7, <2>1, <2>2 DEF Becomes
<1>8. CASE item.type = "function_call"
  <2> DEFINE part == IF item.says \in signatures THEN Part("call", item.says, TRUE)
                     ELSE Part("text", item.says, FALSE)
  <2>1. Makes("model", part)
    BY <1>8 DEF TurnsOf
  <2>2. /\ part \in AnswerParts /\ part.says = item.says
        /\ part.kind = IF item.says \in signatures THEN "call" ELSE "text"
    BY <1>3, <1>4
  <2> HIDE DEF part
  <2> QED
    BY <1>8, <2>1, <2>2 DEF Becomes
<1>9. CASE item.type = "function_call_output"
  <2> DEFINE part == OutputPart(sent, item.says)
             named == \E i \in DOMAIN sent : sent[i].type = "function_call" /\ sent[i].says = item.says
             kind == OutputKind(item.says)
  <2>1. Makes("user", part)
    BY <1>9 DEF TurnsOf
  <2>2. kind = (IF item.says \in signatures THEN "result" ELSE "text")
    BY DEF OutputKind
  <2>3. part = [kind |-> kind, says |-> item.says, signed |-> FALSE, named |-> named]
    <3> DEFINE base == Part(kind, item.says, FALSE)
    <3>1. part = [base EXCEPT !.named = named]
      BY DEF OutputPart
    <3>2. base = [kind |-> kind, says |-> item.says, signed |-> FALSE, named |-> TRUE]
      BY DEF Part
    <3> HIDE DEF base, named, kind, part
    <3> QED
      BY <3>1, <3>2
  <2>4. named \in BOOLEAN
    OBVIOUS
  <2> HIDE DEF part, named, kind
  <2>5. part \in UserParts /\ part.says = item.says /\ part.kind = kind
    BY <1>1, <2>2, <2>3, <2>4 DEF UserParts
  <2> QED
    BY <1>9, <2>1, <2>2, <2>5 DEF Becomes
<1>10. item.type \in {"user", "reasoning", "assistant", "function_call", "function_call_output"}
  BY DEF Items
<1> QED
  BY <1>5, <1>6, <1>7, <1>8, <1>9, <1>10

(* The turns of an item, and what they say.                                *)
LEMMA ItemFacts ==
  ASSUME NEW sent, NEW item \in Items
  PROVE  LET turns == TurnsOf(sent, item)
             Said == UNION {Range(turns[k].parts) : k \in DOMAIN turns}
         IN /\ turns \in Seq(Turns)
            /\ \A x \in Said :
                 /\ x.kind = "call" => item.type = "function_call" /\ item.says \in signatures /\ x.says = item.says
                 /\ x.kind = "result" =>
                      item.type = "function_call_output" /\ item.says \in signatures /\ x.says = item.says
            /\ item.type = "function_call" /\ item.says \in signatures =>
                 \E x \in Said : x.kind = "call" /\ x.says = item.says
            /\ item.type = "function_call_output" /\ item.says \in signatures =>
                 \E x \in Said : x.kind = "result" /\ x.says = item.says
<1> DEFINE turns == TurnsOf(sent, item)
<1>1. CASE item.type = "reasoning" /\ turns = <<>>
  BY <1>1, EmptySeq
<1>2. CASE ~(item.type = "reasoning" /\ turns = <<>>)
  <2>1. PICK role, part : TurnsOf(sent, item) = <<Turn(role, <<part>>)>> /\ Becomes(item, role, part)
    BY <1>2, ItemTurn
  <2> DEFINE t == Turn(role, <<part>>)
  <2>2. t \in Turns
    <3>1. part \in UserParts => <<part>> \in Seq(UserParts)
      OBVIOUS
    <3>2. part \in AnswerParts => <<part>> \in Seq(AnswerParts)
      OBVIOUS
    <3> QED
      BY <2>1, <3>1, <3>2 DEF Turn, Turns, Becomes
  <2>3. t.parts = <<part>>
    BY DEF Turn
  <2>4. Range(<<part>>) = {part}
    BY DEF Range
  <2>5. turns = <<t>>
    BY <2>1
  <2> HIDE DEF t, turns
  <2>6. turns \in Seq(Turns) /\ UNION {Range(turns[k].parts) : k \in DOMAIN turns} = {part}
    <3>1. turns \in Seq(Turns) /\ DOMAIN turns = {1} /\ turns[1] = t
      BY <2>2, <2>5
    <3> QED
      BY <2>3, <2>4, <3>1
  <2>7. UNION {Range(TurnsOf(sent, item)[k].parts) : k \in DOMAIN TurnsOf(sent, item)} = {part}
        /\ TurnsOf(sent, item) \in Seq(Turns)
    BY <2>6 DEF turns
  <2> QED
    BY <2>1, <2>7 DEF Becomes
<1> QED
  BY <1>1, <1>2

(* The turns of a transcript are the turns of its items.                   *)
LEMMA ConvertedFacts ==
  ASSUME NEW sent \in Seq(Items)
  PROVE  /\ Converted(sent) \in Seq(Turns)
         /\ Range(Converted(sent)) = UNION {Range(TurnsOf(sent, sent[i])) : i \in DOMAIN sent}
<1> DEFINE n == Len(sent)
           l == [i \in DOMAIN sent |-> TurnsOf(sent, sent[i])]
<1>1. n \in Nat /\ DOMAIN sent = 1..n /\ \A i \in 1..n : sent[i] \in Items
  BY LenProperties, ElementOfSeq
<1>2. \A i \in 1..n : TurnsOf(sent, sent[i]) \in Seq(Turns)
  BY <1>1, ItemFacts
<1>3. l \in [1..n -> Seq(Turns)]
  BY <1>1, <1>2
<1>4. l \in Seq(Seq(Turns))
  BY <1>1, <1>3, SeqDef
<1>5. DOMAIN l = DOMAIN sent /\ \A i \in DOMAIN sent : l[i] = TurnsOf(sent, sent[i])
  OBVIOUS
<1>6. Converted(sent) = FlattenSeq(l)
  BY DEF Converted
<1> HIDE DEF l
<1>7. FlattenSeq(l) \in Seq(Turns) /\ Range(FlattenSeq(l)) = UNION {Range(l[i]) : i \in DOMAIN l}
  BY <1>4, FlattenAppend, FlattenRange, EmptySeq
<1> QED
  BY <1>5, <1>6, <1>7

(* What Google is sent: turns that alternate and say what they were made   *)
(* of, between the guards.                                                 *)
LEMMA PayloadFacts ==
  ASSUME NEW turns \in Seq(Turns)
  PROVE  /\ Guarded(Merged(turns)) \in Seq(Turns)
         /\ Proper(Guarded(Merged(turns)))
         /\ \E before, after \in {<<>>, Hello.parts, Continue.parts} :
              /\ PartsOf(Guarded(Merged(turns))) = (before \o PartsOf(turns)) \o after
              /\ turns # <<>> /\ Head(turns).role = "user" => before = <<>>
              /\ turns # <<>> /\ Last(turns).role = "user" => after = <<>>
<1> DEFINE m == Merged(turns)
<1>1. /\ m \in Seq(Turns) /\ Alternating(m) /\ PartsOf(m) = PartsOf(turns)
      /\ m = <<>> <=> turns = <<>>
      /\ turns # <<>> => Head(m).role = Head(turns).role /\ Last(m).role = Last(turns).role
  BY MergedFacts
<1> HIDE DEF m
<1>2. Guarded(m) \in Seq(Turns) /\ Proper(Guarded(m))
  BY <1>1, GuardedFacts
<1>3. PICK before \in {<<>>, Hello.parts, Continue.parts}, after \in {<<>>, Hello.parts, Continue.parts} :
        /\ PartsOf(Guarded(m)) = (before \o PartsOf(m)) \o after
        /\ m # <<>> /\ Head(m).role = "user" => before = <<>>
        /\ m # <<>> /\ Last(m).role = "user" => after = <<>>
  BY <1>1, GuardedFacts
<1>4. /\ PartsOf(Guarded(m)) = (before \o PartsOf(turns)) \o after
      /\ turns # <<>> /\ Head(turns).role = "user" => before = <<>>
      /\ turns # <<>> /\ Last(turns).role = "user" => after = <<>>
  BY <1>1, <1>3
<1>5. /\ PartsOf(Guarded(Merged(turns))) = (before \o PartsOf(turns)) \o after
      /\ Guarded(Merged(turns)) \in Seq(Turns) /\ Proper(Guarded(Merged(turns)))
  BY <1>2, <1>4 DEF m
<1> QED
  BY <1>4, <1>5

(* Every output of a tool in a transcript follows its call. *)
CallsSent(sent) ==
  \A i \in DOMAIN sent : sent[i].type = "function_call_output" =>
    \E j \in DOMAIN sent : sent[j].type = "function_call" /\ sent[j].says = sent[i].says

(* What ResultsMatchCalls says of one request. *)
Matches(parts, sent) ==
  LET Sent(kind) == {parts[i].says : i \in {j \in DOMAIN parts : parts[j].kind = kind}}
      Outputs == {sent[i].says : i \in {j \in DOMAIN sent : sent[j].type = "function_call_output"}}
  IN Sent("result") = Sent("call") \cap Outputs

(* The calls and the results that are sent are those of the transcript     *)
(* whose signature is known.                                               *)
LEMMA ReplayMatches ==
  ASSUME NEW sent \in Seq(Items), CallsSent(sent)
  PROVE  Matches(PartsOf(Replayed(sent)), sent)
<1> DEFINE turns == Converted(sent)
           parts == PartsOf(Replayed(sent))
           Known(type) == {sent[i].says : i \in {j \in DOMAIN sent :
                             sent[j].type = type /\ sent[j].says \in signatures}}
           Sent(kind) == {parts[i].says : i \in {j \in DOMAIN parts : parts[j].kind = kind}}
<1>1. turns \in Seq(Turns) /\ Range(turns) = UNION {Range(TurnsOf(sent, sent[i])) : i \in DOMAIN sent}
  BY ConvertedFacts
<1> HIDE DEF turns
<1>2. PICK before \in {<<>>, Hello.parts, Continue.parts}, after \in {<<>>, Hello.parts, Continue.parts} :
        PartsOf(Guarded(Merged(turns))) = (before \o PartsOf(turns)) \o after
  BY <1>1, PayloadFacts
<1>3. parts = (before \o PartsOf(turns)) \o after
  BY <1>2 DEF Replayed, turns
<1>4. /\ before \in Seq(Parts) /\ after \in Seq(Parts) /\ PartsOf(turns) \in Seq(Parts)
      /\ \A x \in Range(before) \cup Range(after) : x.kind = "text"
  <2>1. <<>> \in Seq(Parts) /\ Range(<<>>) = {}
    BY EmptySeq DEF Range
  <2> QED
    BY <1>1, <2>1, GuardTurns, PartsOfFacts
<1> HIDE DEF parts
<1>5. Range(parts) = (Range(before) \cup Range(PartsOf(turns))) \cup Range(after)
  <2>1. before \o PartsOf(turns) \in Seq(Parts)
        /\ Range(before \o PartsOf(turns)) = Range(before) \cup Range(PartsOf(turns))
    BY <1>4, ConcatProperties, RangeConcatenation
  <2>2. Range((before \o PartsOf(turns)) \o after) = Range(before \o PartsOf(turns)) \cup Range(after)
    <3> DEFINE front == before \o PartsOf(turns)
    <3>1. front \in Seq(Parts) /\ after \in Seq(Parts)
      BY <1>4, <2>1
    <3> HIDE DEF front
    <3>2. Range(front \o after) = Range(front) \cup Range(after)
      BY <3>1, RangeConcatenation
    <3> QED
      BY <3>2 DEF front
  <2> QED
    BY <1>3, <2>1, <2>2
<1>6. Range(PartsOf(turns)) = UNION {Range(turns[k].parts) : k \in DOMAIN turns}
  BY <1>1, PartsOfFacts
<1>7. ASSUME NEW kind \in {"call", "result"}
      PROVE  Sent(kind) = {x.says : x \in {y \in Range(PartsOf(turns)) : y.kind = kind}}
  <2>1. Range(parts) = {parts[i] : i \in DOMAIN parts}
    BY DEF Range
  <2>2. Sent(kind) = {x.says : x \in {y \in Range(parts) : y.kind = kind}}
    BY <2>1
  <2>3. {y \in Range(parts) : y.kind = kind} = {y \in Range(PartsOf(turns)) : y.kind = kind}
    BY <1>4, <1>5
  <2> QED
    BY <2>2, <2>3
<1>8. DOMAIN sent = 1..Len(sent) /\ \A i \in DOMAIN sent : sent[i] \in Items
  BY LenProperties, ElementOfSeq
<1>9. ASSUME NEW x
      PROVE  x \in Range(PartsOf(turns)) <=>
               \E i \in DOMAIN sent : \E k \in DOMAIN TurnsOf(sent, sent[i]) :
                 x \in Range(TurnsOf(sent, sent[i])[k].parts)
  <2>1. x \in Range(PartsOf(turns)) <=> \E t \in Range(turns) : x \in Range(t.parts)
    <3>1. x \in Range(PartsOf(turns)) <=> \E k \in DOMAIN turns : x \in Range(turns[k].parts)
      BY <1>6
    <3>2. \A t : t \in Range(turns) <=> \E k \in DOMAIN turns : t = turns[k]
      BY DEF Range
    <3> QED
      BY <3>1, <3>2
  <2>2. \A t : t \in Range(turns) <=> \E i \in DOMAIN sent : t \in Range(TurnsOf(sent, sent[i]))
    BY <1>1
  <2>3. \A i \in DOMAIN sent : \A t : t \in Range(TurnsOf(sent, sent[i])) <=>
          \E k \in DOMAIN TurnsOf(sent, sent[i]) : t = TurnsOf(sent, sent[i])[k]
    BY DEF Range
  <2> QED
    BY <2>1, <2>2, <2>3
<1> DEFINE Said(i) == UNION {Range(TurnsOf(sent, sent[i])[k].parts) : k \in DOMAIN TurnsOf(sent, sent[i])}
<1>10. \A x : x \in Range(PartsOf(turns)) <=> \E i \in DOMAIN sent : x \in Said(i)
  BY <1>9
<1>11. ASSUME NEW i \in DOMAIN sent
       PROVE  /\ \A x \in Said(i) :
                   /\ x.kind = "call" =>
                        sent[i].type = "function_call" /\ sent[i].says \in signatures /\ x.says = sent[i].says
                   /\ x.kind = "result" =>
                        sent[i].type = "function_call_output" /\ sent[i].says \in signatures
                        /\ x.says = sent[i].says
              /\ sent[i].type = "function_call" /\ sent[i].says \in signatures =>
                   \E x \in Said(i) : x.kind = "call" /\ x.says = sent[i].says
              /\ sent[i].type = "function_call_output" /\ sent[i].says \in signatures =>
                   \E x \in Said(i) : x.kind = "result" /\ x.says = sent[i].says
  BY <1>8, ItemFacts
<1> HIDE DEF Said
<1>12. Sent("call") = Known("function_call")
  <2> HIDE DEF Sent
  <2>1. Sent("call") = {x.says : x \in {y \in Range(PartsOf(turns)) : y.kind = "call"}}
    BY <1>7
  <2> QED
    BY <2>1, <1>10, <1>11
<1>13. Sent("result") = Known("function_call_output")
  <2> HIDE DEF Sent
  <2>1. Sent("result") = {x.says : x \in {y \in Range(PartsOf(turns)) : y.kind = "result"}}
    BY <1>7
  <2> QED
    BY <2>1, <1>10, <1>11
<1> DEFINE Outputs == {sent[i].says : i \in {j \in DOMAIN sent : sent[j].type = "function_call_output"}}
<1>14. Known("function_call_output") = Known("function_call") \cap Outputs
  BY DEF CallsSent
<1>15. Sent("result") = Sent("call") \cap Outputs
  <2> HIDE DEF Sent, Known, Outputs
  <2> QED
    BY <1>12, <1>13, <1>14
<1> QED
  BY <1>15 DEF Matches, parts

-----------------------------------------------------------------------------

(* The items made of the pieces of one kind.                               *)
Made(r, answer, kind, type) ==
  {Item(type, <<r, i>>, answer[i].signed) : i \in {j \in DOMAIN answer : answer[j].kind = kind}}

LEMMA ItemsOfFacts ==
  ASSUME NEW r \in Ids, NEW answer \in Seq(Pieces), NEW kind,
         NEW type \in {"reasoning", "assistant", "function_call", "function_call_output"}
  PROVE  /\ ItemsOf(r, answer, kind, type) \in Seq(Items)
         /\ Range(ItemsOf(r, answer, kind, type)) = Made(r, answer, kind, type)
<1> DEFINE n == Len(answer)
           item(i) == Item(type, <<r, i>>, answer[i].signed)
           l == [i \in DOMAIN answer |-> IF answer[i].kind = kind THEN <<item(i)>> ELSE <<>>]
<1>1. n \in Nat /\ DOMAIN answer = 1..n /\ \A i \in 1..n : answer[i] \in Pieces
  BY LenProperties, ElementOfSeq
<1>2. ASSUME NEW i \in 1..n PROVE item(i) \in Items
  <2>1. answer[i].signed \in BOOLEAN /\ <<r, i>> \in Origins
    BY <1>1 DEF Pieces, Origins
  <2> QED
    BY <2>1 DEF Item, Items
<1> HIDE DEF item
<1>3. \A i \in 1..n : (<<item(i)>> \in Seq(Items)) /\ (Range(<<item(i)>>) = {item(i)})
  <2> SUFFICES ASSUME NEW i \in 1..n PROVE (<<item(i)>> \in Seq(Items)) /\ (Range(<<item(i)>>) = {item(i)})
    OBVIOUS
  <2>1. item(i) \in Items
    BY <1>2
  <2> QED
    BY <2>1 DEF Range
<1>4. <<>> \in Seq(Items) /\ Range(<<>>) = {}
  BY EmptySeq DEF Range
<1>5. l \in [1..n -> Seq(Items)]
  BY <1>1, <1>3, <1>4
<1>6. l \in Seq(Seq(Items)) /\ DOMAIN l = DOMAIN answer
  BY <1>1, <1>5, SeqDef
<1>7. \A i \in DOMAIN answer : Range(l[i]) = IF answer[i].kind = kind THEN {item(i)} ELSE {}
  BY <1>1, <1>3, <1>4
<1>8. ItemsOf(r, answer, kind, type) = FlattenSeq(l)
  BY DEF ItemsOf, item
<1> HIDE DEF l
<1>9. FlattenSeq(l) \in Seq(Items) /\ Range(FlattenSeq(l)) = UNION {Range(l[i]) : i \in DOMAIN l}
  BY <1>4, <1>6, FlattenAppend, FlattenRange
<1>10. UNION {Range(l[i]) : i \in DOMAIN l} = {item(i) : i \in {j \in DOMAIN answer : answer[j].kind = kind}}
  BY <1>6, <1>7
<1>11. ItemsOf(r, answer, kind, type) \in Seq(Items)
       /\ Range(ItemsOf(r, answer, kind, type)) = {item(i) : i \in {j \in DOMAIN answer : answer[j].kind = kind}}
  BY <1>8, <1>9, <1>10
<1> QED
  BY <1>11 DEF item, Made

(* The output items hold every call of the answer, and no output of a tool.*)
SaysOutput(r, answer, output) ==
  /\ output \in Seq(Items)
  /\ \A x \in Range(output) : x.type # "function_call_output" /\ x.says[1] = r
  /\ \A i \in DOMAIN answer : answer[i].kind = "call" =>
       \E x \in Range(output) : x.type = "function_call" /\ x.says = <<r, i>>

LEMMA OutputFacts ==
  ASSUME NEW r \in Ids, NEW answer \in Seq(Pieces)
  PROVE  SaysOutput(r, answer, OutputItems(r, answer))
<1> DEFINE a == ItemsOf(r, answer, "thought", "reasoning")
           b == ItemsOf(r, answer, "text", "assistant")
           c == Shield(r, answer)
           d == ItemsOf(r, answer, "call", "function_call")
<1>1. a \in Seq(Items) /\ \A x \in Range(a) : x.type = "reasoning" /\ x.says[1] = r
  BY ItemsOfFacts DEF Item, Made
<1>2. b \in Seq(Items) /\ \A x \in Range(b) : x.type = "assistant" /\ x.says[1] = r
  BY ItemsOfFacts DEF Item, Made
<1>3. c \in Seq(Items) /\ \A x \in Range(c) : x.type = "assistant" /\ x.says[1] = r
  <2> DEFINE s == Item("assistant", <<r, Len(answer) + 1>>, FALSE)
  <2>1. s \in Items /\ s.type = "assistant" /\ s.says[1] = r
    <3>1. Len(answer) + 1 \in Nat
      BY LenProperties
    <3> QED
      BY <3>1 DEF Item, Items, Origins
  <2>2. c = <<>> \/ c = <<s>>
    BY DEF Shield
  <2> HIDE DEF s
  <2>3. Range(<<s>>) = {s} /\ Range(<<>>) = {} /\ <<s>> \in Seq(Items) /\ <<>> \in Seq(Items)
    BY <2>1, EmptySeq DEF Range
  <2> QED
    BY <2>1, <2>2, <2>3
<1>4. /\ d \in Seq(Items) /\ \A x \in Range(d) : x.type = "function_call" /\ x.says[1] = r
      /\ \A i \in DOMAIN answer : answer[i].kind = "call" =>
           \E x \in Range(d) : x.type = "function_call" /\ x.says = <<r, i>>
  <2>1. d \in Seq(Items) /\ Range(d) = Made(r, answer, "call", "function_call")
    BY ItemsOfFacts
  <2>2. \A i : LET x == Item("function_call", <<r, i>>, answer[i].signed)
               IN x.type = "function_call" /\ x.says = <<r, i>> /\ x.says[1] = r
    BY DEF Item
  <2> HIDE DEF d
  <2> QED
    BY <2>1, <2>2 DEF Made
<1>5. OutputItems(r, answer) = ((a \o b) \o c) \o d
  BY DEF OutputItems
<1> HIDE DEF a, b, c, d
<1>6. /\ a \o b \in Seq(Items) /\ (a \o b) \o c \in Seq(Items) /\ ((a \o b) \o c) \o d \in Seq(Items)
  BY <1>1, <1>2, <1>3, <1>4, ConcatProperties
<1>7. Range(((a \o b) \o c) \o d) = ((Range(a) \cup Range(b)) \cup Range(c)) \cup Range(d)
  <2>1. Range(a \o b) = Range(a) \cup Range(b)
    BY <1>1, <1>2, RangeConcatenation
  <2> DEFINE ab == a \o b
             abc == ab \o c
  <2>2. ab \in Seq(Items) /\ abc \in Seq(Items)
    BY <1>6
  <2> HIDE DEF abc
  <2>3. Range(abc \o d) = Range(abc) \cup Range(d)
    BY <1>4, <2>2, RangeConcatenation
  <2> HIDE DEF ab
  <2>4. Range(ab \o c) = Range(ab) \cup Range(c)
    BY <1>3, <2>2, RangeConcatenation
  <2> QED
    BY <2>1, <2>3, <2>4 DEF ab, abc
<1> DEFINE output == ((a \o b) \o c) \o d
<1>8. output \in Seq(Items) /\ Range(output) = ((Range(a) \cup Range(b)) \cup Range(c)) \cup Range(d)
  BY <1>6, <1>7
<1> HIDE DEF output
<1>9. SaysOutput(r, answer, output)
  BY <1>1, <1>2, <1>3, <1>4, <1>8 DEF SaysOutput
<1> QED
  BY <1>5, <1>9 DEF output

LEMMA CallsSentRange ==
  ASSUME NEW sent
  PROVE  CallsSent(sent) <=>
           \A x \in Range(sent) : x.type = "function_call_output" =>
             \E y \in Range(sent) : y.type = "function_call" /\ y.says = x.says
<1>1. Range(sent) = {sent[i] : i \in DOMAIN sent}
  BY DEF Range
<1> QED
  BY <1>1 DEF CallsSent

(* What a client sends when it goes on from an answer: its transcript      *)
(* stays one in which every output follows its call.                       *)
LEMMA TranscriptFacts ==
  ASSUME NEW p \in Ids, turn[p].sent \in Seq(Items), turn[p].answer \in Seq(Pieces),
         CallsSent(turn[p].sent), NEW r \in Ids, NEW fresh \in FreshItems(r, p)
  PROVE  /\ fresh \in Seq(Items)
         /\ Transcript(p) \o fresh \in Seq(Items)
         /\ CallsSent(Transcript(p) \o fresh)
<1> DEFINE sent == turn[p].sent
           answer == turn[p].answer
           out == OutputItems(p, answer)
           calls == ItemsOf(p, answer, "call", "function_call_output")
           u == Item("user", <<r, 0>>, FALSE)
<1>1. /\ out \in Seq(Items) /\ \A x \in Range(out) : x.type # "function_call_output"
      /\ \A i \in DOMAIN answer : answer[i].kind = "call" =>
           \E x \in Range(out) : x.type = "function_call" /\ x.says = <<p, i>>
  <2>1. answer \in Seq(Pieces)
    OBVIOUS
  <2> HIDE DEF answer
  <2>2. /\ out \in Seq(Items)
        /\ \A x \in Range(out) : x.type # "function_call_output" /\ x.says[1] = p
        /\ \A i \in DOMAIN answer : answer[i].kind = "call" =>
             \E x \in Range(out) : x.type = "function_call" /\ x.says = <<p, i>>
    <3>1. SaysOutput(p, answer, out)
      BY <2>1, OutputFacts
    <3> HIDE DEF out
    <3> QED
      BY <3>1 DEF SaysOutput
  <2> HIDE DEF out
  <2> QED
    BY <2>2
<1>2. /\ calls \in Seq(Items)
      /\ \A x \in Range(calls) : \E i \in DOMAIN answer : answer[i].kind = "call" /\ x.says = <<p, i>>
  <2>1. calls \in Seq(Items) /\ Range(calls) = Made(p, answer, "call", "function_call_output")
    BY ItemsOfFacts
  <2>2. \A i : Item("function_call_output", <<p, i>>, answer[i].signed).says = <<p, i>>
    BY DEF Item
  <2> HIDE DEF calls
  <2> QED
    BY <2>1, <2>2 DEF Made
<1>3. u \in Items /\ u.type = "user"
  BY DEF Item, Items, Origins
<1>4. fresh = calls \/ fresh = <<u>> \/ fresh = <<>>
  BY DEF FreshItems
<1>5. sent \in Seq(Items) /\ CallsSent(sent) /\ Transcript(p) = sent \o out
  BY DEF Transcript
<1> HIDE DEF sent, answer, out, calls, u
<1>6. /\ fresh \in Seq(Items)
      /\ \A x \in Range(fresh) : x.type = "function_call_output" =>
           \E i \in DOMAIN answer : answer[i].kind = "call" /\ x.says = <<p, i>>
  <2>1. Range(<<u>>) = {u} /\ Range(<<>>) = {} /\ <<u>> \in Seq(Items) /\ <<>> \in Seq(Items)
    BY <1>3, EmptySeq DEF Range
  <2> QED
    BY <1>2, <1>3, <1>4, <2>1
<1> DEFINE t == sent \o out
<1>7. t \in Seq(Items) /\ Range(t) = Range(sent) \cup Range(out)
  BY <1>1, <1>5, ConcatProperties, RangeConcatenation
<1> HIDE DEF t
<1>8. t \o fresh \in Seq(Items) /\ Range(t \o fresh) = Range(t) \cup Range(fresh)
  BY <1>6, <1>7, ConcatProperties, RangeConcatenation
<1>9. \A x \in Range(sent) : x.type = "function_call_output" =>
           \E y \in Range(sent) : y.type = "function_call" /\ y.says = x.says
  BY <1>5, CallsSentRange
<1>10. CallsSent(t \o fresh)
  <2> SUFFICES ASSUME NEW x \in Range(t \o fresh), x.type = "function_call_output"
               PROVE  \E y \in Range(t \o fresh) : y.type = "function_call" /\ y.says = x.says
    BY CallsSentRange
  <2>1. CASE x \in Range(sent)
    BY <1>7, <1>8, <1>9, <2>1
  <2>2. CASE x \in Range(out)
    BY <1>1, <2>2
  <2>3. CASE x \in Range(fresh)
    <3>1. PICK i \in DOMAIN answer : answer[i].kind = "call" /\ x.says = <<p, i>>
      BY <1>6, <2>3
    <3>2. PICK y \in Range(out) : y.type = "function_call" /\ y.says = <<p, i>>
      BY <1>1, <3>1
    <3> QED
      BY <1>7, <1>8, <3>1, <3>2
  <2> QED
    BY <1>7, <1>8, <2>1, <2>2, <2>3
<1> QED
  BY <1>5, <1>6, <1>8, <1>10 DEF t

-----------------------------------------------------------------------------

(* The requests and their answers.                                         *)
Requests ==
  [phase : {"open", "answered", "done"}, parent : Ids \cup {None}, chained : BOOLEAN, found : BOOLEAN,
   sent : Seq(Items), payload : Seq(Turns), answer : Seq(Pieces), whole : BOOLEAN]

TurnTypeOK == turn \in [Ids -> {Unused, Failed} \cup Requests]

(* What is stored of a request is what was sent and the answer.            *)
StateOf(p) == Append(turn[p].payload, Turn("model", ModelParts(p, turn[p].answer)))

StoredIsSaid ==
  \A i \in DOMAIN order : Answered(order[i].id) /\ order[i].state = StateOf(order[i].id)

(* All that was sent for p, and the answer.                                *)
Exchange(p) == PartsOf(turn[p].payload) \o ModelParts(p, turn[p].answer)

RequestOK(r) ==
  /\ Proper(turn[r].payload)
  /\ CallsSent(turn[r].sent)
  /\ ~turn[r].chained => Matches(PartsOf(turn[r].payload), turn[r].sent)
  /\ turn[r].chained /\ turn[r].found =>
       /\ turn[r].parent \in Ids /\ Answered(turn[r].parent)
       /\ IsPrefix(Exchange(turn[r].parent), PartsOf(turn[r].payload))

(* The inductive invariant of conversations. *)
ConversationInv ==
  /\ StoreInv
  /\ TurnTypeOK
  /\ StoredIsSaid
  /\ \A r \in Ids : Begun(r) => RequestOK(r)

LEMMA BegunFacts ==
  ASSUME TurnTypeOK, NEW r \in Ids
  PROVE  /\ Begun(r) <=> turn[r] \in Requests
         /\ Answered(r) => Begun(r)
         /\ turn[r] = Unused => ~Begun(r)
         /\ turn[r] = Failed => ~Begun(r)
<1>1. turn[r] = Unused \/ turn[r] = Failed \/ turn[r] \in Requests
  BY DEF TurnTypeOK
<1>2. turn[r] \in Requests => turn[r].phase \in {"open", "answered", "done"}
  BY DEF Requests
<1>3. Unused.phase = "none" /\ Failed.phase = "failed"
  BY DEF Unused, Failed
<1> QED
  BY <1>1, <1>2, <1>3 DEF Begun, Answered

LEMMA ModelPartsFacts ==
  ASSUME NEW p \in Ids, NEW answer \in Seq(Pieces)
  PROVE  /\ ModelParts(p, answer) \in Seq(AnswerParts)
         /\ ModelParts(p, answer) \in Seq(Parts)
         /\ Turn("model", ModelParts(p, answer)) \in Turns
<1> DEFINE m == ModelParts(p, answer)
<1>1. Len(answer) \in Nat /\ DOMAIN answer = 1..Len(answer) /\ \A i \in DOMAIN answer : answer[i] \in Pieces
  BY LenProperties, ElementOfSeq
<1>2. ASSUME NEW i \in DOMAIN answer PROVE Part(answer[i].kind, <<p, i>>, answer[i].signed) \in AnswerParts
  <2>1. answer[i].kind \in {"thought", "text", "call"} /\ answer[i].signed \in BOOLEAN /\ <<p, i>> \in Origins
    BY <1>1 DEF Pieces, Origins
  <2> QED
    BY <2>1 DEF Part, AnswerParts
<1>3. m \in [1..Len(answer) -> AnswerParts]
  BY <1>1, <1>2 DEF ModelParts
<1>4. m \in Seq(AnswerParts)
  <2> HIDE DEF m
  <2> QED
    BY <1>1, <1>3, SeqDef
<1>5. m \in Seq(Parts)
  <2> HIDE DEF m
  <2> QED
    BY <1>4, SeqMonotonic DEF Parts
<1>6. Turn("model", m) \in Turns
  <2> HIDE DEF m
  <2> QED
    BY <1>4 DEF Turn, Turns
<1> QED
  BY <1>4, <1>5, <1>6

LEMMA PrefixOfConcat ==
  ASSUME NEW T, NEW a \in Seq(T), NEW b \in Seq(T)
  PROVE  IsPrefix(a, a \o b)
<1>1. Len(a) \in Nat /\ Len(b) \in Nat /\ Len(a \o b) = Len(a) + Len(b)
  BY LenProperties, ConcatProperties
<1>2. CASE Len(a) = 0
  <2>1. SubSeq(a, 1, Len(a)) = <<>> /\ SubSeq(a \o b, 1, Len(a)) = <<>>
    BY <1>2, SubSeqEmpty
  <2> QED
    BY <1>1, <2>1 DEF IsPrefix
<1>3. CASE Len(a) # 0
  <2>1. 1 \in 1..Len(a) /\ Len(a) \in 1..Len(a)
    BY <1>1, <1>3
  <2>2. SubSeq(a \o b, 1, Len(a)) = SubSeq(a, 1, Len(a))
    BY <2>1, SubSeqOfConcat1
  <2> QED
    BY <1>1, <2>2 DEF IsPrefix
<1> QED
  BY <1>2, <1>3

(* The turns that continue a stored answer begin with all that was sent    *)
(* for it and the answer.                                                  *)
LEMMA ContinuedFacts ==
  ASSUME NEW p \in Ids, NEW payload \in Seq(Turns), Proper(payload), NEW answer \in Seq(Pieces),
         Lookup(p) = Append(payload, Turn("model", ModelParts(p, answer))),
         NEW fresh \in Seq(Items)
  PROVE  /\ Continued(p, fresh) \in Seq(Turns) /\ Proper(Continued(p, fresh))
         /\ IsPrefix(PartsOf(payload) \o ModelParts(p, answer), PartsOf(Continued(p, fresh)))
<1> DEFINE l == Lookup(p)
           c == Converted(fresh)
           m == Turn("model", ModelParts(p, answer))
           said == PartsOf(payload) \o ModelParts(p, answer)
<1>1. m \in Turns /\ m.parts = ModelParts(p, answer) /\ ModelParts(p, answer) \in Seq(Parts)
  BY ModelPartsFacts DEF Turn
<1> HIDE DEF m
<1>2. l = Append(payload, m)
  BY DEF m
<1>3. c \in Seq(Turns)
  BY ConvertedFacts
<1> HIDE DEF l, c
<1>4. l \in Seq(Turns) /\ PartsOf(l) = said /\ l # <<>> /\ Head(l).role = "user"
  <2>1. payload # <<>> /\ Head(payload).role = "user"
    BY DEF Proper
  <2>2. Head(l) = Head(payload)
    BY <1>1, <1>2, <2>1, HeadTailAppend
  <2> QED
    <3>1. l \in Seq(Turns) /\ l # <<>>
      BY <1>1, <1>2, TurnAtTheEnd
    <3>2. PartsOf(l) = PartsOf(payload) \o m.parts
      BY <1>1, <1>2, PartsOfFacts
    <3> QED
      BY <1>1, <2>1, <2>2, <3>1, <3>2
<1>5. said \in Seq(Parts) /\ PartsOf(c) \in Seq(Parts)
  BY <1>3, <1>4, PartsOfFacts
<1> HIDE DEF said
<1> DEFINE t == l \o c
<1>6. t \in Seq(Turns) /\ t # <<>> /\ Head(t).role = "user"
  <2>1. Len(l) \in Nat /\ Len(l) > 0 /\ Len(c) \in Nat
    BY <1>3, <1>4, LenProperties, EmptySeq
  <2>2. /\ t \in Seq(Turns) /\ Len(t) = Len(l) + Len(c)
        /\ \A i \in 1..(Len(l) + Len(c)) : t[i] = IF i <= Len(l) THEN l[i] ELSE c[i - Len(l)]
    BY <1>3, <1>4, ConcatProperties
  <2> HIDE DEF t
  <2>3. t # <<>> /\ 1 \in 1..(Len(l) + Len(c))
    BY <2>1, <2>2, EmptySeq
  <2>4. t[1] = l[1] /\ Head(t) = t[1] /\ Head(l) = l[1]
    BY <1>4, <2>1, <2>2, <2>3
  <2> QED
    BY <1>4, <2>2, <2>3, <2>4
<1>7. PartsOf(t) = said \o PartsOf(c)
  BY <1>3, <1>4, PartsOfFacts
<1>8. Continued(p, fresh) = Guarded(Merged(t))
  BY DEF Continued, l, c
<1> HIDE DEF t
<1>9. PICK before \in {<<>>, Hello.parts, Continue.parts}, after \in {<<>>, Hello.parts, Continue.parts} :
        /\ PartsOf(Guarded(Merged(t))) = (before \o PartsOf(t)) \o after
        /\ t # <<>> /\ Head(t).role = "user" => before = <<>>
        /\ t # <<>> /\ Last(t).role = "user" => after = <<>>
  BY <1>6, PayloadFacts
<1>10. PartsOf(Guarded(Merged(t))) = said \o (PartsOf(c) \o after)
  <2>1. after \in Seq(Parts) /\ PartsOf(t) \in Seq(Parts)
    BY <1>6, GuardTurns, EmptySeq, PartsOfFacts
  <2>2. <<>> \o PartsOf(t) = PartsOf(t)
    BY <2>1, ConcatEmptySeq
  <2> DEFINE x == PartsOf(c)
  <2>3. x \in Seq(Parts) /\ PartsOf(t) = said \o x
    BY <1>5, <1>7
  <2> HIDE DEF x
  <2>4. (said \o x) \o after = said \o (x \o after)
    <3> DEFINE z == after
    <3>1. said \in Seq(Parts) /\ x \in Seq(Parts) /\ z \in Seq(Parts)
      BY <1>5, <2>1, <2>3
    <3> HIDE DEF z
    <3>3. (said \o x) \o z = said \o (x \o z)
      BY <3>1, PartsInARow
    <3> QED
      BY <3>3 DEF z
  <2> QED
    BY <1>6, <1>9, <2>2, <2>3, <2>4 DEF x
<1>11. IsPrefix(said, PartsOf(Guarded(Merged(t))))
  <2> DEFINE y == PartsOf(c) \o after
  <2>1. y \in Seq(Parts)
    <3>1. after \in Seq(Parts)
      BY GuardTurns, EmptySeq
    <3> QED
      BY <1>5, <3>1, ConcatProperties
  <2> HIDE DEF y
  <2>2. IsPrefix(said, said \o y)
    BY <1>5, <2>1, PrefixOfConcat
  <2> QED
    BY <1>10, <2>2 DEF y
<1> QED
  BY <1>6, <1>8, <1>11, PayloadFacts DEF said

(* Every step of the store keeps entries as they are, but for the saved.   *)
LEMMA MovedEntries ==
  ASSUME NEW list, IsList(list), NEW p \in 1..Len(list)
  PROVE  \A i \in DOMAIN MovedToFront(list, p) : \E j \in DOMAIN list : MovedToFront(list, p)[i] = list[j]
<1>1. Len(list) \in Nat /\ DOMAIN list = 1..Len(list)
  BY DEF IsList
<1> SUFFICES ASSUME NEW i \in 1..Len(list)
             PROVE  \E j \in 1..Len(list) : MovedToFront(list, p)[i] = list[j]
  BY <1>1 DEF MovedToFront
<1>2. MovedToFront(list, p)[i] = IF i = 1 THEN list[p] ELSE IF i <= p THEN list[i - 1] ELSE list[i]
  BY DEF MovedToFront
<1>3. i # 1 => i - 1 \in 1..Len(list)
  BY <1>1
<1> QED
  BY <1>2, <1>3

LEMMA SavedEntries ==
  ASSUME StoreInv, NEW id \in Ids, NEW state, Save(id, state)
  PROVE  \A i \in DOMAIN order' : \/ order'[i] = Entry(id, state)
                                  \/ \E j \in DOMAIN order : order'[i] = order[j]
<1>1. Len(order) \in Nat /\ DOMAIN order = 1..Len(order) /\ IsList(order) /\ Len(order) <= Capacity
  BY DEF StoreInv, Sound, IsList
<1>2. CASE id \in items
  <2> DEFINE list == [order EXCEPT ![Position(id)] = Entry(id, state)]
  <2>1. Position(id) \in 1..Len(order)
    BY <1>2, PositionOfKey DEF StoreInv
  <2>2. order' = MovedToFront(list, Position(id))
    BY <1>2 DEF Save
  <2>3. /\ DOMAIN list = 1..Len(order)
        /\ list = [i \in 1..Len(order) |-> list[i]]
        /\ \A i \in DOMAIN order : list[i] = IF i = Position(id) THEN Entry(id, state) ELSE order[i]
    BY <1>1
  <2>4. Len(list) = Len(order) /\ IsList(list)
    BY <1>1, <2>3, FunctionIsList
  <2> HIDE DEF list
  <2>5. \A i \in DOMAIN order' : \E j \in DOMAIN list : order'[i] = list[j]
    BY <2>1, <2>2, <2>4, MovedEntries
  <2> QED
    BY <1>1, <2>3, <2>5
<1>3. CASE id \notin items
  <2> DEFINE m == Trimmed(Pushed(Entry(id, state), order))
  <2>1. order' = m
    BY <1>3 DEF Save
  <2> DEFINE q == Pushed(Entry(id, state), order)
  <2>2. /\ q = [i \in 1..(Len(order) + 1) |-> q[i]]
        /\ \A i \in 1..(Len(order) + 1) : q[i] = IF i = 1 THEN Entry(id, state) ELSE order[i - 1]
    BY DEF Pushed
  <2>3. Len(q) = Len(order) + 1
    <3>1. Len(order) + 1 \in Nat
      BY <1>1
    <3> HIDE DEF q
    <3> QED
      BY <2>2, <3>1, FunctionIsList
  <2> HIDE DEF q
  <2>4. m = [i \in 1..(IF Len(q) > Capacity THEN Capacity ELSE Len(q)) |-> q[i]]
    BY DEF Trimmed, q
  <2>5. ASSUME NEW i \in DOMAIN m PROVE m[i] = q[i] /\ i \in 1..(Len(order) + 1)
    BY <1>1, <2>3, <2>4, CapacityAssumption
  <2> HIDE DEF m
  <2> SUFFICES ASSUME NEW i \in DOMAIN m, i # 1 PROVE \E j \in DOMAIN order : m[i] = order[j]
    BY <2>1, <2>2, <2>5
  <2>6. i - 1 \in DOMAIN order
    BY <1>1, <2>5
  <2>7. m[i] = order[i - 1]
    BY <2>2, <2>5
  <2> QED
    BY <2>6, <2>7
<1> QED
  BY <1>2, <1>3

LEMMA UsedEntries ==
  ASSUME StoreInv, NEW id \in Ids, Get(id) \/ Delete(id) \/ StoreRestart \/ UNCHANGED order
  PROVE  \A i \in DOMAIN order' : \E j \in DOMAIN order : order'[i] = order[j]
<1>1. Len(order) \in Nat /\ DOMAIN order = 1..Len(order) /\ IsList(order)
  BY DEF StoreInv, Sound, IsList
<1>2. CASE Get(id)
  <2>1. id \in items /\ order' = MovedToFront(order, Position(id))
    BY <1>2 DEF Get
  <2>2. Position(id) \in 1..Len(order)
    BY <2>1, PositionOfKey DEF StoreInv
  <2> QED
    BY <1>1, <2>1, <2>2, MovedEntries
<1>3. CASE Delete(id)
  <2>1. id \in items /\ order' = Removed(order, Position(id))
    BY <1>3 DEF Delete
  <2>2. Position(id) \in 1..Len(order)
    BY <2>1, PositionOfKey DEF StoreInv
  <2> SUFFICES ASSUME NEW i \in DOMAIN order' PROVE \E j \in DOMAIN order : order'[i] = order[j]
    OBVIOUS
  <2>3. i \in 1..(Len(order) - 1) /\ order'[i] = IF i < Position(id) THEN order[i] ELSE order[i + 1]
    BY <2>1 DEF Removed
  <2>4. i \in DOMAIN order /\ i + 1 \in DOMAIN order
    BY <1>1, <2>3
  <2> QED
    BY <2>3, <2>4
<1>4. CASE StoreRestart
  <2>1. order' = <<>>
    BY <1>4 DEF StoreRestart
  <2> QED
    BY <2>1
<1>5. CASE UNCHANGED order
  BY <1>5
<1> QED
  BY <1>2, <1>3, <1>4, <1>5

(* What a step does not touch of the requests: one that was begun before   *)
(* keeps what was sent, an answer stays.                                   *)
SameRequest(r) ==
  /\ turn'[r].chained = turn[r].chained /\ turn'[r].found = turn[r].found
  /\ turn'[r].parent = turn[r].parent /\ turn'[r].sent = turn[r].sent
  /\ turn'[r].payload = turn[r].payload

AnswersStay ==
  \A p \in Ids : Answered(p) => /\ Answered(p)'
                                /\ turn'[p].payload = turn[p].payload
                                /\ turn'[p].answer = turn[p].answer

LEMMA RequestStaysOK ==
  ASSUME NEW r \in Ids, RequestOK(r), SameRequest(r), AnswersStay
  PROVE  RequestOK(r)'
<1>1. ASSUME turn[r].chained, turn[r].found
      PROVE  /\ turn[r].parent \in Ids /\ Answered(turn[r].parent)'
             /\ Exchange(turn[r].parent)' = Exchange(turn[r].parent)
  <2>1. turn[r].parent \in Ids /\ Answered(turn[r].parent)
    BY <1>1 DEF RequestOK
  <2>2. Answered(turn[r].parent)' /\ turn'[turn[r].parent].payload = turn[turn[r].parent].payload
        /\ turn'[turn[r].parent].answer = turn[turn[r].parent].answer
    <3> DEFINE p == turn[r].parent
    <3>1. p \in Ids /\ Answered(p)
      BY <2>1
    <3>2. turn'[r].parent = p
      BY DEF SameRequest
    <3> HIDE DEF p
    <3>3. turn'[p].phase \in {"answered", "done"} /\ turn'[p].payload = turn[p].payload
          /\ turn'[p].answer = turn[p].answer
      BY <3>1 DEF AnswersStay, Answered
    <3> QED
      BY <3>2, <3>3 DEF p, Answered
  <2> QED
    BY <2>1, <2>2 DEF Exchange, SameRequest
<1> QED
  BY <1>1 DEF RequestOK, SameRequest

LEMMA StoredStaysSaid ==
  ASSUME StoreInv, StoredIsSaid, AnswersStay, NEW id \in Ids,
         Get(id) \/ Delete(id) \/ StoreRestart \/ UNCHANGED order
  PROVE  StoredIsSaid'
<1> DEFINE p(i) == order'[i].id
<1>1. ASSUME NEW i \in DOMAIN order'
      PROVE  /\ turn'[p(i)].phase \in {"answered", "done"}
             /\ order'[i].state = Append(turn'[p(i)].payload,
                                        Turn("model", ModelParts(p(i), turn'[p(i)].answer)))
  <2>1. PICK j \in DOMAIN order : order'[i] = order[j]
    BY UsedEntries
  <2>2. /\ order[j].id \in Ids /\ Answered(order[j].id)
        /\ order[j].state = Append(turn[order[j].id].payload,
                                  Turn("model", ModelParts(order[j].id, turn[order[j].id].answer)))
    BY DEF StoredIsSaid, StateOf, StoreInv, Sound, IsList
  <2>3. /\ turn'[order[j].id].phase \in {"answered", "done"}
        /\ turn'[order[j].id].payload = turn[order[j].id].payload
        /\ turn'[order[j].id].answer = turn[order[j].id].answer
    BY <2>2 DEF AnswersStay, Answered
  <2> QED
    BY <2>1, <2>2, <2>3
<1> QED
  BY <1>1 DEF StoredIsSaid, StateOf, Answered

(* A new request that is as it should be leaves the others as they are.    *)
LEMMA OpenPreserves ==
  ASSUME ConversationInv, StoreInv', NEW r \in Ids, turn[r] = Unused,
         NEW p \in Ids \cup {None}, NEW how \in {"replay", "found", "missing"},
         NEW sent \in Seq(Items), NEW payload \in Seq(Turns), NEW whole \in BOOLEAN,
         Open(r, p, how, sent, payload, whole),
         NEW id \in Ids, Get(id) \/ UNCHANGED order,
         Proper(payload), CallsSent(sent),
         how = "replay" => Matches(PartsOf(payload), sent),
         how = "found" => p \in Ids /\ Answered(p) /\ IsPrefix(Exchange(p), PartsOf(payload))
  PROVE  ConversationInv'
<1> DEFINE chained == how # "replay"
           found == how = "found"
           new == [phase |-> "open", parent |-> p, chained |-> chained, found |-> found,
                   sent |-> sent, payload |-> payload, answer |-> <<>>, whole |-> whole]
<1>1. StoreInv /\ TurnTypeOK /\ StoredIsSaid /\ \A q \in Ids : Begun(q) => RequestOK(q)
  BY DEF ConversationInv
<1>2. chained \in BOOLEAN /\ found \in BOOLEAN /\ (found => chained)
  OBVIOUS
<1>3. turn' = [turn EXCEPT ![r] = new]
  BY DEF Open
<1> HIDE DEF chained, found
<1>4. new \in Requests
  <2>1. <<>> \in Seq(Pieces)
    BY EmptySeq
  <2> QED
    BY <1>2, <2>1 DEF Requests
<1>5. /\ new.phase = "open" /\ new.parent = p /\ new.chained = chained /\ new.found = found
      /\ new.sent = sent /\ new.payload = payload
  OBVIOUS
<1> HIDE DEF new
<1>6. turn'[r] = new /\ \A q \in Ids : q # r => turn'[q] = turn[q]
  BY <1>1, <1>3 DEF TurnTypeOK
<1>7. TurnTypeOK'
  BY <1>1, <1>3, <1>4 DEF TurnTypeOK
<1>8. \A q \in Ids : Begun(q) => q # r /\ turn'[q] = turn[q]
  BY <1>1, <1>6, BegunFacts
<1>9. AnswersStay
  BY <1>1, <1>8, BegunFacts DEF AnswersStay, Answered
<1>10. StoredIsSaid'
  BY <1>1, <1>9, StoredStaysSaid
<1>11. ASSUME NEW q \in Ids, Begun(q)' PROVE RequestOK(q)'
  <2>1. CASE q # r
    <3>1. turn'[q] = turn[q] /\ Begun(q)
      BY <1>6, <1>11, <2>1 DEF Begun, Answered
    <3> QED
      BY <1>1, <1>9, <3>1, RequestStaysOK DEF SameRequest
  <2>2. CASE q = r
    <3>1. how # "replay" => chained
      BY DEF chained
    <3>2. how = "replay" => ~chained
      BY DEF chained
    <3>3. found <=> how = "found"
      BY DEF found
    <3>4. CASE found
      <4>1. p \in Ids /\ Answered(p) /\ IsPrefix(Exchange(p), PartsOf(payload))
        BY <3>3, <3>4
      <4>2. turn'[p].phase \in {"answered", "done"} /\ turn'[p].payload = turn[p].payload
            /\ turn'[p].answer = turn[p].answer
        BY <1>9, <4>1 DEF AnswersStay, Answered
      <4>3. turn'[r].payload = payload /\ turn'[r].sent = sent /\ turn'[r].chained /\ turn'[r].parent = p
        BY <1>2, <1>5, <1>6, <3>4
      <4> QED
        BY <2>2, <4>1, <4>2, <4>3 DEF RequestOK, Exchange, Answered
    <3>5. CASE ~found
      <4>1. turn'[r].payload = payload /\ turn'[r].sent = sent /\ ~turn'[r].found
            /\ (~turn'[r].chained => how = "replay")
        BY <1>5, <1>6, <3>1, <3>5
      <4> QED
        BY <2>2, <4>1 DEF RequestOK
    <3> QED
      BY <3>4, <3>5
  <2> QED
    BY <2>1, <2>2
<1> QED
  BY <1>7, <1>10, <1>11 DEF ConversationInv

(* A step that changes how far a request is, or gives it an answer.        *)
LEMMA ProgressPreserves ==
  ASSUME ConversationInv, StoreInv', TurnTypeOK', StoredIsSaid', AnswersStay,
         \A q \in Ids : Begun(q)' => Begun(q) /\ SameRequest(q)
  PROVE  ConversationInv'
<1> SUFFICES ASSUME NEW q \in Ids, Begun(q)' PROVE RequestOK(q)'
  BY DEF ConversationInv
<1>1. Begun(q) /\ SameRequest(q) /\ RequestOK(q)
  BY DEF ConversationInv
<1> QED
  BY <1>1, RequestStaysOK

LEMMA UnchangedAnswers ==
  ASSUME UNCHANGED turn
  PROVE  AnswersStay /\ (\A q \in Ids : Begun(q)' => Begun(q) /\ SameRequest(q)) /\ (TurnTypeOK => TurnTypeOK')
BY DEF AnswersStay, Answered, Begun, SameRequest, TurnTypeOK

(* First, Replay and Chain. *)
LEMMA FirstPreserves ==
  ASSUME ConversationInv, StoreInv', NEW r \in Ids, NEW fresh \in FirstItems(r), First(r, fresh)
  PROVE  ConversationInv'
<1> DEFINE u == Item("user", <<r, 0>>, FALSE)
<1>1. u \in Items /\ u.type = "user"
  BY DEF Item, Items, Origins
<1>2. fresh = <<u>> \/ fresh = <<>>
  BY DEF FirstItems
<1> HIDE DEF u
<1>3. fresh \in Seq(Items) /\ \A x \in Range(fresh) : x.type = "user"
  <2>1. Range(<<u>>) = {u} /\ Range(<<>>) = {} /\ <<u>> \in Seq(Items) /\ <<>> \in Seq(Items)
    BY <1>1, EmptySeq DEF Range
  <2> QED
    BY <1>1, <1>2, <2>1
<1>4. CallsSent(fresh)
  BY <1>3, CallsSentRange
<1>5. Replayed(fresh) \in Seq(Turns) /\ Proper(Replayed(fresh))
  BY <1>3, ConvertedFacts, PayloadFacts DEF Replayed
<1>6. Matches(PartsOf(Replayed(fresh)), fresh)
  BY <1>3, <1>4, ReplayMatches
<1> DEFINE whole == fresh # <<>>
<1>7. /\ turn[r] = Unused /\ Open(r, None, "replay", fresh, Replayed(fresh), whole)
      /\ UNCHANGED order
  BY DEF First, store
<1>8. whole \in BOOLEAN
  OBVIOUS
<1> HIDE DEF whole
<1> QED
  BY <1>3, <1>4, <1>5, <1>6, <1>7, <1>8, OpenPreserves

LEMMA ParentFacts ==
  ASSUME ConversationInv, NEW p \in Ids, Answered(p), NEW r \in Ids, NEW fresh \in FreshItems(r, p)
  PROVE  /\ turn[p].sent \in Seq(Items) /\ turn[p].answer \in Seq(Pieces) /\ turn[p].payload \in Seq(Turns)
         /\ Proper(turn[p].payload)
         /\ fresh \in Seq(Items)
         /\ Transcript(p) \o fresh \in Seq(Items) /\ CallsSent(Transcript(p) \o fresh)
<1>1. TurnTypeOK /\ Begun(p) /\ RequestOK(p)
  BY BegunFacts DEF ConversationInv
<1>2. turn[p] \in Requests
  BY <1>1, BegunFacts
<1>3. turn[p].sent \in Seq(Items) /\ turn[p].answer \in Seq(Pieces) /\ turn[p].payload \in Seq(Turns)
  BY <1>2 DEF Requests
<1> QED
  BY <1>1, <1>3, TranscriptFacts DEF RequestOK

LEMMA ReplayPreserves ==
  ASSUME ConversationInv, StoreInv', NEW r \in Ids, NEW p \in Ids, NEW fresh \in FreshItems(r, p),
         Replay(r, p, fresh)
  PROVE  ConversationInv'
<1> DEFINE sent == Transcript(p) \o fresh
           whole == turn[p].whole /\ Plain(turn[p].answer) /\ fresh # <<>>
<1>1. /\ turn[r] = Unused /\ Answered(p) /\ Open(r, p, "replay", sent, Replayed(sent), whole)
      /\ UNCHANGED order
  BY DEF Replay, store
<1>2. sent \in Seq(Items) /\ CallsSent(sent)
  BY <1>1, ParentFacts
<1>3. whole \in BOOLEAN
  OBVIOUS
<1> HIDE DEF sent, whole
<1>4. Replayed(sent) \in Seq(Turns) /\ Proper(Replayed(sent))
  BY <1>2, ConvertedFacts, PayloadFacts DEF Replayed
<1>5. Matches(PartsOf(Replayed(sent)), sent)
  BY <1>2, ReplayMatches
<1> QED
  BY <1>1, <1>2, <1>3, <1>4, <1>5, OpenPreserves

(* What is found in the store is what was sent and the answer. *)
LEMMA FoundIsSaid ==
  ASSUME ConversationInv, NEW p \in items
  PROVE  p \in Ids /\ Answered(p) /\ Lookup(p) = StateOf(p)
<1>1. StoreInv /\ StoredIsSaid /\ p \in Ids
  BY DEF ConversationInv, StoreInv
<1>2. Position(p) \in 1..Len(order) /\ order[Position(p)].id = p /\ DOMAIN order = 1..Len(order)
  BY <1>1, PositionOfKey DEF StoreInv, Sound, IsList
<1> QED
  BY <1>1, <1>2 DEF StoredIsSaid, Lookup

LEMMA ChainPreserves ==
  ASSUME ConversationInv, StoreInv', NEW r \in Ids, NEW p \in Ids, NEW fresh \in FreshItems(r, p),
         Chain(r, p, fresh)
  PROVE  ConversationInv'
<1> DEFINE sent == Transcript(p) \o fresh
           whole == p \in items /\ turn[p].whole /\ Plain(turn[p].answer) /\ fresh # <<>>
           how == IF p \in items THEN "found" ELSE "missing"
           payload == IF p \in items THEN Continued(p, fresh) ELSE Replayed(fresh)
<1>1. /\ turn[r] = Unused /\ Answered(p) /\ Open(r, p, how, sent, payload, whole)
      /\ Get(p) \/ UNCHANGED order
  BY DEF Chain, GetMissing, store
<1>2. /\ sent \in Seq(Items) /\ CallsSent(sent) /\ fresh \in Seq(Items)
      /\ turn[p].answer \in Seq(Pieces) /\ turn[p].payload \in Seq(Turns) /\ Proper(turn[p].payload)
  BY <1>1, ParentFacts
<1>3. whole \in BOOLEAN /\ how \in {"replay", "found", "missing"} /\ how # "replay"
      /\ (how = "found" <=> p \in items)
  OBVIOUS
<1>4. payload \in Seq(Turns) /\ Proper(payload) /\ (p \in items => IsPrefix(Exchange(p), PartsOf(payload)))
  <2>1. CASE p \in items
    <3>1. Lookup(p) = Append(turn[p].payload, Turn("model", ModelParts(p, turn[p].answer)))
      BY <2>1, FoundIsSaid DEF StateOf
    <3>2. /\ Continued(p, fresh) \in Seq(Turns) /\ Proper(Continued(p, fresh))
          /\ IsPrefix(Exchange(p), PartsOf(Continued(p, fresh)))
      BY <1>2, <3>1, ContinuedFacts DEF Exchange
    <3> QED
      BY <2>1, <3>2
  <2>2. CASE p \notin items
    <3>1. Replayed(fresh) \in Seq(Turns) /\ Proper(Replayed(fresh))
      BY <1>2, ConvertedFacts, PayloadFacts DEF Replayed
    <3> QED
      BY <2>2, <3>1
  <2> QED
    BY <2>1, <2>2
<1> HIDE DEF sent, whole, how, payload
<1> QED
  BY <1>1, <1>2, <1>3, <1>4, OpenPreserves

(* The steps of a request that was sent.                                   *)
LEMMA FinishPreserves ==
  ASSUME ConversationInv, StoreInv', NEW r \in Ids, NEW answer \in Answers, Finish(r, answer)
  PROVE  ConversationInv'
<1>1. StoreInv /\ TurnTypeOK /\ StoredIsSaid
  BY DEF ConversationInv
<1>2. turn[r].phase = "open" /\ turn' = [turn EXCEPT ![r].phase = "answered", ![r].answer = answer]
      /\ UNCHANGED order
  BY DEF Finish, store
<1>3. turn[r] \in Requests /\ Begun(r) /\ ~Answered(r)
  BY <1>1, <1>2, BegunFacts DEF Begun, Answered
<1> DEFINE new == [turn[r] EXCEPT !.phase = "answered", !.answer = answer]
<1>4. new \in Requests /\ new.phase = "answered"
      /\ new.chained = turn[r].chained /\ new.found = turn[r].found /\ new.parent = turn[r].parent
      /\ new.sent = turn[r].sent /\ new.payload = turn[r].payload
  BY <1>3, AnswersAssumption DEF Requests
<1>5. turn' = [turn EXCEPT ![r] = new]
  BY <1>2
<1> HIDE DEF new
<1>6. turn'[r] = new /\ \A q \in Ids : q # r => turn'[q] = turn[q]
  BY <1>1, <1>5 DEF TurnTypeOK
<1>7. TurnTypeOK'
  BY <1>1, <1>4, <1>5 DEF TurnTypeOK
<1>8. AnswersStay
  BY <1>3, <1>6 DEF AnswersStay, Answered
<1>9. \A q \in Ids : Begun(q)' => Begun(q) /\ SameRequest(q)
  BY <1>3, <1>4, <1>6 DEF Begun, Answered, SameRequest
<1>10. StoredIsSaid'
  BY <1>1, <1>2, <1>8, StoredStaysSaid
<1> QED
  BY <1>7, <1>8, <1>9, <1>10, ProgressPreserves

LEMMA SavePreserves ==
  ASSUME ConversationInv, StoreInv', NEW r \in Ids, SaveResponseState(r)
  PROVE  ConversationInv'
<1>1. StoreInv /\ TurnTypeOK /\ StoredIsSaid
  BY DEF ConversationInv
<1>2. turn[r].phase = "answered" /\ turn' = [turn EXCEPT ![r].phase = "done"]
  BY DEF SaveResponseState
<1>3. turn[r] \in Requests /\ Begun(r) /\ Answered(r)
  BY <1>1, <1>2, BegunFacts DEF Begun, Answered
<1> DEFINE new == [turn[r] EXCEPT !.phase = "done"]
<1>4. new \in Requests /\ new.phase = "done" /\ new.answer = turn[r].answer
      /\ new.chained = turn[r].chained /\ new.found = turn[r].found /\ new.parent = turn[r].parent
      /\ new.sent = turn[r].sent /\ new.payload = turn[r].payload
  BY <1>3 DEF Requests
<1>5. turn' = [turn EXCEPT ![r] = new]
  BY <1>2
<1> HIDE DEF new
<1>6. turn'[r] = new /\ \A q \in Ids : q # r => turn'[q] = turn[q]
  BY <1>1, <1>5 DEF TurnTypeOK
<1>7. TurnTypeOK'
  BY <1>1, <1>4, <1>5 DEF TurnTypeOK
<1>8. AnswersStay
  BY <1>4, <1>6 DEF AnswersStay, Answered
<1>9. \A q \in Ids : Begun(q)' => Begun(q) /\ SameRequest(q)
  BY <1>3, <1>4, <1>6 DEF Begun, Answered, SameRequest
<1>10. StoredIsSaid'
  <2>1. CASE turn[r].answer = <<>>
    <3>1. UNCHANGED order
      BY <2>1 DEF SaveResponseState, store
    <3> QED
      BY <1>1, <1>8, <3>1, StoredStaysSaid
  <2>2. CASE turn[r].answer # <<>>
    <3>1. Save(r, StateOf(r))
      BY <2>2 DEF SaveResponseState, StateOf
    <3> DEFINE p(i) == order'[i].id
    <3>2. ASSUME NEW i \in DOMAIN order'
          PROVE  /\ turn'[p(i)].phase \in {"answered", "done"}
                 /\ order'[i].state = Append(turn'[p(i)].payload,
                                            Turn("model", ModelParts(p(i), turn'[p(i)].answer)))
      <4>1. CASE order'[i] = Entry(r, StateOf(r))
        <5>1. p(i) = r /\ order'[i].state = StateOf(r)
          BY <4>1 DEF Entry
        <5> QED
          BY <1>4, <1>6, <5>1 DEF StateOf
      <4>2. CASE \E j \in DOMAIN order : order'[i] = order[j]
        <5>1. PICK j \in DOMAIN order : order'[i] = order[j]
          BY <4>2
        <5>2. /\ order[j].id \in Ids /\ Answered(order[j].id)
              /\ order[j].state = Append(turn[order[j].id].payload,
                                        Turn("model", ModelParts(order[j].id, turn[order[j].id].answer)))
          BY <1>1 DEF StoredIsSaid, StateOf, StoreInv, Sound, IsList
        <5>3. /\ turn'[order[j].id].phase \in {"answered", "done"}
              /\ turn'[order[j].id].payload = turn[order[j].id].payload
              /\ turn'[order[j].id].answer = turn[order[j].id].answer
          BY <1>8, <5>2 DEF AnswersStay, Answered
        <5> QED
          BY <5>1, <5>2, <5>3
      <4> QED
        BY <1>1, <3>1, <4>1, <4>2, SavedEntries
    <3> QED
      BY <3>2 DEF StoredIsSaid, StateOf, Answered
  <2> QED
    BY <2>1, <2>2
<1> QED
  BY <1>7, <1>8, <1>9, <1>10, ProgressPreserves

LEMMA FailPreserves ==
  ASSUME ConversationInv, StoreInv', NEW r \in Ids, Fail(r)
  PROVE  ConversationInv'
<1>1. StoreInv /\ TurnTypeOK /\ StoredIsSaid
  BY DEF ConversationInv
<1>2. turn[r].phase = "open" /\ turn' = [turn EXCEPT ![r] = Failed] /\ UNCHANGED order
  BY DEF Fail, store
<1>3. ~Answered(r)
  BY <1>2 DEF Answered
<1>4. turn'[r] = Failed /\ \A q \in Ids : q # r => turn'[q] = turn[q]
  BY <1>1, <1>2 DEF TurnTypeOK
<1>5. TurnTypeOK'
  BY <1>1, <1>2 DEF TurnTypeOK
<1>6. AnswersStay
  BY <1>3, <1>4 DEF AnswersStay, Answered
<1>7. ~Begun(r)'
  BY <1>4 DEF Begun, Answered, Failed
<1>8. \A q \in Ids : Begun(q)' => Begun(q) /\ SameRequest(q)
  BY <1>4, <1>7 DEF Begun, Answered, SameRequest
<1>9. StoredIsSaid'
  BY <1>1, <1>2, <1>6, StoredStaysSaid
<1> QED
  BY <1>5, <1>6, <1>8, <1>9, ProgressPreserves

LEMMA ReadOrForgetPreserves ==
  ASSUME ConversationInv, StoreInv', NEW r \in Ids, Read(r) \/ Forget(r)
  PROVE  ConversationInv'
<1>1. StoreInv /\ TurnTypeOK /\ StoredIsSaid
  BY DEF ConversationInv
<1>2. UNCHANGED turn /\ (Get(r) \/ Delete(r) \/ UNCHANGED order)
  BY DEF Read, Forget, GetMissing, store
<1>3. /\ AnswersStay /\ TurnTypeOK'
      /\ \A q \in Ids : Begun(q)' => Begun(q) /\ SameRequest(q)
  BY <1>1, <1>2, UnchangedAnswers
<1>4. StoredIsSaid'
  BY <1>1, <1>2, <1>3, StoredStaysSaid
<1> QED
  BY <1>3, <1>4, ProgressPreserves

LEMMA RestartPreserves ==
  ASSUME ConversationInv, StoreInv', Restart
  PROVE  ConversationInv'
<1>1. StoreInv /\ TurnTypeOK /\ StoredIsSaid
  BY DEF ConversationInv
<1> DEFINE after(r) == IF turn[r].phase = "open" THEN Failed
                       ELSE IF turn[r].phase = "answered" THEN [turn[r] EXCEPT !.phase = "done"]
                       ELSE turn[r]
<1>2. StoreRestart /\ turn' = [r \in Ids |-> after(r)]
  BY DEF Restart
<1>3. ASSUME NEW r \in Ids
      PROVE  /\ turn'[r] \in {Unused, Failed} \cup Requests
             /\ Answered(r) => turn'[r].phase = "done" /\ turn'[r].payload = turn[r].payload
                               /\ turn'[r].answer = turn[r].answer
             /\ Begun(r)' => Begun(r) /\ SameRequest(r)
  <2>1. turn'[r] = after(r)
    BY <1>2
  <2>2. CASE turn[r].phase = "open"
    <3>1. turn'[r] = Failed
      BY <2>1, <2>2
    <3> QED
      BY <2>2, <3>1 DEF Begun, Answered, Failed
  <2>3. CASE turn[r].phase = "answered"
    <3>1. turn[r] \in Requests /\ Begun(r)
      BY <1>1, <2>3, BegunFacts DEF Begun, Answered
    <3>2. turn'[r] = [turn[r] EXCEPT !.phase = "done"]
      BY <2>1, <2>3
    <3> DEFINE new == [turn[r] EXCEPT !.phase = "done"]
    <3>3. new \in Requests /\ new.phase = "done" /\ new.answer = turn[r].answer
          /\ new.chained = turn[r].chained /\ new.found = turn[r].found /\ new.parent = turn[r].parent
          /\ new.sent = turn[r].sent /\ new.payload = turn[r].payload
      BY <3>1 DEF Requests
    <3> HIDE DEF new
    <3>4. turn'[r] = new
      BY <3>2 DEF new
    <3> QED
      BY <3>1, <3>3, <3>4 DEF SameRequest
  <2>4. CASE turn[r].phase # "open" /\ turn[r].phase # "answered"
    <3>1. turn'[r] = turn[r]
      BY <2>1, <2>4
    <3> QED
      BY <1>1, <2>4, <3>1 DEF TurnTypeOK, Begun, Answered, SameRequest
  <2> QED
    BY <2>2, <2>3, <2>4
<1>4. TurnTypeOK'
  <2>1. turn' = [r \in Ids |-> turn'[r]]
    BY <1>2
  <2> QED
    BY <1>3, <2>1 DEF TurnTypeOK
<1>5. AnswersStay
  BY <1>3 DEF AnswersStay, Answered
<1>6. StoredIsSaid'
  <2>1. order' = <<>>
    BY <1>2 DEF StoreRestart
  <2> QED
    BY <2>1 DEF StoredIsSaid
<1> QED
  BY <1>3, <1>4, <1>5, <1>6, ProgressPreserves

(* The invariant holds in every conversation.                              *)
THEOREM ConversationInvariance == Spec => []ConversationInv
<1>1. Init => ConversationInv
  <2> SUFFICES ASSUME Init PROVE ConversationInv
    OBVIOUS
  <2>1. StoreInv
    BY EmptyIsSound, FS_EmptySet DEF Init, StoreInit, StoreInv, SinceFinite, RecentIsKept
  <2>2. TurnTypeOK /\ \A r \in Ids : turn[r] = Unused
    BY DEF Init, TurnTypeOK
  <2>3. order = <<>>
    BY DEF Init, StoreInit
  <2> QED
    BY <2>1, <2>2, <2>3, BegunFacts DEF ConversationInv, StoredIsSaid
<1>2. ConversationInv /\ [Next]_vars => ConversationInv'
  <2> SUFFICES ASSUME ConversationInv, [Next]_vars PROVE ConversationInv'
    OBVIOUS
  <2>1. StoreInv'
    BY StepIsStoreStep, StepPreserves DEF ConversationInv
  <2>2. ASSUME NEW r \in Ids, NEW fresh \in FirstItems(r), First(r, fresh) PROVE ConversationInv'
    BY <2>1, <2>2, FirstPreserves
  <2>3. ASSUME NEW r \in Ids, NEW answer \in Answers, Finish(r, answer) PROVE ConversationInv'
    BY <2>1, <2>3, FinishPreserves
  <2>4. ASSUME NEW r \in Ids, SaveResponseState(r) PROVE ConversationInv'
    BY <2>1, <2>4, SavePreserves
  <2>5. ASSUME NEW r \in Ids, Fail(r) PROVE ConversationInv'
    BY <2>1, <2>5, FailPreserves
  <2>6. ASSUME NEW r \in Ids, Read(r) \/ Forget(r) PROVE ConversationInv'
    BY <2>1, <2>6, ReadOrForgetPreserves
  <2>7. ASSUME NEW r \in Ids, NEW p \in Ids, NEW fresh \in FreshItems(r, p), Replay(r, p, fresh)
        PROVE  ConversationInv'
    BY <2>1, <2>7, ReplayPreserves
  <2>8. ASSUME NEW r \in Ids, NEW p \in Ids, NEW fresh \in FreshItems(r, p), Chain(r, p, fresh)
        PROVE  ConversationInv'
    BY <2>1, <2>8, ChainPreserves
  <2>9. ASSUME Restart PROVE ConversationInv'
    BY <2>1, <2>9, RestartPreserves
  <2>10. ASSUME UNCHANGED vars PROVE ConversationInv'
    <3>1. UNCHANGED turn /\ UNCHANGED order
      BY <2>10 DEF vars, store
    <3>2. /\ AnswersStay /\ (TurnTypeOK => TurnTypeOK')
          /\ \A q \in Ids : Begun(q)' => Begun(q) /\ SameRequest(q)
      BY <3>1, UnchangedAnswers
    <3>3. StoredIsSaid'
      BY <3>1 DEF ConversationInv, StoredIsSaid, Answered, StateOf
    <3> QED
      BY <2>1, <3>2, <3>3, ProgressPreserves DEF ConversationInv
  <2> QED
    BY <2>2, <2>3, <2>4, <2>5, <2>6, <2>7, <2>8, <2>9, <2>10 DEF Next
<1> QED BY <1>1, <1>2, PTL DEF Spec

(* Google is sent turns that alternate, from the user's to the user's, for *)
(* every history and every set of answers.                                 *)
THEOREM TurnsAlwaysAlternate == Spec => []TurnsAlternate
<1>1. ConversationInv => TurnsAlternate
  BY DEF ConversationInv, RequestOK, Proper, Alternating, TurnsAlternate
<1> QED BY <1>1, ConversationInvariance, PTL

(* A request that names an answer begins with all that was sent for it and *)
(* the answer, whatever happened between the two.                          *)
THEOREM PrefixAlwaysKept == Spec => []PrefixKept
<1>1. ConversationInv => PrefixKept
  BY DEF ConversationInv, RequestOK, Exchange, PrefixKept
<1> QED BY <1>1, ConversationInvariance, PTL

(* A replayed transcript never has a result without its call, or a call    *)
(* whose result is text, whichever signatures were lost.                   *)
THEOREM ResultsAlwaysMatch == Spec => []ResultsMatchCalls
<1>1. ConversationInv => ResultsMatchCalls
  BY DEF ConversationInv, RequestOK, Matches, ResultsMatchCalls
<1> QED BY <1>1, ConversationInvariance, PTL

-----------------------------------------------------------------------------

(* What an item says to the model, but for the names of tools, when the    *)
(* signatures of known are.                                                *)
SaidBy(known, item) ==
  CASE item.type = "user" -> <<Part("text", item.says, FALSE)>>
    [] item.type = "reasoning" -> IF item.signed THEN <<Part("thought", item.says, TRUE)>> ELSE <<>>
    [] item.type = "assistant" -> <<Part("text", item.says, item.says \in known)>>
    [] item.type = "function_call" -> <<IF item.says \in known THEN Part("call", item.says, TRUE)
                                        ELSE Part("text", item.says, FALSE)>>
    [] item.type = "function_call_output" ->
         <<Part(IF item.says \in known THEN "result" ELSE "text", item.says, FALSE)>>

SaidMap(known) == [item \in Items |-> SaidBy(known, item)]

(* What a transcript says, item for item. *)
Spoken(known, sent) == FlatMap(SaidMap(known), sent)

(* The items that make a turn of the user. *)
UserTypes == {"user", "function_call_output"}

LEMMA EndsOfConcat ==
  ASSUME NEW T, NEW a \in Seq(T), NEW b \in Seq(T)
  PROVE  /\ a # <<>> => a \o b # <<>> /\ Head(a \o b) = Head(a)
         /\ b # <<>> => a \o b # <<>> /\ Last(a \o b) = Last(b)
<1> DEFINE c == a \o b
<1>1. /\ Len(a) \in Nat /\ Len(b) \in Nat /\ Len(c) = Len(a) + Len(b) /\ c \in Seq(T)
      /\ \A i \in 1..(Len(a) + Len(b)) : c[i] = IF i <= Len(a) THEN a[i] ELSE b[i - Len(a)]
  BY LenProperties, ConcatProperties
<1>2. (a # <<>> => Len(a) > 0) /\ (b # <<>> => Len(b) > 0) /\ (Len(c) > 0 => c # <<>>)
  BY EmptySeq
<1> HIDE DEF c
<1>3. ASSUME a # <<>> PROVE c # <<>> /\ Head(c) = Head(a)
  <2>1. c # <<>> /\ c[1] = a[1]
    BY <1>1, <1>2, <1>3
  <2> QED
    BY <2>1, <1>1, <1>3
<1>4. ASSUME b # <<>> PROVE c # <<>> /\ Last(c) = Last(b)
  <2>1. c # <<>> /\ Len(c) \in 1..(Len(a) + Len(b)) /\ ~(Len(c) <= Len(a)) /\ Len(c) - Len(a) = Len(b)
    BY <1>1, <1>2, <1>4
  <2>2. c[Len(c)] = b[Len(b)]
    BY <1>1, <2>1
  <2> QED
    BY <2>1, <2>2 DEF Last
<1> QED
  BY <1>3, <1>4 DEF c

LEMMA NamelessFacts ==
  /\ Nameless(<<>>) = <<>>
  /\ \A x \in Parts : [x EXCEPT !.named = TRUE] \in Parts /\ Nameless(<<x>>) = <<[x EXCEPT !.named = TRUE]>>
  /\ \A a \in Seq(Parts) : Nameless(a) \in Seq(Parts)
  /\ \A a, b \in Seq(Parts) : Nameless(a \o b) = Nameless(a) \o Nameless(b)
<1> DEFINE f(x) == [x EXCEPT !.named = TRUE]
<1>1. ASSUME NEW x \in Parts PROVE f(x) \in Parts
  <2>1. x \in UserParts => f(x) \in UserParts
    BY DEF UserParts
  <2>2. x \in AnswerParts => f(x) \in AnswerParts
    BY DEF AnswerParts
  <2> QED
    BY <2>1, <2>2 DEF Parts
<1>2. ASSUME NEW a
      PROVE DOMAIN Nameless(a) = DOMAIN a /\ \A i \in DOMAIN a : Nameless(a)[i] = f(a[i])
  BY DEF Nameless
<1>3. ASSUME NEW a \in Seq(Parts)
      PROVE  Nameless(a) \in Seq(Parts) /\ Len(Nameless(a)) = Len(a) /\ Len(a) \in Nat
             /\ \A i \in 1..Len(a) : Nameless(a)[i] = f(a[i])
  <2>1. Len(a) \in Nat /\ DOMAIN a = 1..Len(a) /\ \A i \in 1..Len(a) : a[i] \in Parts
    BY LenProperties, ElementOfSeq
  <2>2. \A i \in 1..Len(a) : f(a[i]) \in Parts
    BY <1>1, <2>1
  <2> HIDE DEF f
  <2>3. Nameless(a) = [i \in 1..Len(a) |-> f(a[i])]
    BY <2>1 DEF Nameless, f
  <2>4. Nameless(a) \in [1..Len(a) -> Parts]
    BY <2>2, <2>3
  <2>5. Nameless(a) \in Seq(Parts)
    BY <2>1, <2>4, SeqDef
  <2> QED
    BY <2>1, <2>4, <2>5, <1>2, LenProperties
<1>4. Nameless(<<>>) = <<>>
  BY DEF Nameless
<1>5. ASSUME NEW x \in Parts PROVE Nameless(<<x>>) = <<f(x)>>
  <2> HIDE DEF f
  <2>1. Nameless(<<x>>) = [i \in {1} |-> f(<<x>>[i])]
    BY DEF Nameless, f
  <2> QED
    BY <2>1
<1> HIDE DEF f
<1>6. ASSUME NEW a, NEW b, a \in Seq(Parts), b \in Seq(Parts)
      PROVE  Nameless(a \o b) = Nameless(a) \o Nameless(b)
  <2> DEFINE c == a \o b
             m == Nameless(a)
             n == Nameless(b)
  <2>1. /\ c \in Seq(Parts) /\ Len(c) = Len(a) + Len(b)
        /\ \A i \in 1..(Len(a) + Len(b)) : c[i] = IF i <= Len(a) THEN a[i] ELSE b[i - Len(a)]
    BY <1>6, ConcatProperties
  <2>2. /\ m \in Seq(Parts) /\ Len(m) = Len(a) /\ Len(a) \in Nat /\ \A i \in 1..Len(a) : m[i] = f(a[i])
        /\ n \in Seq(Parts) /\ Len(n) = Len(b) /\ Len(b) \in Nat /\ \A i \in 1..Len(b) : n[i] = f(b[i])
    BY <1>3, <1>6
  <2> HIDE DEF c, m, n
  <2>3. /\ Nameless(c) \in Seq(Parts) /\ Len(Nameless(c)) = Len(a) + Len(b)
        /\ \A i \in 1..(Len(a) + Len(b)) : Nameless(c)[i] = f(c[i])
    BY <1>3, <2>1
  <2>4. /\ m \o n \in Seq(Parts) /\ Len(m \o n) = Len(a) + Len(b)
        /\ \A i \in 1..(Len(a) + Len(b)) : (m \o n)[i] = IF i <= Len(a) THEN m[i] ELSE n[i - Len(a)]
    <3>1. m \in Seq(Parts) /\ n \in Seq(Parts)
      BY <2>2
    <3>2. /\ m \o n \in Seq(Parts) /\ Len(m \o n) = Len(m) + Len(n)
          /\ \A i \in 1..(Len(m) + Len(n)) : (m \o n)[i] = IF i <= Len(m) THEN m[i] ELSE n[i - Len(m)]
      BY <3>1, ConcatProperties
    <3> QED
      BY <2>2, <3>2
  <2> DEFINE l == m \o n
  <2>5. /\ l \in Seq(Parts) /\ Len(l) = Len(a) + Len(b)
        /\ \A i \in 1..(Len(a) + Len(b)) : l[i] = IF i <= Len(a) THEN m[i] ELSE n[i - Len(a)]
    BY <2>4
  <2> HIDE DEF l
  <2>6. ASSUME NEW i \in 1..(Len(a) + Len(b)) PROVE Nameless(c)[i] = l[i]
    <3>1. CASE i <= Len(a)
      <4>1. i \in 1..Len(a)
        BY <2>2, <3>1
      <4> QED
        BY <2>1, <2>2, <2>3, <2>5, <3>1, <4>1
    <3>2. CASE ~(i <= Len(a))
      <4>1. i - Len(a) \in 1..Len(b)
        BY <2>2, <3>2
      <4> QED
        BY <2>1, <2>2, <2>3, <2>5, <3>2, <4>1
    <3> QED
      BY <3>1, <3>2
  <2>7. Nameless(c) = l
    BY <2>3, <2>5, <2>6, SeqEqual
  <2> QED
    BY <2>7 DEF c, m, n, l
<1> QED
  BY <1>1, <1>3, <1>4, <1>5, <1>6 DEF f

LEMMA SaidFacts ==
  ASSUME NEW known
  PROVE  /\ IsSeqMap(SaidMap(known), Items, Parts)
         /\ \A item \in Items : SaidMap(known)[item] = SaidBy(known, item)
<1>1. ASSUME NEW item, item \in Items PROVE SaidBy(known, item) \in Seq(Parts)
  <2> DEFINE says == item.says
  <2>1. says \in Origins /\ item.type \in {"user", "reasoning", "assistant", "function_call", "function_call_output"}
    BY <1>1 DEF Items
  <2>2. ASSUME NEW kind \in {"thought", "text", "call", "result"}, NEW signed \in BOOLEAN
        PROVE  <<Part(kind, says, signed)>> \in Seq(Parts)
    <3>1. Part(kind, says, signed) \in Parts
      BY <2>1 DEF Part, Parts, UserParts, AnswerParts
    <3> QED
      BY <3>1
  <2>3. (says \in known) \in BOOLEAN
    OBVIOUS
  <2>4. <<>> \in Seq(Parts)
    BY EmptySeq
  <2> QED
    BY <2>1, <2>2, <2>3, <2>4 DEF SaidBy
<1> QED
  BY <1>1 DEF SaidMap, IsSeqMap

LEMMA PartRenamed ==
  ASSUME NEW part, NEW kind, NEW says, NEW signed, NEW named, NEW other,
         part = [kind |-> kind, says |-> says, signed |-> signed, named |-> named]
  PROVE  [part EXCEPT !.named = other] = [kind |-> kind, says |-> says, signed |-> signed, named |-> other]
OBVIOUS

(* The turns made of an item say it. *)
LEMMA ItemSays ==
  ASSUME NEW sent, NEW item \in Items
  PROVE  Nameless(PartsOf(TurnsOf(sent, item))) = SaidBy(signatures, item)
<1> DEFINE says == item.says
<1>1. says \in Origins /\ item.type \in {"user", "reasoning", "assistant", "function_call", "function_call_output"}
  BY DEF Items
<1>2. ASSUME NEW role, NEW part, NEW clean, clean = [part EXCEPT !.named = TRUE],
             \/ role = "user" /\ part \in UserParts
             \/ role = "model" /\ part \in AnswerParts
      PROVE  Nameless(PartsOf(<<Turn(role, <<part>>)>>)) = <<clean>>
  <2> DEFINE t == Turn(role, <<part>>)
  <2>1. <<part>> \in Seq(Parts) /\ part \in Parts
    BY <1>2 DEF Parts
  <2>2. t \in Turns /\ t.parts = <<part>>
    <3>1. part \in UserParts => <<part>> \in Seq(UserParts)
      OBVIOUS
    <3>2. part \in AnswerParts => <<part>> \in Seq(AnswerParts)
      OBVIOUS
    <3> QED
      BY <1>2, <3>1, <3>2 DEF Turn, Turns
  <2> HIDE DEF t
  <2>3. Append(<<>>, t) = <<t>> /\ <<>> \in Seq(Turns)
    BY EmptySeq
  <2>4. PartsOf(<<t>>) = <<>> \o t.parts
    BY <2>2, <2>3, PartsOfFacts
  <2>5. PartsOf(<<t>>) = <<part>>
    BY <2>1, <2>2, <2>4, ConcatEmptySeq
  <2> QED
    BY <1>2, <2>1, <2>5, NamelessFacts DEF t
<1>3. ASSUME NEW kind, NEW signed \in BOOLEAN
      PROVE  /\ [Part(kind, says, signed) EXCEPT !.named = TRUE] = Part(kind, says, signed)
             /\ kind \in {"text", "result"} => Part(kind, says, signed) \in UserParts
             /\ kind \in {"thought", "text", "call"} => Part(kind, says, signed) \in AnswerParts
  <2> HIDE DEF says
  <2> DEFINE part == Part(kind, says, signed)
  <2>1. part = [kind |-> kind, says |-> says, signed |-> signed, named |-> TRUE]
    BY DEF Part
  <2> HIDE DEF part
  <2>2. [part EXCEPT !.named = TRUE] = part
    <3> DEFINE yes == TRUE
    <3>2. part = [kind |-> kind, says |-> says, signed |-> signed, named |-> yes]
      BY <2>1
    <3> HIDE DEF yes
    <3>3. [part EXCEPT !.named = yes] = [kind |-> kind, says |-> says, signed |-> signed, named |-> yes]
      BY <3>2, PartRenamed
    <3>1. [part EXCEPT !.named = TRUE] = [kind |-> kind, says |-> says, signed |-> signed, named |-> TRUE]
      BY <3>3 DEF yes
    <3> QED
      BY <2>1, <3>1
  <2>3. kind \in {"text", "result"} => part \in UserParts
    BY <1>1, <2>1 DEF UserParts
  <2>4. kind \in {"thought", "text", "call"} => part \in AnswerParts
    BY <1>1, <2>1 DEF AnswerParts
  <2> QED
    BY <2>2, <2>3, <2>4 DEF part
<1>4. ASSUME NEW kind \in {"text", "result"}, NEW signed \in BOOLEAN
      PROVE  Nameless(PartsOf(<<Turn("user", <<Part(kind, says, signed)>>)>>)) = <<Part(kind, says, signed)>>
  <2> DEFINE part == Part(kind, says, signed)
  <2>1. part \in UserParts /\ [part EXCEPT !.named = TRUE] = part
    BY <1>3
  <2> HIDE DEF part
  <2>2. Nameless(PartsOf(<<Turn("user", <<part>>)>>)) = <<part>>
    BY <1>2, <2>1
  <2> QED
    BY <2>2 DEF part
<1>5. ASSUME NEW kind \in {"thought", "text", "call"}, NEW signed \in BOOLEAN
      PROVE  Nameless(PartsOf(<<Turn("model", <<Part(kind, says, signed)>>)>>)) = <<Part(kind, says, signed)>>
  <2> DEFINE part == Part(kind, says, signed)
  <2>1. part \in AnswerParts /\ [part EXCEPT !.named = TRUE] = part
    BY <1>3
  <2> HIDE DEF part
  <2>2. Nameless(PartsOf(<<Turn("model", <<part>>)>>)) = <<part>>
    BY <1>2, <2>1
  <2> QED
    BY <2>2 DEF part
<1>6. CASE item.type = "user"
  BY <1>4, <1>6 DEF TurnsOf, SaidBy
<1>7. CASE item.type = "reasoning"
  <2>1. CASE item.signed
    BY <1>5, <1>7, <2>1 DEF TurnsOf, SaidBy, ReasoningTurns
  <2>2. CASE ~item.signed
    BY <1>7, <2>2, PartsOfFacts, NamelessFacts DEF TurnsOf, SaidBy, ReasoningTurns
  <2> QED
    BY <2>1, <2>2
<1>8. CASE item.type = "assistant"
  <2>1. (says \in signatures) \in BOOLEAN
    OBVIOUS
  <2> QED
    BY <1>5, <1>8, <2>1 DEF TurnsOf, SaidBy
<1>9. CASE item.type = "function_call"
  <2>1. CASE says \in signatures
    BY <1>5, <1>9, <2>1 DEF TurnsOf, SaidBy
  <2>2. CASE says \notin signatures
    BY <1>5, <1>9, <2>2 DEF TurnsOf, SaidBy
  <2> QED
    BY <2>1, <2>2
<1>10. CASE item.type = "function_call_output"
  <2> DEFINE part == OutputPart(sent, says)
             named == \E i \in DOMAIN sent : sent[i].type = "function_call" /\ sent[i].says = says
             kind == OutputKind(says)
             base == Part(kind, says, FALSE)
  <2>1. kind = (IF says \in signatures THEN "result" ELSE "text")
    BY DEF OutputKind
  <2>2. part = [base EXCEPT !.named = named]
    BY DEF OutputPart
  <2>3. base = [kind |-> kind, says |-> says, signed |-> FALSE, named |-> TRUE]
    BY DEF Part
  <2>4. named \in BOOLEAN
    OBVIOUS
  <2>5. TurnsOf(sent, item) = <<Turn("user", <<part>>)>> /\ SaidBy(signatures, item) = <<base>>
    BY <1>10, <2>1 DEF TurnsOf, SaidBy
  <2> HIDE DEF part, named, kind, base
  <2>6. part \in UserParts /\ [part EXCEPT !.named = TRUE] = base
    <3>1. part = [kind |-> kind, says |-> says, signed |-> FALSE, named |-> named]
      BY <2>2, <2>3
    <3>2. kind \in {"text", "result"}
      BY <2>1
    <3> HIDE DEF says
    <3>3. part \in UserParts
      BY <1>1, <2>4, <3>1, <3>2 DEF UserParts
    <3> DEFINE yes == TRUE
               no == FALSE
    <3>6. part = [kind |-> kind, says |-> says, signed |-> no, named |-> named]
      BY <3>1
    <3> HIDE DEF yes, no
    <3>7. [part EXCEPT !.named = yes] = [kind |-> kind, says |-> says, signed |-> no, named |-> yes]
      BY <3>6, PartRenamed
    <3>4. [part EXCEPT !.named = TRUE] = [kind |-> kind, says |-> says, signed |-> FALSE, named |-> TRUE]
      BY <3>7 DEF yes, no
    <3>5. [part EXCEPT !.named = TRUE] = base
      BY <2>3, <3>4
    <3> QED
      BY <3>3, <3>5
  <2>7. Nameless(PartsOf(<<Turn("user", <<part>>)>>)) = <<base>>
    BY <1>2, <2>6
  <2> QED
    BY <2>5, <2>7
<1> QED
  BY <1>1, <1>6, <1>7, <1>8, <1>9, <1>10

(* The turns of a list of items, of which a transcript is the context.     *)
TurnsMap(sent) == [item \in Items |-> TurnsOf(sent, item)]

LEMMA TurnsMapFacts ==
  ASSUME NEW sent
  PROVE  /\ IsSeqMap(TurnsMap(sent), Items, Turns)
         /\ \A item \in Items : TurnsMap(sent)[item] = TurnsOf(sent, item)
         /\ sent \in Seq(Items) => Converted(sent) = FlatMap(TurnsMap(sent), sent)
<1>1. \A item \in Items : TurnsOf(sent, item) \in Seq(Turns)
  BY ItemFacts
<1>2. ASSUME sent \in Seq(Items) PROVE Converted(sent) = FlatMap(TurnsMap(sent), sent)
  <2>1. \A i \in DOMAIN sent : sent[i] \in Items
    BY <1>2, LenProperties, ElementOfSeq
  <2>2. [i \in DOMAIN sent |-> TurnsOf(sent, sent[i])] = [i \in DOMAIN sent |-> TurnsMap(sent)[sent[i]]]
    BY <2>1 DEF TurnsMap
  <2> QED
    BY <2>2 DEF Converted, FlatMap
<1> QED
  BY <1>1, <1>2 DEF TurnsMap, IsSeqMap

(* The turns of a transcript say its items.                                *)
LEMMA ConvertedSays ==
  ASSUME NEW sent \in Seq(Items)
  PROVE  Nameless(PartsOf(Converted(sent))) = Spoken(signatures, sent)
<1> DEFINE m == TurnsMap(sent)
           G == {s \in Seq(Items) : Nameless(PartsOf(FlatMap(m, s))) = Spoken(signatures, s)}
<1>1. IsSeqMap(m, Items, Turns) /\ \A item \in Items : m[item] = TurnsOf(sent, item)
  BY TurnsMapFacts
<1> HIDE DEF m
<1>2. <<>> \in G
  BY <1>1, EmptySeq, FlatMapFacts, SaidFacts, PartsOfFacts, NamelessFacts DEF Spoken
<1>3. ASSUME NEW s, NEW e, s \in G, e \in Items PROVE Append(s, e) \in G
  <2>1. s \in Seq(Items) /\ e \in Items /\ Append(s, e) \in Seq(Items)
    BY <1>3, AppendProperties
  <2> DEFINE a == FlatMap(m, s)
             b == m[e]
  <2>2. FlatMap(m, Append(s, e)) = a \o b
    <3>1. IsSeqMap(m, Items, Turns)
      BY <1>1
    <3> HIDE DEF m
    <3>2. FlatMap(m, Append(s, e)) = FlatMap(m, s) \o m[e]
      BY <2>1, <3>1, TurnsOfMore
    <3> QED
      BY <3>2
  <2>3. a \in Seq(Turns) /\ b \in Seq(Turns)
    <3>1. a \in Seq(Turns)
      BY <1>1, <2>1, TurnsOfMore
    <3>2. b \in Seq(Turns)
      BY <1>1, <1>3 DEF IsSeqMap
    <3> QED
      BY <3>1, <3>2
  <2>4. Spoken(signatures, Append(s, e)) = Spoken(signatures, s) \o SaidBy(signatures, e)
    <3> DEFINE g == SaidMap(signatures)
    <3>1. IsSeqMap(g, Items, Parts) /\ g[e] = SaidBy(signatures, e)
      BY <1>3, SaidFacts
    <3> HIDE DEF g
    <3>2. FlatMap(g, Append(s, e)) = FlatMap(g, s) \o g[e]
      BY <2>1, <3>1, PartsOfMore
    <3> QED
      BY <3>1, <3>2 DEF Spoken, g
  <2>5. Nameless(PartsOf(b)) = SaidBy(signatures, e)
    BY <1>1, <1>3, ItemSays
  <2>6. Nameless(PartsOf(a)) = Spoken(signatures, s)
    BY <1>3
  <2> HIDE DEF a, b
  <2>7. PartsOf(a \o b) = PartsOf(a) \o PartsOf(b) /\ PartsOf(a) \in Seq(Parts) /\ PartsOf(b) \in Seq(Parts)
    BY <2>3, PartsOfFacts
  <2>8. Nameless(PartsOf(a \o b)) = Nameless(PartsOf(a)) \o Nameless(PartsOf(b))
    BY <2>7, NamelessFacts
  <2> QED
    BY <2>1, <2>2, <2>4, <2>5, <2>6, <2>8
<1>4. Seq(Items) \subseteq G
  <2> HIDE DEF G
  <2> QED
    BY <1>2, <1>3, SequenceInduction
<1>5. Converted(sent) = FlatMap(m, sent)
  BY TurnsMapFacts DEF m
<1> QED
  BY <1>4, <1>5

LEMMA SpokenFacts ==
  ASSUME NEW known
  PROVE  /\ Spoken(known, <<>>) = <<>>
         /\ \A s \in Seq(Items) : Spoken(known, s) \in Seq(Parts)
         /\ \A a, b \in Seq(Items) : Spoken(known, a \o b) = Spoken(known, a) \o Spoken(known, b)
<1> DEFINE g == SaidMap(known)
<1>1. IsSeqMap(g, Items, Parts)
  BY SaidFacts
<1> HIDE DEF g
<1>2. FlatMap(g, <<>>) = <<>> /\ \A s \in Seq(Items) : FlatMap(g, s) \in Seq(Parts)
  BY <1>1, FlatMapFacts
<1>3. \A a, b \in Seq(Items) : FlatMap(g, a \o b) = FlatMap(g, a) \o FlatMap(g, b)
  BY <1>1, FlatMapConcat
<1> QED
  BY <1>2, <1>3 DEF Spoken, g

(* An item of the user makes a turn of the user.                           *)
LEMMA UserTurn ==
  ASSUME NEW sent, NEW item \in Items, item.type \in UserTypes
  PROVE  \E t \in Turns : t.role = "user" /\ TurnsOf(sent, item) = <<t>>
<1>1. PICK role, part : TurnsOf(sent, item) = <<Turn(role, <<part>>)>> /\ Becomes(item, role, part)
  BY ItemTurn DEF UserTypes
<1>2. role = "user" /\ part \in UserParts
  BY <1>1 DEF Becomes, UserTypes
<1> DEFINE t == Turn(role, <<part>>)
<1>3. <<part>> \in Seq(UserParts)
  BY <1>2
<1>4. t \in Turns /\ t.role = "user"
  BY <1>2, <1>3 DEF Turn, Turns
<1> QED
  BY <1>1, <1>4

(* A transcript that begins and ends with the user makes such turns.       *)
LEMMA ConvertedEnds ==
  ASSUME NEW sent \in Seq(Items), sent # <<>>
  PROVE  /\ Head(sent).type \in UserTypes => Converted(sent) # <<>> /\ Head(Converted(sent)).role = "user"
         /\ Last(sent).type \in UserTypes => Converted(sent) # <<>> /\ Last(Converted(sent)).role = "user"
<1> DEFINE m == TurnsMap(sent)
           c == Converted(sent)
           n == Len(sent)
<1>1. IsSeqMap(m, Items, Turns) /\ c = FlatMap(m, sent) /\ \A item \in Items : m[item] = TurnsOf(sent, item)
  BY TurnsMapFacts
<1> HIDE DEF m, c
<1>2. n \in Nat /\ n >= 1 /\ n \in 1..n /\ 1 \in 1..n /\ sent[1] \in Items /\ sent[n] \in Items
      /\ Head(sent) = sent[1] /\ Last(sent) = sent[n]
  <2>1. n \in Nat /\ n >= 1 /\ n \in 1..n /\ 1 \in 1..n
    BY EmptySeq, LenProperties
  <2> QED
    BY <2>1, ElementOfSeq DEF Last
<1>3. ASSUME NEW x, x \in Items, x.type \in UserTypes
      PROVE  \E t \in Turns : t.role = "user" /\ m[x] = <<t>> /\ FlatMap(m, <<x>>) = <<t>>
  <2>1. PICK t \in Turns : t.role = "user" /\ TurnsOf(sent, x) = <<t>>
    BY <1>3, UserTurn
  <2>2. FlatMap(m, <<x>>) = m[x]
    BY <1>1, <1>3, FlatMapFacts
  <2> QED
    BY <1>1, <1>3, <2>1, <2>2
<1>4. ASSUME Head(sent).type \in UserTypes PROVE c # <<>> /\ Head(c).role = "user"
  <2> DEFINE rest == SubSeq(sent, 2, n)
             h == <<sent[1]>>
  <2>1. rest \in Seq(Items)
    <3>1. \A i \in 2..n : sent[i] \in Items
      BY <1>2, ElementOfSeq
    <3> QED
      BY <1>2, <3>1, SubSeqProperties
  <2>2. sent = h \o rest
    <3>1. SubSeq(sent, 1, n) = <<sent[1]>> \o SubSeq(sent, 1 + 1, n)
      BY <1>2, SubSeqRecursiveFirst
    <3>2. SubSeq(sent, 1, n) = sent
      BY SubSeqFull
    <3> QED
      BY <3>1, <3>2
  <2>3. h \in Seq(Items)
    BY <1>2
  <2>4. PICK t \in Turns : t.role = "user" /\ FlatMap(m, h) = <<t>>
    BY <1>2, <1>3, <1>4
  <2> HIDE DEF h, rest
  <2> DEFINE f == FlatMap(m, rest)
  <2>5. c = FlatMap(m, h) \o f
    BY <1>1, <2>1, <2>2, <2>3, FlatMapConcat
  <2>6. f \in Seq(Turns)
    BY <1>1, <2>1, FlatMapFacts
  <2> HIDE DEF f
  <2>7. <<t>> \in Seq(Turns) /\ <<t>> # <<>> /\ Head(<<t>>) = t
    OBVIOUS
  <2>8. c # <<>> /\ Head(c) = t
    BY <2>4, <2>5, <2>6, <2>7, EndsOfConcat
  <2> QED
    BY <2>4, <2>8
<1>5. ASSUME Last(sent).type \in UserTypes PROVE c # <<>> /\ Last(c).role = "user"
  <2>1. PICK s \in Seq(Items), e \in Items : sent = Append(s, e)
    BY SequenceEmptyOrAppend
  <2>2. Last(sent) = e
    BY <2>1, AppendProperties DEF Last
  <2>3. PICK t \in Turns : t.role = "user" /\ m[e] = <<t>>
    BY <1>3, <1>5, <2>2
  <2> DEFINE f == FlatMap(m, s)
  <2>4. c = f \o m[e]
    BY <1>1, <2>1, FlatMapAppend
  <2>5. f \in Seq(Turns)
    BY <1>1, <2>1, FlatMapFacts
  <2> HIDE DEF f
  <2>6. <<t>> \in Seq(Turns) /\ <<t>> # <<>> /\ Last(<<t>>) = t
    BY DEF Last
  <2>7. c # <<>> /\ Last(c) = t
    BY <2>3, <2>4, <2>5, <2>6, EndsOfConcat
  <2> QED
    BY <2>3, <2>7
<1> QED
  BY <1>4, <1>5 DEF c

(* A transcript from the user to the user is sent as what its items say.   *)
LEMMA ReplayedSays ==
  ASSUME NEW sent \in Seq(Items), sent # <<>>, Head(sent).type \in UserTypes, Last(sent).type \in UserTypes
  PROVE  Nameless(PartsOf(Replayed(sent))) = Spoken(signatures, sent)
<1> DEFINE c == Converted(sent)
<1>1. c \in Seq(Turns) /\ c # <<>> /\ Head(c).role = "user" /\ Last(c).role = "user"
  BY ConvertedFacts, ConvertedEnds
<1>2. Nameless(PartsOf(c)) = Spoken(signatures, sent) /\ Replayed(sent) = Guarded(Merged(c))
  BY ConvertedSays DEF Replayed
<1> HIDE DEF c
<1>3. PartsOf(Guarded(Merged(c))) = (<<>> \o PartsOf(c)) \o <<>>
  BY <1>1, PayloadFacts
<1>4. (<<>> \o PartsOf(c)) \o <<>> = PartsOf(c)
  <2>1. PartsOf(c) \in Seq(Parts)
    BY <1>1, PartsOfFacts
  <2>2. <<>> \o PartsOf(c) = PartsOf(c) /\ PartsOf(c) \o <<>> = PartsOf(c)
    BY <2>1, ConcatEmptySeq
  <2> QED
    BY <2>2
<1> QED
  BY <1>2, <1>3, <1>4

(* The turns that continue a stored answer add what the new items say.     *)
LEMMA ContinuedSays ==
  ASSUME NEW p \in Ids, NEW payload \in Seq(Turns), Proper(payload), NEW answer \in Seq(Pieces),
         Lookup(p) = Append(payload, Turn("model", ModelParts(p, answer))),
         NEW fresh \in Seq(Items), fresh # <<>>, Last(fresh).type \in UserTypes
  PROVE  Nameless(PartsOf(Continued(p, fresh)))
           = (Nameless(PartsOf(payload)) \o Nameless(ModelParts(p, answer))) \o Spoken(signatures, fresh)
<1> DEFINE l == Lookup(p)
           c == Converted(fresh)
           parts == ModelParts(p, answer)
           m == Turn("model", parts)
           x == PartsOf(payload)
<1>1. m \in Turns /\ m.parts = parts /\ parts \in Seq(Parts)
  BY ModelPartsFacts DEF Turn
<1>2. l = Append(payload, m)
  OBVIOUS
<1>3. c \in Seq(Turns) /\ c # <<>> /\ Last(c).role = "user" /\ Nameless(PartsOf(c)) = Spoken(signatures, fresh)
  BY ConvertedFacts, ConvertedEnds, ConvertedSays
<1>4. Continued(p, fresh) = Guarded(Merged(l \o c))
  BY DEF Continued
<1> HIDE DEF l, c, m, parts
<1>5. l \in Seq(Turns) /\ l # <<>> /\ Head(l).role = "user" /\ PartsOf(l) = x \o parts
  <2>1. payload # <<>> /\ Head(payload).role = "user"
    BY DEF Proper
  <2>2. Head(l) = Head(payload)
    BY <1>1, <1>2, <2>1, HeadTailAppend
  <2>3. l \in Seq(Turns) /\ l # <<>>
    BY <1>1, <1>2, TurnAtTheEnd
  <2>4. PartsOf(l) = PartsOf(payload) \o m.parts
    BY <1>1, <1>2, PartsOfFacts
  <2> QED
    BY <1>1, <2>1, <2>2, <2>3, <2>4
<1> DEFINE t == l \o c
<1>6. t \in Seq(Turns) /\ t # <<>> /\ Head(t).role = "user" /\ Last(t).role = "user"
  <2>1. t \in Seq(Turns)
    BY <1>3, <1>5, ConcatProperties
  <2>2. t # <<>> /\ Head(t) = Head(l) /\ Last(t) = Last(c)
    BY <1>3, <1>5, EndsOfConcat
  <2> QED
    BY <1>3, <1>5, <2>1, <2>2
<1> DEFINE y == PartsOf(c)
<1>7. PartsOf(t) = (x \o parts) \o y
  BY <1>3, <1>5, PartsOfFacts
<1> HIDE DEF t
<1>8. x \in Seq(Parts) /\ y \in Seq(Parts) /\ x \o parts \in Seq(Parts) /\ PartsOf(t) \in Seq(Parts)
  <2>1. x \in Seq(Parts) /\ y \in Seq(Parts) /\ PartsOf(t) \in Seq(Parts) /\ PartsOf(l) \in Seq(Parts)
    BY <1>3, <1>5, <1>6, PartsOfFacts
  <2> QED
    BY <1>5, <2>1
<1>9. PartsOf(Guarded(Merged(t))) = PartsOf(t)
  <2>1. PartsOf(Guarded(Merged(t))) = (<<>> \o PartsOf(t)) \o <<>>
    BY <1>6, PayloadFacts
  <2>2. <<>> \o PartsOf(t) = PartsOf(t) /\ PartsOf(t) \o <<>> = PartsOf(t)
    BY <1>8, ConcatEmptySeq
  <2> QED
    BY <2>1, <2>2
<1> HIDE DEF x, y
<1>10. Nameless((x \o parts) \o y) = (Nameless(x) \o Nameless(parts)) \o Nameless(y)
  <2> DEFINE z == x \o parts
  <2>1. z \in Seq(Parts)
    BY <1>8
  <2>2. Nameless(z) = Nameless(x) \o Nameless(parts)
    BY <1>1, <1>8, NamelessFacts
  <2> HIDE DEF z
  <2>3. Nameless(z \o y) = Nameless(z) \o Nameless(y)
    BY <1>8, <2>1, NamelessFacts
  <2> QED
    BY <2>2, <2>3 DEF z
<1>11. Nameless(y) = Spoken(signatures, fresh)
  BY <1>3 DEF y
<1>12. PartsOf(Continued(p, fresh)) = (x \o parts) \o y
  BY <1>4, <1>7, <1>9 DEF t
<1> QED
  BY <1>10, <1>11, <1>12 DEF x, parts

-----------------------------------------------------------------------------

(* The parts of one kind, in order. *)
KindMap(kind) == [x \in AnswerParts |-> IF x.kind = kind THEN <<x>> ELSE <<>>]
Picked(kind, parts) == FlatMap(KindMap(kind), parts)

Sorted(parts) == \A i, j \in DOMAIN parts : i < j => Rank(parts[i].kind) <= Rank(parts[j].kind)

LEMMA PickedFacts ==
  ASSUME NEW kind
  PROVE  /\ IsSeqMap(KindMap(kind), AnswerParts, AnswerParts)
         /\ Picked(kind, <<>>) = <<>>
         /\ \A m \in Seq(AnswerParts) : Picked(kind, m) \in Seq(AnswerParts)
         /\ \A m \in Seq(AnswerParts), e \in AnswerParts :
              Picked(kind, Append(m, e)) = IF e.kind = kind THEN Picked(kind, m) \o <<e>> ELSE Picked(kind, m)
         /\ \A m \in Seq(AnswerParts) : (\A i \in DOMAIN m : m[i].kind # kind) => Picked(kind, m) = <<>>
<1> DEFINE g == KindMap(kind)
<1>1. IsSeqMap(g, AnswerParts, AnswerParts) /\ \A x \in AnswerParts : g[x] = IF x.kind = kind THEN <<x>> ELSE <<>>
  <2>1. \A x \in AnswerParts : (IF x.kind = kind THEN <<x>> ELSE <<>>) \in Seq(AnswerParts)
    BY EmptySeq
  <2> QED
    BY <2>1 DEF KindMap, IsSeqMap
<1>2. \A m : Picked(kind, m) = FlatMap(g, m)
  BY DEF Picked
<1> HIDE DEF g
<1>3. FlatMap(g, <<>>) = <<>> /\ \A m \in Seq(AnswerParts) : FlatMap(g, m) \in Seq(AnswerParts)
  BY <1>1, FlatMapFacts
<1>4. ASSUME NEW m, NEW e, m \in Seq(AnswerParts), e \in AnswerParts
      PROVE  Picked(kind, Append(m, e)) = IF e.kind = kind THEN Picked(kind, m) \o <<e>> ELSE Picked(kind, m)
  <2>1. FlatMap(g, Append(m, e)) = FlatMap(g, m) \o g[e]
    BY <1>1, <1>4, FlatMapAppend
  <2>2. FlatMap(g, m) \o <<>> = FlatMap(g, m)
    BY <1>3, <1>4, ConcatEmptySeq
  <2> QED
    BY <1>1, <1>2, <1>4, <2>1, <2>2
<1>5. ASSUME NEW m, m \in Seq(AnswerParts), \A i \in DOMAIN m : m[i].kind # kind
      PROVE  Picked(kind, m) = <<>>
  <2> DEFINE s == FlatMap(g, m)
  <2>1. s \in Seq(AnswerParts) /\ Range(s) = UNION {Range(g[m[i]]) : i \in DOMAIN m}
    <3>1. IsSeqMap(g, AnswerParts, AnswerParts) /\ m \in Seq(AnswerParts)
      BY <1>1, <1>5
    <3> HIDE DEF g
    <3> QED
      BY <3>1, AnswerMapped
  <2>2. \A i \in DOMAIN m : m[i] \in AnswerParts
    BY <1>5, LenProperties, ElementOfSeq
  <2>3. \A i \in DOMAIN m : g[m[i]] = <<>>
    BY <1>1, <1>5, <2>2
  <2>4. Range(<<>>) = {}
    BY DEF Range
  <2> HIDE DEF s
  <2>5. Range(s) = {}
    BY <2>1, <2>3, <2>4
  <2>6. DOMAIN s = {}
    BY <2>5 DEF Range
  <2>7. s = <<>>
    <3>1. Len(s) \in Nat /\ DOMAIN s = 1..Len(s)
      BY <2>1, LenProperties
    <3>2. Len(s) = 0
      BY <2>6, <3>1
    <3> QED
      BY <2>1, <3>2, EmptySeq
  <2> QED
    BY <1>2, <2>7 DEF s
<1> QED
  BY <1>1, <1>2, <1>3, <1>4, <1>5 DEF g

(* Thoughts, then text, then calls: picking them in this order is the same.*)
LEMMA SortedIsPicked ==
  ASSUME NEW parts \in Seq(AnswerParts), Sorted(parts)
  PROVE  (Picked("thought", parts) \o Picked("text", parts)) \o Picked("call", parts) = parts
<1> DEFINE All(m) == (Picked("thought", m) \o Picked("text", m)) \o Picked("call", m)
           G == {m \in Seq(AnswerParts) : Sorted(m) => All(m) = m}
<1>1. <<>> \in G
  <2>1. (<<>> \o <<>>) \o <<>> = <<>>
    BY EmptySeq, ConcatEmptySeq
  <2> QED
    BY <2>1, EmptySeq, PickedFacts
<1>2. ASSUME NEW m, NEW e, m \in G, e \in AnswerParts PROVE Append(m, e) \in G
  <2>1. m \in Seq(AnswerParts) /\ (Sorted(m) => All(m) = m)
    BY <1>2
  <2> DEFINE u == Append(m, e)
             n == Len(m)
  <2>2. /\ u \in Seq(AnswerParts) /\ n \in Nat /\ DOMAIN u = 1..(n + 1) /\ DOMAIN m = 1..n
        /\ (\A i \in 1..n : u[i] = m[i]) /\ u[n + 1] = e /\ \A i \in 1..n : m[i] \in AnswerParts
    BY <1>2, <2>1, AppendProperties, LenProperties, ElementOfSeq
  <2> SUFFICES ASSUME Sorted(u) PROVE All(u) = u
    BY <2>2
  <2> DEFINE a == Picked("thought", m)
             b == Picked("text", m)
             c == Picked("call", m)
  <2>3. /\ Picked("thought", u) = IF e.kind = "thought" THEN a \o <<e>> ELSE a
        /\ Picked("text", u) = IF e.kind = "text" THEN b \o <<e>> ELSE b
        /\ Picked("call", u) = IF e.kind = "call" THEN c \o <<e>> ELSE c
    BY <1>2, <2>1, PickedFacts
  <2>4. a \in Seq(AnswerParts) /\ b \in Seq(AnswerParts) /\ c \in Seq(AnswerParts) /\ <<e>> \in Seq(AnswerParts)
    <3>1. \A kind : Picked(kind, m) \in Seq(AnswerParts)
      BY <2>1, PickedFacts
    <3> QED
      BY <1>2, <3>1
  <2>5. u = m \o <<e>>
    BY <1>2, <2>1, AppendIsConcat
  <2> HIDE DEF u, n
  <2>6. Sorted(m) /\ \A i \in 1..n : Rank(m[i].kind) <= Rank(e.kind)
    <3>1. \A i \in 1..n : i \in 1..(n + 1) /\ n + 1 \in 1..(n + 1) /\ i < n + 1
      BY <2>2
    <3>2. \A i, j \in 1..n : i < j => Rank(u[i].kind) <= Rank(u[j].kind)
      BY <2>2, <3>1 DEF Sorted
    <3>3. \A i \in 1..n : Rank(u[i].kind) <= Rank(u[n + 1].kind)
      BY <2>2, <3>1 DEF Sorted
    <3> QED
      BY <2>2, <3>2, <3>3 DEF Sorted
  <2>7. (a \o b) \o c = m
    BY <2>1, <2>6
  <2>8. e.kind \in {"thought", "text", "call"} /\ \A i \in 1..n : m[i].kind \in {"thought", "text", "call"}
    BY <1>2, <2>2 DEF AnswerParts
  <2>9. Rank("thought") = 1 /\ Rank("text") = 2 /\ Rank("call") = 3
    BY DEF Rank
  <2>10. e.kind = "thought" => b = <<>> /\ c = <<>>
    <3> SUFFICES ASSUME e.kind = "thought" PROVE b = <<>> /\ c = <<>>
      OBVIOUS
    <3>1. \A i \in DOMAIN m : m[i].kind # "text" /\ m[i].kind # "call"
      BY <2>2, <2>6, <2>9
    <3>2. Picked("text", m) = <<>>
      BY <2>1, <3>1, PickedFacts
    <3>3. Picked("call", m) = <<>>
      BY <2>1, <3>1, PickedFacts
    <3> QED
      BY <3>2, <3>3
  <2>11. e.kind = "text" => c = <<>>
    <3> SUFFICES ASSUME e.kind = "text" PROVE c = <<>>
      OBVIOUS
    <3>1. \A i \in DOMAIN m : m[i].kind # "call"
      BY <2>2, <2>6, <2>9
    <3> QED
      BY <2>1, <3>1, PickedFacts
  <2> DEFINE x == <<e>>
  <2> HIDE DEF a, b, c, x
  <2>12. a \o <<>> = a /\ b \o <<>> = b /\ (a \o b) \in Seq(AnswerParts)
    BY <2>4, ConcatEmptySeq, ConcatProperties DEF x
  <2> DEFINE ab == a \o b
             ax == a \o x
  <2>13. ax \in Seq(AnswerParts)
    BY <2>4, ConcatProperties DEF x
  <2>14. ab \in Seq(AnswerParts)
    BY <2>12
  <2>15. CASE e.kind = "thought"
    <3>1. All(u) = (ax \o <<>>) \o <<>>
      BY <2>3, <2>10, <2>15 DEF x
    <3> HIDE DEF ax
    <3>2. ax \o <<>> = ax
      BY <2>13, ConcatEmptySeq
    <3>3. m = a
      BY <2>7, <2>10, <2>12, <2>15
    <3> QED
      BY <2>5, <3>1, <3>2, <3>3 DEF ax, x
  <2>16. CASE e.kind = "text"
    <3>1. All(u) = (a \o (b \o x)) \o <<>> /\ m = ab \o <<>>
      BY <2>3, <2>7, <2>11, <2>16 DEF x
    <3>2. a \o (b \o x) = ab \o x
      BY <2>4, AnswersInARow DEF x
    <3> HIDE DEF ab
    <3>3. ab \o <<>> = ab /\ ab \o x \in Seq(AnswerParts)
      BY <2>4, <2>14, ConcatEmptySeq, ConcatProperties DEF x
    <3> DEFINE abx == ab \o x
    <3>4. abx \o <<>> = abx
      <4>1. abx \in Seq(AnswerParts)
        BY <3>3
      <4> HIDE DEF abx
      <4> QED
        BY <4>1, ConcatEmptySeq
    <3> QED
      BY <2>5, <3>1, <3>2, <3>3, <3>4 DEF x
  <2>17. CASE e.kind = "call"
    <3>1. All(u) = ab \o (c \o x)
      BY <2>3, <2>17 DEF x
    <3>2. ab \o (c \o x) = (ab \o c) \o x
      <4> HIDE DEF ab
      <4> QED
        BY <2>4, <2>14, AnswersInARow DEF x
    <3> QED
      BY <2>5, <2>7, <3>1, <3>2 DEF x
  <2> QED
    BY <2>8, <2>15, <2>16, <2>17
<1>3. Seq(AnswerParts) \subseteq G
  <2> HIDE DEF G
  <2> QED
    BY <1>1, <1>2, SequenceInduction
<1> QED
  BY <1>3

(* The signatures of an answer that are known are those the model gave to  *)
(* its text and its calls.                                                 *)
Told(known, p, answer) ==
  \A i \in DOMAIN answer : <<p, i>> \in known <=> answer[i].signed /\ answer[i].kind # "thought"

(* The items of one kind say the parts of that kind. *)
LEMMA ItemsSay ==
  ASSUME NEW known, NEW p \in Ids, NEW answer \in Seq(Pieces), NEW kind,
         NEW type \in {"reasoning", "assistant", "function_call", "function_call_output"},
         \A i \in DOMAIN answer : answer[i].kind = kind =>
           SaidBy(known, Item(type, <<p, i>>, answer[i].signed)) = <<ModelParts(p, answer)[i]>>
  PROVE  Spoken(known, ItemsOf(p, answer, kind, type)) = Picked(kind, ModelParts(p, answer))
<1> DEFINE n == Len(answer)
           m == ModelParts(p, answer)
           item(i) == Item(type, <<p, i>>, answer[i].signed)
           l == [i \in DOMAIN answer |-> IF answer[i].kind = kind THEN <<item(i)>> ELSE <<>>]
           g == SaidMap(known)
           h == KindMap(kind)
<1>1. n \in Nat /\ DOMAIN answer = 1..n /\ \A i \in 1..n : answer[i] \in Pieces
  BY LenProperties, ElementOfSeq
<1>2. ASSUME NEW i \in 1..n PROVE item(i) \in Items
  <2>1. answer[i].signed \in BOOLEAN /\ <<p, i>> \in Origins
    BY <1>1 DEF Pieces, Origins
  <2> QED
    BY <2>1 DEF Item, Items
<1>3. DOMAIN m = 1..n /\ \A i \in 1..n : m[i].kind = answer[i].kind /\ m[i] \in AnswerParts
  <2>1. DOMAIN m = 1..n /\ \A i \in 1..n : m[i] = Part(answer[i].kind, <<p, i>>, answer[i].signed)
    BY <1>1 DEF ModelParts
  <2>2. m \in Seq(AnswerParts)
    BY ModelPartsFacts
  <2> HIDE DEF m
  <2>3. \A i \in 1..n : m[i] \in AnswerParts
    BY <2>1, <2>2, LenProperties, ElementOfSeq
  <2> QED
    BY <2>1, <2>3 DEF Part
<1>4. IsSeqMap(g, Items, Parts) /\ \A x \in Items : g[x] = SaidBy(known, x)
  BY SaidFacts
<1>5. \A i \in 1..n : answer[i].kind = kind => g[item(i)] = <<m[i]>>
  BY <1>1, <1>2, <1>4
<1>6. \A x \in AnswerParts : h[x] = IF x.kind = kind THEN <<x>> ELSE <<>>
  BY DEF KindMap
<1> HIDE DEF item, m, g, h
<1>7. l \in Seq(Seq(Items)) /\ DOMAIN l = 1..n
  <2>1. \A i \in 1..n : <<item(i)>> \in Seq(Items)
    BY <1>2
  <2>2. <<>> \in Seq(Items)
    BY EmptySeq
  <2>3. l \in [1..n -> Seq(Items)]
    BY <1>1, <2>1, <2>2
  <2> HIDE DEF l
  <2> QED
    BY <1>1, <2>3, SeqDef
<1>8. ASSUME NEW i \in 1..n PROVE FlatMap(g, l[i]) = h[m[i]]
  <2>1. CASE answer[i].kind = kind
    <3>1. l[i] = <<item(i)>> /\ item(i) \in Items
      BY <1>1, <1>2, <2>1
    <3> HIDE DEF l
    <3>2. FlatMap(g, <<item(i)>>) = g[item(i)]
      BY <1>4, <3>1, FlatMapFacts
    <3> QED
      BY <1>3, <1>5, <1>6, <2>1, <3>1, <3>2
  <2>2. CASE answer[i].kind # kind
    <3>1. l[i] = <<>>
      BY <1>1, <2>2
    <3> HIDE DEF l
    <3>2. FlatMap(g, <<>>) = <<>>
      BY <1>4, FlatMapFacts
    <3> QED
      BY <1>3, <1>6, <2>2, <3>1, <3>2
  <2> QED
    BY <2>1, <2>2
<1>9. ItemsOf(p, answer, kind, type) = FlattenSeq(l)
  BY DEF ItemsOf, item
<1> HIDE DEF l
<1> DEFINE gs == [s \in Seq(Items) |-> FlatMap(g, s)]
<1>10. FlatMap(g, FlattenSeq(l)) = FlatMap(gs, l)
  <2>1. \A s \in Seq(Items) : FlatMap(g, s) \in Seq(Parts)
    BY <1>4, FlatMapFacts
  <2>2. IsSeqMap(gs, Seq(Items), Parts) /\ \A s \in Seq(Items) : gs[s] = FlatMap(g, s)
    BY <2>1 DEF IsSeqMap
  <2> HIDE DEF gs
  <2> QED
    BY <1>4, <1>7, <2>2, FlatMapFlatten
<1>11. [i \in DOMAIN l |-> gs[l[i]]] = [i \in DOMAIN m |-> h[m[i]]]
  <2>1. \A i \in 1..n : l[i] \in Seq(Items)
    BY <1>7, LenProperties, ElementOfSeq
  <2> QED
    BY <1>3, <1>7, <1>8, <2>1
<1>12. FlatMap(gs, l) = FlatMap(h, m)
  BY <1>11 DEF FlatMap
<1>13. Spoken(known, ItemsOf(p, answer, kind, type)) = FlatMap(g, FlattenSeq(l))
  BY <1>9 DEF Spoken, g
<1>14. Picked(kind, ModelParts(p, answer)) = FlatMap(h, m)
  BY DEF Picked, m, h
<1> QED
  BY <1>10, <1>12, <1>13, <1>14

(* The output items of a plain answer say the answer, part for part.       *)
LEMMA PlainSays ==
  ASSUME NEW known, NEW p \in Ids, NEW answer \in Seq(Pieces), Plain(answer), Told(known, p, answer)
  PROVE  Spoken(known, OutputItems(p, answer)) = ModelParts(p, answer)
<1> DEFINE m == ModelParts(p, answer)
           a == ItemsOf(p, answer, "thought", "reasoning")
           b == ItemsOf(p, answer, "text", "assistant")
           c == Shield(p, answer)
           d == ItemsOf(p, answer, "call", "function_call")
<1>1. Len(answer) \in Nat /\ DOMAIN answer = 1..Len(answer) /\ \A i \in DOMAIN answer : answer[i] \in Pieces
  BY LenProperties, ElementOfSeq
<1>2. \A i \in DOMAIN answer : answer[i].kind \in {"thought", "text", "call"} /\ answer[i].signed \in BOOLEAN
  BY <1>1 DEF Pieces
<1>3. /\ DOMAIN m = DOMAIN answer /\ m \in Seq(AnswerParts)
      /\ \A i \in DOMAIN answer : m[i] = Part(answer[i].kind, <<p, i>>, answer[i].signed)
  BY ModelPartsFacts DEF ModelParts
<1>4. \A i \in DOMAIN answer : answer[i].kind # "text" => answer[i].signed
  BY DEF Plain
<1> HIDE DEF m
<1>5. ASSUME NEW type, NEW says, NEW signed
      PROVE  LET x == Item(type, says, signed) IN x.type = type /\ x.says = says /\ x.signed = signed
  BY DEF Item
<1>6. ASSUME NEW i \in DOMAIN answer, answer[i].kind = "thought"
      PROVE  SaidBy(known, Item("reasoning", <<p, i>>, answer[i].signed)) = <<m[i]>>
  <2> DEFINE x == Item("reasoning", <<p, i>>, answer[i].signed)
  <2>1. x.type = "reasoning" /\ x.says = <<p, i>> /\ x.signed
    BY <1>4, <1>5, <1>6
  <2> HIDE DEF x
  <2>2. SaidBy(known, x) = <<Part("thought", <<p, i>>, TRUE)>>
    BY <2>1 DEF SaidBy
  <2>3. answer[i].signed = TRUE
    BY <1>2, <1>4, <1>6
  <2> QED
    BY <1>3, <1>6, <2>2, <2>3 DEF x
<1>7. ASSUME NEW i \in DOMAIN answer, answer[i].kind = "text"
      PROVE  SaidBy(known, Item("assistant", <<p, i>>, answer[i].signed)) = <<m[i]>>
  <2> DEFINE x == Item("assistant", <<p, i>>, answer[i].signed)
  <2>1. x.type = "assistant" /\ x.says = <<p, i>>
    BY <1>5
  <2> HIDE DEF x
  <2>2. SaidBy(known, x) = <<Part("text", <<p, i>>, <<p, i>> \in known)>>
    BY <2>1 DEF SaidBy
  <2>3. (<<p, i>> \in known) = answer[i].signed
    BY <1>2, <1>7 DEF Told
  <2> QED
    BY <1>3, <1>7, <2>2, <2>3 DEF x
<1>8. ASSUME NEW i \in DOMAIN answer, answer[i].kind = "call"
      PROVE  SaidBy(known, Item("function_call", <<p, i>>, answer[i].signed)) = <<m[i]>>
  <2> DEFINE x == Item("function_call", <<p, i>>, answer[i].signed)
  <2>1. x.type = "function_call" /\ x.says = <<p, i>>
    BY <1>5
  <2> HIDE DEF x
  <2>2. answer[i].signed = TRUE /\ <<p, i>> \in known
    BY <1>2, <1>4, <1>8 DEF Told
  <2>3. SaidBy(known, x) = <<Part("call", <<p, i>>, TRUE)>>
    BY <2>1, <2>2 DEF SaidBy
  <2> QED
    BY <1>3, <1>8, <2>2, <2>3 DEF x
<1>9. /\ Spoken(known, a) = Picked("thought", m)
      /\ Spoken(known, b) = Picked("text", m)
      /\ Spoken(known, d) = Picked("call", m)
  <2>1. Spoken(known, a) = Picked("thought", m)
    BY <1>6, ItemsSay DEF m
  <2>2. Spoken(known, b) = Picked("text", m)
    BY <1>7, ItemsSay DEF m
  <2>3. Spoken(known, d) = Picked("call", m)
    BY <1>8, ItemsSay DEF m
  <2> QED
    BY <2>1, <2>2, <2>3
<1>10. Sorted(m)
  <2>1. \A i \in DOMAIN answer : m[i].kind = answer[i].kind
    BY <1>3 DEF Part
  <2>2. \A i, j \in DOMAIN answer : i < j => Rank(answer[i].kind) <= Rank(answer[j].kind)
    BY DEF Plain
  <2> QED
    BY <1>3, <2>1, <2>2 DEF Sorted
<1>11. c = <<>>
  BY DEF Plain, Shield
<1>12. a \in Seq(Items) /\ b \in Seq(Items) /\ d \in Seq(Items)
  BY ItemsOfFacts
<1>13. OutputItems(p, answer) = ((a \o b) \o c) \o d
  BY DEF OutputItems
<1> HIDE DEF a, b, c, d
<1> DEFINE ab == a \o b
<1>14. ab \in Seq(Items)
  BY <1>12, ConcatProperties
<1>15. Spoken(known, ab) = Spoken(known, a) \o Spoken(known, b)
  BY <1>12, SpokenFacts
<1>16. OutputItems(p, answer) = (ab \o <<>>) \o d
  BY <1>11, <1>13
<1> HIDE DEF ab
<1>17. ab \o <<>> = ab
  BY <1>14, ConcatEmptySeq
<1>18. Spoken(known, ab \o d) = Spoken(known, ab) \o Spoken(known, d)
  BY <1>12, <1>14, SpokenFacts
<1>19. (Picked("thought", m) \o Picked("text", m)) \o Picked("call", m) = m
  BY <1>3, <1>10, SortedIsPicked
<1> QED
  BY <1>9, <1>15, <1>16, <1>17, <1>18, <1>19 DEF m

-----------------------------------------------------------------------------

(* The items that are said as the thought store knows their signatures.    *)
Looked == {"assistant", "function_call", "function_call_output"}

(* They are items of answers the client has. *)
SaysAnswered(sent) ==
  \A x \in Range(sent) : x.type \in Looked => x.says[1] \in Ids /\ Answered(x.says[1])

FromUserToUser(sent) == sent # <<>> /\ Head(sent).type \in UserTypes /\ Last(sent).type \in UserTypes

(* The thought store holds signatures of answers only, and all of those    *)
(* that were saved or are about to be.                                     *)
SignaturesTold ==
  /\ \A s \in signatures : s[1] \in Ids /\ Answered(s[1])
  /\ \A p \in Ids : turn[p].phase = "answered" \/ p \in items => Told(signatures, p, turn[p].answer)

(* What was sent for r says the client's transcript, as long as it can be  *)
(* gone on from in the store.                                              *)
SpeaksOK(r) ==
  /\ SaysAnswered(turn[r].sent)
  /\ turn[r].whole => FromUserToUser(turn[r].sent)
  /\ turn[r].whole /\ (turn[r].phase # "done" \/ r \in items) =>
       Nameless(PartsOf(turn[r].payload)) = Spoken(signatures, turn[r].sent)

ReplayInv ==
  /\ SignaturesTold
  /\ \A r \in Ids : Begun(r) => SpeaksOK(r)

(* Only the signatures of the items that are looked up matter. *)
LEMMA SpokenOfKnown ==
  ASSUME NEW a, NEW b, NEW sent \in Seq(Items),
         \A x \in Range(sent) : x.type \in Looked => (x.says \in a <=> x.says \in b)
  PROVE  Spoken(a, sent) = Spoken(b, sent)
<1>1. \A i \in DOMAIN sent : sent[i] \in Items /\ sent[i] \in Range(sent)
  BY LenProperties, ElementOfSeq DEF Range
<1>2. ASSUME NEW i \in DOMAIN sent PROVE SaidMap(a)[sent[i]] = SaidMap(b)[sent[i]]
  <2> DEFINE x == sent[i]
  <2>1. x \in Items /\ (x.type \in Looked => (x.says \in a <=> x.says \in b))
    BY <1>1
  <2>2. x.type \in {"user", "reasoning", "assistant", "function_call", "function_call_output"}
    BY <2>1 DEF Items
  <2>3. SaidMap(a)[x] = SaidBy(a, x) /\ SaidMap(b)[x] = SaidBy(b, x)
    BY <2>1, SaidFacts
  <2> HIDE DEF x
  <2>4. CASE x.type \in Looked
    <3>1. (x.says \in a) = (x.says \in b)
      BY <2>1, <2>4
    <3>2. SaidBy(a, x) = SaidBy(b, x)
      BY <2>4, <3>1 DEF SaidBy, Looked
    <3> QED
      BY <2>3, <3>2 DEF x
  <2>5. CASE x.type \notin Looked
    <3>1. SaidBy(a, x) = SaidBy(b, x)
      BY <2>2, <2>5 DEF SaidBy, Looked
    <3> QED
      BY <2>3, <3>1 DEF x
  <2> QED
    BY <2>4, <2>5
<1>3. [i \in DOMAIN sent |-> SaidMap(a)[sent[i]]] = [i \in DOMAIN sent |-> SaidMap(b)[sent[i]]]
  BY <1>2
<1> QED
  BY <1>3 DEF Spoken, FlatMap

(* The signatures of what was answered stay as they are. *)
KnownStays ==
  \A s \in Origins : s[1] \in Ids /\ Answered(s[1]) => (s \in signatures' <=> s \in signatures)

(* What was sent stays what the transcript says.                           *)
LEMMA SpeaksStays ==
  ASSUME TurnTypeOK, NEW q \in Ids, Begun(q), SpeaksOK(q), SameRequest(q), turn'[q].whole = turn[q].whole,
         AnswersStay, KnownStays,
         turn'[q].phase # "done" \/ q \in items' => turn[q].phase # "done" \/ q \in items
  PROVE  SpeaksOK(q)'
<1> DEFINE sent == turn[q].sent
<1>1. sent \in Seq(Items) /\ turn'[q].sent = sent /\ turn'[q].payload = turn[q].payload
  BY BegunFacts DEF Requests, SameRequest
<1>2. \A x \in Range(sent) : x.type \in Looked => x.says[1] \in Ids /\ Answered(x.says[1])
  BY DEF SpeaksOK, SaysAnswered
<1>3. turn[q].whole => FromUserToUser(sent)
  BY DEF SpeaksOK
<1>4. turn[q].whole /\ (turn[q].phase # "done" \/ q \in items) =>
        Nameless(PartsOf(turn[q].payload)) = Spoken(signatures, sent)
  BY DEF SpeaksOK
<1>5. \A p \in Ids : Answered(p) => turn'[p].phase \in {"answered", "done"}
  BY DEF AnswersStay, Answered
<1> HIDE DEF sent
<1>6. \A x \in Range(sent) : x.type \in Looked => (x.says \in signatures <=> x.says \in signatures')
  <2>1. Range(sent) \in SUBSET Items
    BY <1>1, RangeOfSeq
  <2>2. \A x \in Items : x.says \in Origins
    BY DEF Items
  <2> QED
    BY <1>2, <2>1, <2>2 DEF KnownStays
<1>7. Spoken(signatures, sent) = Spoken(signatures', sent)
  BY <1>1, <1>6, SpokenOfKnown
<1>8. \A x \in Range(sent) : x.type \in Looked => x.says[1] \in Ids /\ turn'[x.says[1]].phase \in {"answered", "done"}
  BY <1>2, <1>5
<1> QED
  BY <1>1, <1>3, <1>4, <1>7, <1>8 DEF SpeaksOK, SaysAnswered, Answered

LEMMA ToldStays ==
  ASSUME ConversationInv, SignaturesTold, AnswersStay, KnownStays, NEW p \in Ids,
         turn[p].phase = "answered" \/ p \in items
  PROVE  Told(signatures', p, turn'[p].answer)
<1>1. Answered(p)
  BY FoundIsSaid DEF Answered
<1>2. turn'[p].answer = turn[p].answer /\ Told(signatures, p, turn[p].answer)
  BY <1>1 DEF AnswersStay, SignaturesTold
<1>3. turn[p].answer \in Seq(Pieces)
  BY <1>1, BegunFacts DEF ConversationInv, Requests
<1>4. \A i \in DOMAIN turn[p].answer : <<p, i>> \in Origins /\ <<p, i>>[1] = p
  BY <1>3, LenProperties DEF Origins
<1>5. \A i \in DOMAIN turn[p].answer : <<p, i>> \in signatures' <=> <<p, i>> \in signatures
  BY <1>1, <1>4 DEF KnownStays
<1> QED
  BY <1>2, <1>5 DEF Told

(* A step that answers nothing and tells no signature. *)
LEMMA ProgressSpeaks ==
  ASSUME ConversationInv, ReplayInv, AnswersStay, UNCHANGED signatures,
         \A q \in Ids : Begun(q)' => Begun(q) /\ SameRequest(q) /\ turn'[q].whole = turn[q].whole,
         \A q \in Ids : q \in items' => q \in items \/ turn[q].phase = "answered",
         \A q \in Ids : turn'[q].phase = "answered" => turn[q].phase = "answered",
         \A q \in Ids : turn'[q].phase = "open" => turn[q].phase = "open"
  PROVE  ReplayInv'
<1>1. KnownStays
  BY DEF KnownStays
<1>2. ASSUME NEW q \in Ids, Begun(q)' PROVE SpeaksOK(q)'
  <2>1. Begun(q) /\ SpeaksOK(q) /\ SameRequest(q) /\ turn'[q].whole = turn[q].whole
    BY <1>2 DEF ReplayInv
  <2>2. turn'[q].phase # "done" \/ q \in items' => turn[q].phase # "done" \/ q \in items
    BY <1>2 DEF Begun, Answered
  <2> QED
    BY <1>1, <2>1, <2>2, SpeaksStays DEF ConversationInv
<1>3. \A s \in signatures' : s[1] \in Ids /\ turn'[s[1]].phase \in {"answered", "done"}
  <2> SUFFICES ASSUME NEW s \in signatures
               PROVE  s[1] \in Ids /\ turn'[s[1]].phase \in {"answered", "done"}
    OBVIOUS
  <2>1. s[1] \in Ids /\ Answered(s[1])
    BY DEF ReplayInv, SignaturesTold
  <2> QED
    BY <2>1 DEF AnswersStay, Answered
<1>4. \A p \in Ids : turn'[p].phase = "answered" \/ p \in items' => Told(signatures', p, turn'[p].answer)
  BY <1>1, ToldStays DEF ReplayInv
<1> QED
  BY <1>2, <1>3, <1>4 DEF ReplayInv, SignaturesTold, Answered

(* What a client adds to its transcript is said by a user: something new,  *)
(* or the outputs of the calls of the answer it goes on from.              *)
LEMMA FreshFacts ==
  ASSUME NEW p \in Ids, turn[p].answer \in Seq(Pieces), NEW r \in Ids, NEW fresh \in FreshItems(r, p)
  PROVE  /\ fresh \in Seq(Items)
         /\ \A x \in Range(fresh) : x.type = "user" \/ (x.type = "function_call_output" /\ x.says[1] = p)
         /\ fresh # <<>> => Last(fresh).type \in UserTypes
<1> DEFINE answer == turn[p].answer
           calls == ItemsOf(p, answer, "call", "function_call_output")
           u == Item("user", <<r, 0>>, FALSE)
<1>1. calls \in Seq(Items) /\ \A x \in Range(calls) : x.type = "function_call_output" /\ x.says[1] = p
  <2>1. calls \in Seq(Items) /\ Range(calls) = Made(p, answer, "call", "function_call_output")
    BY ItemsOfFacts
  <2>2. \A i : LET x == Item("function_call_output", <<p, i>>, answer[i].signed)
               IN x.type = "function_call_output" /\ x.says[1] = p
    BY DEF Item
  <2> HIDE DEF calls
  <2> QED
    BY <2>1, <2>2 DEF Made
<1>2. u \in Items /\ u.type = "user"
  BY DEF Item, Items, Origins
<1>3. fresh = calls \/ fresh = <<u>> \/ fresh = <<>>
  BY DEF FreshItems
<1> HIDE DEF answer, calls, u
<1>4. /\ fresh \in Seq(Items)
      /\ \A x \in Range(fresh) : x.type = "user" \/ (x.type = "function_call_output" /\ x.says[1] = p)
  <2>1. Range(<<u>>) = {u} /\ Range(<<>>) = {} /\ <<u>> \in Seq(Items) /\ <<>> \in Seq(Items)
    BY <1>2, EmptySeq DEF Range
  <2> QED
    BY <1>1, <1>2, <1>3, <2>1
<1>5. fresh # <<>> => Last(fresh) \in Range(fresh)
  <2>1. fresh # <<>> => Len(fresh) \in DOMAIN fresh
    BY <1>4, EmptySeq, LenProperties
  <2> QED
    BY <2>1 DEF Last, Range
<1> QED
  BY <1>4, <1>5 DEF UserTypes

LEMMA TranscriptSpeaks ==
  ASSUME ConversationInv, NEW p \in Ids, Answered(p), SaysAnswered(turn[p].sent),
         NEW r \in Ids, NEW fresh \in FreshItems(r, p)
  PROVE  /\ SaysAnswered(Transcript(p) \o fresh)
         /\ FromUserToUser(turn[p].sent) /\ fresh # <<>> => FromUserToUser(Transcript(p) \o fresh)
<1> DEFINE sent == turn[p].sent
           out == OutputItems(p, turn[p].answer)
           t == sent \o out
<1>1. sent \in Seq(Items) /\ turn[p].answer \in Seq(Pieces)
  BY ParentFacts
<1>2. out \in Seq(Items) /\ \A x \in Range(out) : x.says[1] = p
  BY <1>1, OutputFacts DEF SaysOutput
<1>3. /\ fresh \in Seq(Items)
      /\ \A x \in Range(fresh) : x.type = "user" \/ (x.type = "function_call_output" /\ x.says[1] = p)
      /\ fresh # <<>> => Last(fresh).type \in UserTypes
  BY <1>1, FreshFacts
<1>4. Transcript(p) = t
  BY DEF Transcript
<1>5. \A x \in Range(sent) : x.type \in Looked => x.says[1] \in Ids /\ Answered(x.says[1])
  BY DEF SaysAnswered
<1> HIDE DEF sent, out
<1>6. t \in Seq(Items) /\ Range(t) = Range(sent) \cup Range(out)
  BY <1>1, <1>2, ConcatProperties, RangeConcatenation
<1>7. sent # <<>> => t # <<>> /\ Head(t) = Head(sent)
  BY <1>1, <1>2, EndsOfConcat
<1> HIDE DEF t
<1>8. Range(t \o fresh) = Range(t) \cup Range(fresh)
  BY <1>3, <1>6, RangeConcatenation
<1>9. /\ t # <<>> => t \o fresh # <<>> /\ Head(t \o fresh) = Head(t)
      /\ fresh # <<>> => t \o fresh # <<>> /\ Last(t \o fresh) = Last(fresh)
  BY <1>3, <1>6, EndsOfConcat
<1>10. SaysAnswered(t \o fresh)
  BY <1>2, <1>3, <1>5, <1>6, <1>8 DEF SaysAnswered, Looked
<1>11. FromUserToUser(sent) /\ fresh # <<>> => FromUserToUser(t \o fresh)
  BY <1>3, <1>7, <1>9 DEF FromUserToUser
<1> QED
  BY <1>4, <1>10, <1>11 DEF sent

(* A request is sent.                                                      *)
LEMMA OpenSpeaks ==
  ASSUME ConversationInv, ReplayInv, NEW r \in Ids, turn[r] = Unused,
         NEW p, NEW how, NEW sent \in Seq(Items), NEW payload, NEW whole \in BOOLEAN,
         Open(r, p, how, sent, payload, whole), UNCHANGED <<items, signatures>>,
         SaysAnswered(sent),
         whole => FromUserToUser(sent) /\ Nameless(PartsOf(payload)) = Spoken(signatures, sent)
  PROVE  ReplayInv'
<1>1. TurnTypeOK /\ SignaturesTold /\ \A q \in Ids : Begun(q) => SpeaksOK(q)
  BY DEF ConversationInv, ReplayInv
<1>2. ~Begun(r) /\ ~Answered(r) /\ r \notin items
  BY <1>1, BegunFacts, FoundIsSaid
<1> DEFINE new == [phase |-> "open", parent |-> p, chained |-> how # "replay", found |-> how = "found",
                   sent |-> sent, payload |-> payload, answer |-> <<>>, whole |-> whole]
<1>3. turn' = [turn EXCEPT ![r] = new]
  BY DEF Open
<1>4. new.phase = "open" /\ new.sent = sent /\ new.payload = payload /\ new.whole = whole
  OBVIOUS
<1> HIDE DEF new
<1>5. turn'[r] = new /\ \A q \in Ids : q # r => turn'[q] = turn[q]
  BY <1>1, <1>3 DEF TurnTypeOK
<1>6. AnswersStay
  BY <1>2, <1>5 DEF AnswersStay, Answered
<1>7. KnownStays
  BY DEF KnownStays
<1>8. ASSUME NEW q \in Ids, Begun(q)' PROVE SpeaksOK(q)'
  <2>1. CASE q # r
    <3>1. Begun(q) /\ SameRequest(q) /\ turn'[q] = turn[q]
      BY <1>5, <1>8, <2>1 DEF Begun, Answered, SameRequest
    <3> QED
      BY <1>1, <1>6, <1>7, <3>1, SpeaksStays
  <2>2. CASE q = r
    <3>1. \A x \in Range(sent) : x.type \in Looked =>
            x.says[1] \in Ids /\ turn'[x.says[1]].phase \in {"answered", "done"}
      BY <1>6 DEF SaysAnswered, AnswersStay, Answered
    <3> QED
      BY <1>4, <1>5, <2>2, <3>1 DEF SpeaksOK, SaysAnswered, Answered
  <2> QED
    BY <2>1, <2>2
<1>9. \A s \in signatures' : s[1] \in Ids /\ turn'[s[1]].phase \in {"answered", "done"}
  BY <1>1, <1>6 DEF SignaturesTold, AnswersStay, Answered
<1>10. \A q \in Ids : turn'[q].phase = "answered" \/ q \in items' => Told(signatures', q, turn'[q].answer)
  BY <1>1, <1>2, <1>4, <1>5 DEF SignaturesTold
<1> QED
  BY <1>8, <1>9, <1>10 DEF ReplayInv, SignaturesTold, Answered

LEMMA FirstSpeaks ==
  ASSUME ConversationInv, ReplayInv, NEW r \in Ids, NEW fresh \in FirstItems(r), First(r, fresh)
  PROVE  ReplayInv'
<1> DEFINE u == Item("user", <<r, 0>>, FALSE)
           whole == fresh # <<>>
<1>1. u \in Items /\ u.type = "user"
  BY DEF Item, Items, Origins
<1>2. fresh = <<u>> \/ fresh = <<>>
  BY DEF FirstItems
<1>3. turn[r] = Unused /\ Open(r, None, "replay", fresh, Replayed(fresh), whole) /\ UNCHANGED <<items, signatures>>
  BY DEF First, store
<1> HIDE DEF u
<1>4. /\ fresh \in Seq(Items) /\ \A x \in Range(fresh) : x.type = "user"
      /\ fresh # <<>> => Head(fresh).type = "user" /\ Last(fresh).type = "user"
  <2>1. Range(<<u>>) = {u} /\ Range(<<>>) = {} /\ <<u>> \in Seq(Items) /\ <<>> \in Seq(Items)
    BY <1>1, EmptySeq DEF Range
  <2>2. Head(<<u>>) = u /\ Last(<<u>>) = u
    BY DEF Last
  <2>3. CASE fresh = <<u>>
    BY <1>1, <2>1, <2>2, <2>3
  <2>4. CASE fresh = <<>>
    BY <2>1, <2>4
  <2> QED
    BY <1>2, <2>3, <2>4
<1>5. SaysAnswered(fresh)
  BY <1>4 DEF SaysAnswered, Looked
<1>6. whole => FromUserToUser(fresh) /\ Nameless(PartsOf(Replayed(fresh))) = Spoken(signatures, fresh)
  BY <1>4, ReplayedSays DEF FromUserToUser, UserTypes
<1>7. whole \in BOOLEAN
  OBVIOUS
<1> HIDE DEF whole
<1> QED
  BY <1>3, <1>4, <1>5, <1>6, <1>7, OpenSpeaks

LEMMA ReplaySpeaks ==
  ASSUME ConversationInv, ReplayInv, NEW r \in Ids, NEW p \in Ids, NEW fresh \in FreshItems(r, p),
         Replay(r, p, fresh)
  PROVE  ReplayInv'
<1> DEFINE sent == Transcript(p) \o fresh
           whole == turn[p].whole /\ Plain(turn[p].answer) /\ fresh # <<>>
<1>1. /\ turn[r] = Unused /\ Answered(p) /\ Open(r, p, "replay", sent, Replayed(sent), whole)
      /\ UNCHANGED <<items, signatures>>
  BY DEF Replay, store
<1>2. sent \in Seq(Items)
  BY <1>1, ParentFacts
<1>3. Begun(p) /\ SpeaksOK(p)
  BY <1>1 DEF ReplayInv, Begun
<1>4. SaysAnswered(sent) /\ (whole => FromUserToUser(sent))
  BY <1>1, <1>3, TranscriptSpeaks DEF SpeaksOK
<1>5. whole \in BOOLEAN
  OBVIOUS
<1> HIDE DEF sent, whole
<1>6. whole => Nameless(PartsOf(Replayed(sent))) = Spoken(signatures, sent)
  BY <1>2, <1>4, ReplayedSays DEF FromUserToUser
<1> QED
  BY <1>1, <1>2, <1>4, <1>5, <1>6, OpenSpeaks

LEMMA NamelessModel ==
  ASSUME NEW p \in Ids, NEW answer \in Seq(Pieces)
  PROVE  Nameless(ModelParts(p, answer)) = ModelParts(p, answer)
<1> DEFINE m == ModelParts(p, answer)
<1>1. m = [i \in DOMAIN answer |-> Part(answer[i].kind, <<p, i>>, answer[i].signed)]
  BY DEF ModelParts
<1> HIDE DEF m
<1>2. ASSUME NEW i \in DOMAIN m PROVE [m[i] EXCEPT !.named = TRUE] = m[i]
  <2> DEFINE yes == TRUE
             kind == answer[i].kind
             says == <<p, i>>
             signed == answer[i].signed
  <2>1. m[i] = [kind |-> kind, says |-> says, signed |-> signed, named |-> yes]
    BY <1>1, <1>2 DEF Part
  <2> HIDE DEF yes, kind, says, signed
  <2>2. [m[i] EXCEPT !.named = yes] = m[i]
    BY <2>1, PartRenamed
  <2> QED
    BY <2>2 DEF yes
<1>3. Nameless(m) = [i \in DOMAIN m |-> m[i]]
  BY <1>2 DEF Nameless
<1>4. m = [i \in DOMAIN m |-> m[i]]
  BY <1>1
<1> QED
  BY <1>3, <1>4 DEF m

LEMMA ChainSpeaks ==
  ASSUME ConversationInv, ReplayInv, NEW r \in Ids, NEW p \in Ids, NEW fresh \in FreshItems(r, p),
         Chain(r, p, fresh)
  PROVE  ReplayInv'
<1> DEFINE answer == turn[p].answer
           sent == Transcript(p) \o fresh
           whole == p \in items /\ turn[p].whole /\ Plain(answer) /\ fresh # <<>>
           how == IF p \in items THEN "found" ELSE "missing"
           payload == IF p \in items THEN Continued(p, fresh) ELSE Replayed(fresh)
<1>1. /\ turn[r] = Unused /\ Answered(p) /\ Open(r, p, how, sent, payload, whole)
      /\ UNCHANGED <<items, signatures>>
  BY DEF Chain, Get, GetMissing, store
<1>2. /\ sent \in Seq(Items) /\ fresh \in Seq(Items) /\ turn[p].sent \in Seq(Items)
      /\ answer \in Seq(Pieces) /\ turn[p].payload \in Seq(Turns) /\ Proper(turn[p].payload)
  BY <1>1, ParentFacts
<1>3. Begun(p) /\ SpeaksOK(p) /\ SignaturesTold
  BY <1>1 DEF ReplayInv, Begun
<1>4. SaysAnswered(sent) /\ (whole => FromUserToUser(sent))
  BY <1>1, <1>3, TranscriptSpeaks DEF SpeaksOK
<1>5. ASSUME whole
      PROVE  Nameless(PartsOf(Continued(p, fresh))) = Spoken(signatures, sent)
  <2> DEFINE before == turn[p].sent
             out == OutputItems(p, answer)
             t == before \o out
             m == ModelParts(p, answer)
  <2>1. p \in items /\ Plain(answer) /\ fresh # <<>>
    BY <1>5
  <2>2. Nameless(PartsOf(turn[p].payload)) = Spoken(signatures, before)
    BY <1>3, <1>5 DEF SpeaksOK
  <2>3. Last(fresh).type \in UserTypes
    BY <1>2, <2>1, FreshFacts
  <2>4. Lookup(p) = Append(turn[p].payload, Turn("model", m))
    BY <2>1, FoundIsSaid DEF StateOf
  <2>5. Nameless(PartsOf(Continued(p, fresh)))
          = (Nameless(PartsOf(turn[p].payload)) \o Nameless(m)) \o Spoken(signatures, fresh)
    BY <1>2, <2>1, <2>3, <2>4, ContinuedSays
  <2>6. Spoken(signatures, out) = m
    BY <1>2, <1>3, <2>1, PlainSays DEF SignaturesTold
  <2>7. Nameless(m) = m
    BY <1>2, NamelessModel
  <2>8. out \in Seq(Items)
    BY <1>2, OutputFacts DEF SaysOutput
  <2>9. sent = t \o fresh
    BY DEF Transcript
  <2> HIDE DEF before, out, m
  <2>10. t \in Seq(Items)
    BY <1>2, <2>8, ConcatProperties DEF before
  <2>11. Spoken(signatures, t) = Spoken(signatures, before) \o Spoken(signatures, out)
    BY <1>2, <2>8, SpokenFacts DEF before
  <2> HIDE DEF t
  <2>12. Spoken(signatures, t \o fresh) = Spoken(signatures, t) \o Spoken(signatures, fresh)
    BY <1>2, <2>10, SpokenFacts
  <2> QED
    BY <2>2, <2>5, <2>6, <2>7, <2>9, <2>11, <2>12
<1>6. whole \in BOOLEAN /\ (whole => payload = Continued(p, fresh))
  OBVIOUS
<1> HIDE DEF sent, whole, how, payload
<1> QED
  BY <1>1, <1>2, <1>4, <1>5, <1>6, OpenSpeaks

(* The stream of r ends well: its signatures are told, and no others.      *)
LEMMA FinishSpeaks ==
  ASSUME ConversationInv, ReplayInv, NEW r \in Ids, NEW answer \in Answers, Finish(r, answer)
  PROVE  ReplayInv'
<1> DEFINE told == {<<r, i>> : i \in {j \in DOMAIN answer : answer[j].signed /\ answer[j].kind # "thought"}}
           new == [turn[r] EXCEPT !.phase = "answered", !.answer = answer]
<1>1. TurnTypeOK /\ SignaturesTold /\ \A q \in Ids : Begun(q) => SpeaksOK(q)
  BY DEF ConversationInv, ReplayInv
<1>2. /\ turn[r].phase = "open" /\ turn' = [turn EXCEPT ![r].phase = "answered", ![r].answer = answer]
      /\ signatures' = signatures \cup told /\ UNCHANGED items
  BY DEF Finish, store
<1>3. turn[r] \in Requests /\ Begun(r) /\ ~Answered(r)
  BY <1>1, <1>2, BegunFacts DEF Begun, Answered
<1>4. /\ new.phase = "answered" /\ new.answer = answer /\ new.whole = turn[r].whole
      /\ new.chained = turn[r].chained /\ new.found = turn[r].found /\ new.parent = turn[r].parent
      /\ new.sent = turn[r].sent /\ new.payload = turn[r].payload
  BY <1>3 DEF Requests
<1>5. turn' = [turn EXCEPT ![r] = new]
  BY <1>2
<1>6. \A s : s \in told <=> \E i \in DOMAIN answer : s = <<r, i>> /\ answer[i].signed /\ answer[i].kind # "thought"
  OBVIOUS
<1> HIDE DEF new, told
<1>7. turn'[r] = new /\ \A q \in Ids : q # r => turn'[q] = turn[q]
  BY <1>1, <1>5 DEF TurnTypeOK
<1>8. AnswersStay
  BY <1>3, <1>7 DEF AnswersStay, Answered
<1>9. \A s \in told : s[1] = r
  BY <1>6
<1>10. KnownStays
  BY <1>2, <1>3, <1>9 DEF KnownStays
<1>11. ASSUME NEW q \in Ids, Begun(q)' PROVE SpeaksOK(q)'
  <2>1. Begun(q) /\ SameRequest(q) /\ turn'[q].whole = turn[q].whole
    BY <1>3, <1>4, <1>7, <1>11 DEF Begun, Answered, SameRequest
  <2>2. turn'[q].phase # "done" \/ q \in items' => turn[q].phase # "done" \/ q \in items
    BY <1>2, <1>7
  <2> QED
    BY <1>1, <1>8, <1>10, <2>1, <2>2, SpeaksStays
<1>12. \A s \in signatures' : s[1] \in Ids /\ turn'[s[1]].phase \in {"answered", "done"}
  <2>1. \A s \in told : s[1] \in Ids /\ turn'[s[1]].phase \in {"answered", "done"}
    BY <1>4, <1>7, <1>9
  <2>2. \A s \in signatures : s[1] \in Ids /\ turn'[s[1]].phase \in {"answered", "done"}
    BY <1>1, <1>8 DEF SignaturesTold, AnswersStay, Answered
  <2> QED
    BY <1>2, <2>1, <2>2
<1>13. ASSUME NEW q \in Ids, turn'[q].phase = "answered" \/ q \in items'
       PROVE  Told(signatures', q, turn'[q].answer)
  <2>1. CASE q # r
    <3>1. turn[q].phase = "answered" \/ q \in items
      BY <1>2, <1>7, <1>13, <2>1
    <3> QED
      BY <1>1, <1>8, <1>10, <3>1, ToldStays
  <2>2. CASE q = r
    <3>1. \A i : <<r, i>>[1] = r
      OBVIOUS
    <3>2. \A i : <<r, i>> \notin signatures
      BY <1>1, <1>3, <3>1 DEF SignaturesTold
    <3>3. \A i \in DOMAIN answer : <<r, i>> \in signatures' <=> <<r, i>> \in told
      BY <1>2, <3>2
    <3>4. \A i \in DOMAIN answer : <<r, i>> \in told <=> answer[i].signed /\ answer[i].kind # "thought"
      BY <1>6
    <3>5. turn'[q].answer = answer
      BY <1>4, <1>7, <2>2
    <3> QED
      BY <2>2, <3>3, <3>4, <3>5 DEF Told
  <2> QED
    BY <2>1, <2>2
<1> QED
  BY <1>11, <1>12, <1>13 DEF ReplayInv, SignaturesTold, Answered

LEMMA SaveSpeaks ==
  ASSUME ConversationInv, ReplayInv, NEW r \in Ids, SaveResponseState(r)
  PROVE  ReplayInv'
<1>1. TurnTypeOK
  BY DEF ConversationInv
<1>2. /\ turn[r].phase = "answered" /\ turn' = [turn EXCEPT ![r].phase = "done"]
      /\ items' \subseteq items \cup {r} /\ UNCHANGED signatures
  BY DEF SaveResponseState, Save, store
<1>3. turn[r] \in Requests /\ Begun(r) /\ Answered(r)
  BY <1>1, <1>2, BegunFacts DEF Begun, Answered
<1> DEFINE new == [turn[r] EXCEPT !.phase = "done"]
<1>4. /\ new.phase = "done" /\ new.answer = turn[r].answer /\ new.whole = turn[r].whole
      /\ new.chained = turn[r].chained /\ new.found = turn[r].found /\ new.parent = turn[r].parent
      /\ new.sent = turn[r].sent /\ new.payload = turn[r].payload
  BY <1>3 DEF Requests
<1>5. turn' = [turn EXCEPT ![r] = new]
  BY <1>2
<1> HIDE DEF new
<1>6. turn'[r] = new /\ \A q \in Ids : q # r => turn'[q] = turn[q]
  BY <1>1, <1>5 DEF TurnTypeOK
<1>7. AnswersStay
  BY <1>4, <1>6 DEF AnswersStay, Answered
<1>8. \A q \in Ids : Begun(q)' => Begun(q) /\ SameRequest(q) /\ turn'[q].whole = turn[q].whole
  BY <1>3, <1>4, <1>6 DEF Begun, Answered, SameRequest
<1>9. \A q \in Ids : /\ turn'[q].phase = "answered" => turn[q].phase = "answered"
                     /\ turn'[q].phase = "open" => turn[q].phase = "open"
  BY <1>4, <1>6
<1> QED
  BY <1>2, <1>7, <1>8, <1>9, ProgressSpeaks

LEMMA FailSpeaks ==
  ASSUME ConversationInv, ReplayInv, NEW r \in Ids, Fail(r)
  PROVE  ReplayInv'
<1>1. TurnTypeOK
  BY DEF ConversationInv
<1>2. /\ turn[r].phase = "open" /\ turn' = [turn EXCEPT ![r] = Failed]
      /\ items' = items /\ UNCHANGED signatures
  BY DEF Fail, store
<1>3. turn'[r] = Failed /\ \A q \in Ids : q # r => turn'[q] = turn[q]
  BY <1>1, <1>2 DEF TurnTypeOK
<1>4. Failed.phase = "failed" /\ ~Answered(r)
  BY <1>2 DEF Failed, Answered
<1>5. AnswersStay
  BY <1>3, <1>4 DEF AnswersStay, Answered
<1>6. \A q \in Ids : Begun(q)' => Begun(q) /\ SameRequest(q) /\ turn'[q].whole = turn[q].whole
  BY <1>3, <1>4 DEF Begun, Answered, SameRequest
<1>7. \A q \in Ids : /\ turn'[q].phase = "answered" => turn[q].phase = "answered"
                     /\ turn'[q].phase = "open" => turn[q].phase = "open"
  BY <1>3, <1>4
<1> QED
  BY <1>2, <1>5, <1>6, <1>7, ProgressSpeaks

LEMMA IdleSpeaks ==
  ASSUME ConversationInv, ReplayInv, UNCHANGED <<turn, signatures>>, items' \subseteq items
  PROVE  ReplayInv'
<1>1. AnswersStay /\ \A q \in Ids : Begun(q)' => Begun(q) /\ SameRequest(q)
  BY UnchangedAnswers
<1> QED
  BY <1>1, ProgressSpeaks

(* A restart takes signatures away, but what is stored as well: what was   *)
(* sent before can only be replayed.                                       *)
LEMMA RestartSpeaks ==
  ASSUME ConversationInv, ReplayInv, Restart
  PROVE  ReplayInv'
<1>1. TurnTypeOK /\ SignaturesTold
  BY DEF ConversationInv, ReplayInv
<1>2. items' = {} /\ signatures' \subseteq signatures
  BY DEF Restart, StoreRestart
<1> DEFINE after(r) == IF turn[r].phase = "open" THEN Failed
                       ELSE IF turn[r].phase = "answered" THEN [turn[r] EXCEPT !.phase = "done"]
                       ELSE turn[r]
<1>3. \A q \in Ids : turn'[q] = after(q)
  BY DEF Restart
<1>4. ASSUME NEW q \in Ids
      PROVE  /\ turn'[q].phase # "answered" /\ turn'[q].phase # "open"
             /\ Answered(q) => turn'[q].phase = "done"
             /\ turn'[q].phase = "done" => /\ Answered(q) /\ turn'[q].sent = turn[q].sent
                                           /\ turn'[q].whole = turn[q].whole
  <2>1. CASE turn[q].phase = "open"
    <3>1. turn'[q] = Failed
      BY <1>3, <2>1
    <3> QED
      BY <2>1, <3>1 DEF Failed, Answered
  <2>2. CASE turn[q].phase = "answered"
    <3>1. turn[q] \in Requests
      BY <1>1, <2>2, BegunFacts DEF Begun, Answered
    <3> DEFINE new == [turn[q] EXCEPT !.phase = "done"]
    <3>2. new.phase = "done" /\ new.sent = turn[q].sent /\ new.whole = turn[q].whole
      BY <3>1 DEF Requests
    <3>3. turn'[q] = new
      BY <1>3, <2>2
    <3> HIDE DEF new
    <3> QED
      BY <2>2, <3>2, <3>3 DEF Answered
  <2>3. CASE turn[q].phase # "open" /\ turn[q].phase # "answered"
    <3>1. turn'[q] = turn[q]
      BY <1>3, <2>3
    <3> QED
      BY <2>3, <3>1 DEF Answered
  <2> QED
    BY <2>1, <2>2, <2>3
<1>5. ASSUME NEW q \in Ids, Begun(q)' PROVE SpeaksOK(q)'
  <2>1. turn'[q].phase = "done" /\ Answered(q) /\ turn'[q].sent = turn[q].sent /\ turn'[q].whole = turn[q].whole
    BY <1>4, <1>5 DEF Begun, Answered
  <2>2. SaysAnswered(turn[q].sent) /\ (turn[q].whole => FromUserToUser(turn[q].sent))
    BY <2>1 DEF ReplayInv, SpeaksOK, Begun
  <2>3. \A x \in Range(turn[q].sent) : x.type \in Looked =>
          x.says[1] \in Ids /\ turn'[x.says[1]].phase \in {"answered", "done"}
    BY <1>4, <2>2 DEF SaysAnswered
  <2> QED
    BY <1>2, <2>1, <2>2, <2>3 DEF SpeaksOK, SaysAnswered, Answered
<1>6. \A s \in signatures' : s[1] \in Ids /\ turn'[s[1]].phase \in {"answered", "done"}
  BY <1>1, <1>2, <1>4 DEF SignaturesTold
<1>7. \A q \in Ids : turn'[q].phase = "answered" \/ q \in items' => Told(signatures', q, turn'[q].answer)
  BY <1>2, <1>4
<1> QED
  BY <1>5, <1>6, <1>7 DEF ReplayInv, SignaturesTold, Answered

(* The thought store and the transcripts tell the same story in every      *)
(* conversation.                                                           *)
THEOREM ReplayInvariance == Spec => []ReplayInv
<1>1. Init => ReplayInv
  <2> SUFFICES ASSUME Init PROVE ReplayInv
    OBVIOUS
  <2>1. items = {} /\ signatures = {} /\ \A r \in Ids : turn[r] = Unused
    BY DEF Init, StoreInit
  <2>2. \A r \in Ids : turn[r].phase = "none"
    BY <2>1 DEF Unused
  <2> QED
    BY <2>1, <2>2 DEF ReplayInv, SignaturesTold, Begun, Answered
<1>2. ConversationInv /\ ReplayInv /\ [Next]_vars => ReplayInv'
  <2> SUFFICES ASSUME ConversationInv, ReplayInv, [Next]_vars PROVE ReplayInv'
    OBVIOUS
  <2>1. ASSUME NEW r \in Ids, NEW fresh \in FirstItems(r), First(r, fresh) PROVE ReplayInv'
    BY <2>1, FirstSpeaks
  <2>2. ASSUME NEW r \in Ids, NEW answer \in Answers, Finish(r, answer) PROVE ReplayInv'
    BY <2>2, FinishSpeaks
  <2>3. ASSUME NEW r \in Ids, SaveResponseState(r) PROVE ReplayInv'
    BY <2>3, SaveSpeaks
  <2>4. ASSUME NEW r \in Ids, Fail(r) PROVE ReplayInv'
    BY <2>4, FailSpeaks
  <2>5. ASSUME NEW r \in Ids, Read(r) \/ Forget(r) PROVE ReplayInv'
    <3>1. UNCHANGED <<turn, signatures>> /\ items' \subseteq items
      BY <2>5 DEF Read, Forget, Get, GetMissing, Delete, store
    <3> QED
      BY <3>1, IdleSpeaks
  <2>6. ASSUME NEW r \in Ids, NEW p \in Ids, NEW fresh \in FreshItems(r, p), Replay(r, p, fresh)
        PROVE  ReplayInv'
    BY <2>6, ReplaySpeaks
  <2>7. ASSUME NEW r \in Ids, NEW p \in Ids, NEW fresh \in FreshItems(r, p), Chain(r, p, fresh)
        PROVE  ReplayInv'
    BY <2>7, ChainSpeaks
  <2>8. ASSUME Restart PROVE ReplayInv'
    BY <2>8, RestartSpeaks
  <2>9. ASSUME UNCHANGED vars PROVE ReplayInv'
    <3>1. UNCHANGED <<turn, signatures>> /\ items' \subseteq items
      BY <2>9 DEF vars, store
    <3> QED
      BY <3>1, IdleSpeaks
  <2> QED
    BY <2>1, <2>2, <2>3, <2>4, <2>5, <2>6, <2>7, <2>8, <2>9 DEF Next
<1> QED BY <1>1, <1>2, ConversationInvariance, PTL DEF Spec

(* Naming an answer and replaying the transcript send Google the same      *)
(* parts, for every history of plain answers.                              *)
THEOREM ReplayAlwaysAgrees == Spec => []ReplayAgrees
<1>1. ConversationInv /\ ReplayInv => ReplayAgrees
  <2> SUFFICES ASSUME ConversationInv, ReplayInv, NEW r \in Ids, Begun(r), turn[r].phase = "open", turn[r].whole
               PROVE  Nameless(PartsOf(turn[r].payload)) = Nameless(PartsOf(Replayed(turn[r].sent)))
    BY DEF ReplayAgrees
  <2>1. SpeaksOK(r)
    BY DEF ReplayInv
  <2>2. turn[r].sent \in Seq(Items)
    BY BegunFacts DEF ConversationInv, Requests
  <2>3. Nameless(PartsOf(turn[r].payload)) = Spoken(signatures, turn[r].sent)
    BY <2>1 DEF SpeaksOK
  <2>4. FromUserToUser(turn[r].sent)
    BY <2>1 DEF SpeaksOK
  <2> QED
    BY <2>2, <2>3, <2>4, ReplayedSays DEF FromUserToUser
<1> QED BY <1>1, ConversationInvariance, ReplayInvariance, PTL
=============================================================================
