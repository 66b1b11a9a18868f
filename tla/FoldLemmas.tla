----------------------------- MODULE FoldLemmas -----------------------------
(***************************************************************************)
(* How a loop over a sequence, FoldLeft and FlattenSeq in the models, is   *)
(* unrolled.                                                               *)
(*                                                                         *)
(* FoldLeft chooses a function on sets of positions that takes the last    *)
(* position off; that there is one is shown here, once, for a step that is *)
(* a function.  Induction is over sets: the library's theorems take an     *)
(* operator, which the provers cannot instantiate.                         *)
(***************************************************************************)
EXTENDS SequencesExt, SequenceTheorems, WellFoundedInduction, TLAPS

(* Induction over the naturals for a set: the least number outside it.     *)
LEMMA InductiveSet ==
  ASSUME NEW S, 0 \in S, \A n \in Nat : n \in S => n + 1 \in S
  PROVE  Nat \subseteq S
<1> SUFFICES ASSUME Nat \ S # {} PROVE FALSE
  OBVIOUS
<1>1. IsWellFoundedOn(OpToRel(<, Nat), Nat)
  BY NatLessThanWellFounded
<1>2. PICK x \in Nat \ S : \A y \in Nat \ S : ~(<<y, x>> \in OpToRel(<, Nat))
  BY <1>1, WFMin
<1>3. x # 0 /\ x - 1 \in Nat /\ x - 1 < x /\ x \in Nat /\ (x - 1) + 1 = x
  OBVIOUS
<1>4. x - 1 \notin S
  BY <1>2, <1>3
<1>5. <<x - 1, x>> \in Nat \X Nat /\ <<x - 1, x>>[1] < <<x - 1, x>>[2]
  BY <1>3
<1>6. <<x - 1, x>> \in OpToRel(<, Nat)
  BY <1>5, Zenon DEF OpToRel
<1> QED
  BY <1>2, <1>3, <1>4, <1>6

(* The function a fold over 1..n is computed by: it takes the last position*)
(* off a set and applies a step to it.                                     *)
IsFold(iter, T, base, n, step) ==
  /\ iter \in [SUBSET (1..n) -> T]
  /\ \A s \in SUBSET (1..n) :
       /\ s # {} => Max(s) \in s
       /\ iter[s] = IF s = {} THEN base ELSE step[<<iter[s \ {Max(s)}], Max(s)>>]

(* There is one, for every step that stays in T. *)
LEMMA FoldExists ==
  ASSUME NEW T, NEW base \in T, NEW n \in Nat, NEW step \in [T \X (1..n) -> T]
  PROVE  \E iter : IsFold(iter, T, base, n, step)
<1> DEFINE Good(k, iter) == \A s \in SUBSET (1..k) :
             iter[s] = IF s = {} THEN base ELSE step[<<iter[s \ {Max(s)}], Max(s)>>]
           Exists(k) == k <= n => \E iter \in [SUBSET (1..k) -> T] :
                               /\ \A s \in SUBSET (1..k) : s # {} => Max(s) \in s
                               /\ Good(k, iter)
           S == {k \in Nat : Exists(k)}
<1>1. Exists(0)
  <2>1. 1..0 = {}
    OBVIOUS
  <2>2. [s \in SUBSET (1..0) |-> base] \in [SUBSET (1..0) -> T]
    OBVIOUS
  <2>3. Good(0, [s \in SUBSET (1..0) |-> base])
    BY <2>1
  <2> QED
    BY <2>1, <2>2, <2>3
<1>2. ASSUME NEW k \in Nat, Exists(k) PROVE Exists(k + 1)
  <2> SUFFICES ASSUME k + 1 <= n
               PROVE  \E iter \in [SUBSET (1..(k + 1)) -> T] :
                        /\ \A s \in SUBSET (1..(k + 1)) : s # {} => Max(s) \in s
                        /\ Good(k + 1, iter)
    OBVIOUS
  <2>1. PICK it \in [SUBSET (1..k) -> T] :
          /\ \A s \in SUBSET (1..k) : s # {} => Max(s) \in s
          /\ Good(k, it)
    <3> HIDE DEF Good
    <3>1. k <= n
      OBVIOUS
    <3> QED
      BY <1>2, <3>1
  <2>2. \A s \in SUBSET (1..(k + 1)) : k + 1 \notin s => s \in SUBSET (1..k)
    OBVIOUS
  <2>3. \A s \in SUBSET (1..(k + 1)) : s \ {k + 1} \in SUBSET (1..k)
    OBVIOUS
  <2>4. \A s \in SUBSET (1..(k + 1)) : k + 1 \in s => Max(s) = k + 1
    <3> SUFFICES ASSUME NEW s \in SUBSET (1..(k + 1)), k + 1 \in s PROVE Max(s) = k + 1
      OBVIOUS
    <3>1. \A y \in s : k + 1 >= y /\ y \in Nat
      OBVIOUS
    <3>2. \A x \in s : (\A y \in s : x >= y) => x = k + 1
      BY <3>1
    <3> QED
      BY <3>1, <3>2 DEF Max
  <2> DEFINE jt == [s \in SUBSET (1..(k + 1)) |->
                     IF k + 1 \in s THEN step[<<it[s \ {k + 1}], k + 1>>] ELSE it[s]]
  <2>5. \A a \in T : step[<<a, k + 1>>] \in T
    <3>1. k + 1 \in 1..n
      OBVIOUS
    <3> QED
      BY <3>1
  <2>6. jt \in [SUBSET (1..(k + 1)) -> T]
    BY <2>2, <2>3, <2>5
  <2>7. \A s \in SUBSET (1..(k + 1)) : s # {} => Max(s) \in s
    BY <2>1, <2>2, <2>4
  <2>8. Good(k + 1, jt)
    <3> SUFFICES ASSUME NEW s \in SUBSET (1..(k + 1))
                 PROVE  jt[s] = IF s = {} THEN base ELSE step[<<jt[s \ {Max(s)}], Max(s)>>]
      OBVIOUS
    <3>1. CASE k + 1 \in s
      <4>1. s \ {k + 1} \in SUBSET (1..(k + 1)) /\ k + 1 \notin s \ {k + 1}
        OBVIOUS
      <4>2. jt[s \ {k + 1}] = it[s \ {k + 1}]
        BY <4>1
      <4>3. jt[s] = step[<<it[s \ {k + 1}], k + 1>>]
        BY <3>1
      <4> QED
        BY <2>4, <3>1, <4>2, <4>3
    <3>2. CASE k + 1 \notin s
      <4>1. s \in SUBSET (1..k) /\ jt[s] = it[s]
        BY <3>2, <2>2
      <4>2. CASE s = {}
        BY <4>1, <4>2, <2>1
      <4>3. CASE s # {}
        <5>1. Max(s) \in s
          BY <4>1, <4>3, <2>1
        <5>2. jt[s \ {Max(s)}] = it[s \ {Max(s)}]
          BY <3>2
        <5>3. it[s] = step[<<it[s \ {Max(s)}], Max(s)>>]
          BY <4>1, <4>3, <2>1
        <5> QED
          BY <4>1, <4>3, <5>2, <5>3
      <4> QED
        BY <4>2, <4>3
    <3> QED
      BY <3>1, <3>2
  <2> QED
    BY <2>6, <2>7, <2>8
<1>3. Exists(n)
  <2> HIDE DEF Exists
  <2>1. 0 \in S /\ \A k \in Nat : k \in S => k + 1 \in S
    BY <1>1, <1>2
  <2> HIDE DEF S
  <2>2. n \in S
    BY <2>1, InductiveSet
  <2> QED
    BY <2>2 DEF S
<1>4. n <= n
  OBVIOUS
<1>5. \E iter \in [SUBSET (1..n) -> T] :
        (\A s \in SUBSET (1..n) : s # {} => Max(s) \in s) /\ Good(n, iter)
  <2> HIDE DEF Good
  <2> QED
    BY <1>3, <1>4
<1> QED
  BY <1>5 DEF IsFold

(* The last of 1..k. *)
LEMMA MaxOfRange ==
  ASSUME NEW k \in Nat, k > 0
  PROVE  Max(1..k) = k /\ (1..k) \ {k} = 1..(k - 1)
<1>1. \A x \in 1..k : (\A y \in 1..k : x >= y) => x = k
  OBVIOUS
<1>2. k \in 1..k /\ \A y \in 1..k : k >= y
  OBVIOUS
<1> QED
  BY <1>1, <1>2 DEF Max

(* Induction over the sequences, for a set of them.                        *)
LEMMA SequenceInduction ==
  ASSUME NEW T, NEW G, <<>> \in G, \A s \in Seq(T), e \in T : s \in G => Append(s, e) \in G
  PROVE  Seq(T) \subseteq G
<1> DEFINE S == {n \in Nat : \A s \in Seq(T) : Len(s) = n => s \in G}
<1>1. 0 \in S
  BY EmptySeq
<1>2. ASSUME NEW n \in Nat, n \in S PROVE n + 1 \in S
  <2> SUFFICES ASSUME NEW t \in Seq(T), Len(t) = n + 1 PROVE t \in G
    OBVIOUS
  <2>1. t # <<>>
    BY EmptySeq
  <2>2. PICK s \in Seq(T), e \in T : t = Append(s, e)
    BY <2>1, SequenceEmptyOrAppend
  <2>3. Len(s) = n
    BY <2>2, AppendProperties, LenProperties
  <2> QED
    BY <1>2, <2>2, <2>3
<1>3. Nat \subseteq S
  <2> HIDE DEF S
  <2> QED
    BY <1>1, <1>2, InductiveSet
<1> QED
  BY <1>3, LenProperties

(* FlattenSeq puts the sequences one after the other.                      *)
LEMMA FlattenSteps ==
  ASSUME NEW T, NEW seqs \in Seq(Seq(T))
  PROVE  \E f \in [0..Len(seqs) -> Seq(T)] :
           /\ f[0] = <<>>
           /\ \A k \in 1..Len(seqs) : f[k] = f[k - 1] \o seqs[k]
           /\ FlattenSeq(seqs) = f[Len(seqs)]
<1> DEFINE n == Len(seqs)
           body(g, i) == IF i = 1 THEN seqs[i] ELSE g[i - 1] \o seqs[i]
           Runs(k, f) == f[0] = <<>> /\ \A i \in 1..k : f[i] = f[i - 1] \o seqs[i]
           Exists(k) == k <= n => \E f \in [0..k -> Seq(T)] : Runs(k, f)
           S == {k \in Nat : Exists(k)}
<1>1. n \in Nat /\ \A k \in 1..n : seqs[k] \in Seq(T)
  BY LenProperties, ElementOfSeq
<1> HIDE DEF n
<1>2. Exists(0)
  <2>1. [k \in 0..0 |-> <<>>] \in [0..0 -> Seq(T)] /\ Runs(0, [k \in 0..0 |-> <<>>])
    BY EmptySeq
  <2> QED
    BY <2>1
<1>3. ASSUME NEW k \in Nat, Exists(k) PROVE Exists(k + 1)
  <2> SUFFICES ASSUME k + 1 <= n PROVE \E f \in [0..(k + 1) -> Seq(T)] : Runs(k + 1, f)
    OBVIOUS
  <2>1. k <= n /\ k + 1 \in 1..n
    BY <1>1
  <2>2. PICK f \in [0..k -> Seq(T)] : Runs(k, f)
    BY <1>3, <2>1
  <2> DEFINE g == [i \in 0..(k + 1) |-> IF i = k + 1 THEN f[k] \o seqs[k + 1] ELSE f[i]]
  <2>3. f[k] \o seqs[k + 1] \in Seq(T)
    BY <1>1, <2>1, ConcatProperties
  <2>4. g \in [0..(k + 1) -> Seq(T)]
    BY <2>3
  <2>5. Runs(k + 1, g)
    <3>1. g[0] = <<>> /\ g[k + 1] = g[(k + 1) - 1] \o seqs[k + 1]
      <4>1. 0 \in 0..(k + 1) /\ 0 # k + 1 /\ k \in 0..(k + 1) /\ k # k + 1 /\ k + 1 \in 0..(k + 1)
            /\ (k + 1) - 1 = k
        OBVIOUS
      <4>2. g[0] = f[0] /\ g[k] = f[k] /\ g[k + 1] = f[k] \o seqs[k + 1]
        BY <4>1
      <4> QED
        BY <2>2, <4>1, <4>2
    <3>2. ASSUME NEW i \in 1..k PROVE g[i] = g[i - 1] \o seqs[i]
      <4>1. g[i] = f[i] /\ g[i - 1] = f[i - 1]
        BY <1>1
      <4> QED
        BY <4>1, <2>2
    <3>3. \A i \in 1..(k + 1) : i = k + 1 \/ i \in 1..k
      OBVIOUS
    <3> HIDE DEF g
    <3> QED
      BY <3>1, <3>2, <3>3
  <2> QED
    BY <2>4, <2>5
<1>4. PICK f \in [0..n -> Seq(T)] : Runs(n, f)
  <2> HIDE DEF Exists
  <2>1. 0 \in S /\ \A k \in Nat : k \in S => k + 1 \in S
    BY <1>2, <1>3
  <2> HIDE DEF S
  <2>2. n \in S
    BY <2>1, <1>1, InductiveSet
  <2>3. Exists(n) /\ n <= n
    BY <1>1, <2>2 DEF S
  <2> QED
    BY <2>3 DEF Exists
<1> DEFINE w == CHOOSE g : g = [i \in 1..n |-> body(g, i)]
<1> HIDE DEF S
<1>5. w = [i \in 1..n |-> body(w, i)]
  <2> DEFINE g == [i \in 1..n |-> f[i]]
  <2>1. ASSUME NEW i \in 1..n PROVE f[i] = body(g, i)
    <3>1. CASE i = 1
      <4>1. f[1] = f[0] \o seqs[1] /\ f[0] = <<>>
        <5>1. 1 \in 1..n /\ 1 - 1 = 0
          BY <1>1, <3>1
        <5> QED
          BY <1>4, <5>1
      <4> QED
        BY <3>1, <4>1, <1>1, ConcatEmptySeq
    <3>2. CASE i # 1
      <4>1. i - 1 \in 1..n
        BY <1>1, <3>2
      <4> QED
        BY <1>4, <3>2, <4>1
    <3> QED
      BY <3>1, <3>2
  <2>2. g = [i \in 1..n |-> body(g, i)]
    BY <2>1
  <2> HIDE DEF g, body
  <2> QED
    BY <2>2
<1> HIDE DEF w
<1>6. \A i \in 1..n : w[i] = body(w, i)
  <2> HIDE DEF body
  <2> QED
    BY <1>5
<1> DEFINE R == {k \in Nat : k \in 1..n => w[k] = f[k]}
<1>7. 0 \in R
  OBVIOUS
<1>8. ASSUME NEW k \in Nat, k \in R PROVE k + 1 \in R
  <2> SUFFICES ASSUME k + 1 \in 1..n PROVE w[k + 1] = f[k + 1]
    OBVIOUS
  <2>1. w[k + 1] = body(w, k + 1) /\ f[k + 1] = f[(k + 1) - 1] \o seqs[k + 1] /\ (k + 1) - 1 = k
    <3>1. (k + 1) - 1 = k
      OBVIOUS
    <3> HIDE DEF body
    <3> QED
      BY <3>1, <1>4, <1>6
  <2>2. CASE k = 0
    <3>1. k + 1 = 1 /\ seqs[1] \in Seq(T) /\ f[0] = <<>>
      BY <2>2, <1>1, <1>4
    <3>2. <<>> \o seqs[1] = seqs[1]
      BY <3>1, ConcatEmptySeq
    <3> QED
      BY <2>1, <2>2, <3>1, <3>2
  <2>3. CASE k # 0
    <3>1. k \in 1..n /\ k + 1 # 1
      BY <1>1, <2>3
    <3> QED
      BY <2>1, <3>1, <1>8
  <2> QED
    BY <2>2, <2>3
<1>9. CASE n = 0
  <2>1. seqs = <<>>
    BY <1>9, EmptySeq DEF n
  <2>2. FlattenSeq(seqs) = <<>>
    BY <1>9, <2>1 DEF FlattenSeq, n
  <2> QED
    BY <1>4, <1>9, <2>2 DEF n
<1>10. CASE n # 0
  <2>1. FlattenSeq(seqs) = w[n]
    BY <1>10 DEF FlattenSeq, w, n
  <2>2. Nat \subseteq R
    <3> HIDE DEF R
    <3> QED
      BY <1>7, <1>8, InductiveSet
  <2>3. n \in 1..n
    BY <1>1, <1>10
  <2> QED
    BY <1>1, <1>4, <2>1, <2>2, <2>3 DEF n
<1> QED
  BY <1>9, <1>10

(* One sequence more goes to the end.                                      *)
LEMMA FlattenAppend ==
  ASSUME NEW T, NEW seqs \in Seq(Seq(T)), NEW s \in Seq(T)
  PROVE  /\ FlattenSeq(seqs) \in Seq(T)
         /\ FlattenSeq(Append(seqs, s)) = FlattenSeq(seqs) \o s
<1> DEFINE n == Len(seqs)
           more == Append(seqs, s)
<1>1. n \in Nat /\ more \in Seq(Seq(T)) /\ Len(more) = n + 1
      /\ (\A k \in 1..n : more[k] = seqs[k]) /\ more[n + 1] = s
  BY LenProperties, AppendProperties
<1>2. PICK f \in [0..n -> Seq(T)] :
        f[0] = <<>> /\ (\A k \in 1..n : f[k] = f[k - 1] \o seqs[k]) /\ FlattenSeq(seqs) = f[n]
  BY FlattenSteps
<1> HIDE DEF n, more
<1>3. PICK g \in [0..(n + 1) -> Seq(T)] :
        /\ g[0] = <<>>
        /\ \A k \in 1..(n + 1) : g[k] = g[k - 1] \o more[k]
        /\ FlattenSeq(more) = g[n + 1]
  <2>1. \E g \in [0..Len(more) -> Seq(T)] :
          /\ g[0] = <<>>
          /\ \A k \in 1..Len(more) : g[k] = g[k - 1] \o more[k]
          /\ FlattenSeq(more) = g[Len(more)]
    BY <1>1, FlattenSteps
  <2> QED
    BY <2>1, <1>1
<1> DEFINE S == {k \in Nat : k <= n => g[k] = f[k]}
<1>4. 0 \in S
  BY <1>2, <1>3
<1>5. ASSUME NEW k \in Nat, k \in S PROVE k + 1 \in S
  <2> SUFFICES ASSUME k + 1 <= n PROVE g[k + 1] = f[k + 1]
    OBVIOUS
  <2>1. k <= n /\ k + 1 \in 1..n /\ k + 1 \in 1..(n + 1) /\ (k + 1) - 1 = k
    BY <1>1
  <2> QED
    BY <2>1, <1>1, <1>2, <1>3, <1>5
<1>6. g[n] = f[n]
  <2>1. Nat \subseteq S
    <3> HIDE DEF S
    <3> QED
      BY <1>4, <1>5, InductiveSet
  <2> QED
    BY <1>1, <2>1
<1>7. n \in 0..n /\ n + 1 \in 1..(n + 1) /\ (n + 1) - 1 = n
  BY <1>1
<1> QED
  BY <1>1, <1>2, <1>3, <1>6, <1>7 DEF more

LEMMA FlattenEmpty == FlattenSeq(<<>>) = <<>>
BY DEF FlattenSeq

(* Two lists of sequences one after the other.                             *)
LEMMA FlattenConcat ==
  ASSUME NEW T, NEW a \in Seq(Seq(T)), NEW b \in Seq(Seq(T))
  PROVE  FlattenSeq(a \o b) = FlattenSeq(a) \o FlattenSeq(b)
<1> DEFINE G == {t \in Seq(Seq(T)) : FlattenSeq(a \o t) = FlattenSeq(a) \o FlattenSeq(t)}
<1>1. <<>> \in G
  <2>1. a \o <<>> = a /\ FlattenSeq(a) \in Seq(T) /\ <<>> \in Seq(Seq(T)) /\ <<>> \in Seq(T)
    BY ConcatEmptySeq, FlattenAppend, EmptySeq
  <2>2. FlattenSeq(a) \o <<>> = FlattenSeq(a)
    BY <2>1, ConcatEmptySeq
  <2> QED
    BY <2>1, <2>2, FlattenEmpty
<1>2. ASSUME NEW t \in Seq(Seq(T)), NEW s \in Seq(T), t \in G PROVE Append(t, s) \in G
  <2>1. a \o Append(t, s) = Append(a \o t, s) /\ a \o t \in Seq(Seq(T)) /\ Append(t, s) \in Seq(Seq(T))
    OBVIOUS
  <2>2. FlattenSeq(a) \in Seq(T) /\ FlattenSeq(t) \in Seq(T)
    BY FlattenAppend
  <2>3. FlattenSeq(Append(a \o t, s)) = FlattenSeq(a \o t) \o s
        /\ FlattenSeq(Append(t, s)) = FlattenSeq(t) \o s
    BY <2>1, FlattenAppend
  <2>4. (FlattenSeq(a) \o FlattenSeq(t)) \o s = FlattenSeq(a) \o (FlattenSeq(t) \o s)
    BY <2>2, ConcatAssociative
  <2> QED
    BY <1>2, <2>1, <2>3, <2>4
<1>3. Seq(Seq(T)) \subseteq G
  <2> HIDE DEF G
  <2> QED
    BY <1>1, <1>2, SequenceInduction
<1> QED
  BY <1>3

(* What is in it. *)
LEMMA FlattenRange ==
  ASSUME NEW T, NEW seqs \in Seq(Seq(T))
  PROVE  Range(FlattenSeq(seqs)) = UNION {Range(seqs[i]) : i \in DOMAIN seqs}
<1> DEFINE All(t) == UNION {Range(t[i]) : i \in DOMAIN t}
           G == {t \in Seq(Seq(T)) : Range(FlattenSeq(t)) = All(t)}
<1>1. <<>> \in G
  BY FlattenEmpty, EmptySeq DEF Range
<1>2. ASSUME NEW t \in Seq(Seq(T)), NEW s \in Seq(T), t \in G PROVE Append(t, s) \in G
  <2>1. /\ FlattenSeq(t) \in Seq(T) /\ Append(t, s) \in Seq(Seq(T))
        /\ FlattenSeq(Append(t, s)) = FlattenSeq(t) \o s
    BY FlattenAppend, AppendProperties
  <2>2. Range(FlattenSeq(t) \o s) = Range(FlattenSeq(t)) \cup Range(s)
    BY <2>1, RangeConcatenation
  <2>3. All(Append(t, s)) = All(t) \cup Range(s)
    <3> DEFINE n == Len(t)
               u == Append(t, s)
    <3>1. /\ n \in Nat /\ DOMAIN t = 1..n /\ DOMAIN u = 1..(n + 1)
          /\ (\A i \in 1..n : u[i] = t[i]) /\ u[n + 1] = s
      BY <2>1, LenProperties, AppendProperties
    <3> HIDE DEF n, u
    <3>2. \A i \in 1..(n + 1) : i \in 1..n \/ i = n + 1
      BY <3>1
    <3>3. n + 1 \in 1..(n + 1) /\ \A i \in 1..n : i \in 1..(n + 1)
      BY <3>1
    <3>4. All(u) = All(t) \cup Range(s)
      BY <3>1, <3>2, <3>3
    <3> QED
      BY <3>4 DEF u
  <2> QED
    BY <1>2, <2>1, <2>2, <2>3
<1>3. Seq(Seq(T)) \subseteq G
  <2> HIDE DEF G
  <2> QED
    BY <1>1, <1>2, SequenceInduction
<1> QED
  BY <1>3

(* The sequences that f has for the elements of s, one after the other.    *)
FlatMap(f, s) == FlattenSeq([i \in DOMAIN s |-> f[s[i]]])

IsSeqMap(f, S, T) == f \in [S -> Seq(T)]

LEMMA FlatMapFacts ==
  ASSUME NEW S, NEW T, NEW f, IsSeqMap(f, S, T)
  PROVE  /\ FlatMap(f, <<>>) = <<>>
         /\ \A s \in Seq(S) : /\ FlatMap(f, s) \in Seq(T)
                              /\ Range(FlatMap(f, s)) = UNION {Range(f[s[i]]) : i \in DOMAIN s}
         /\ \A s \in Seq(S), e \in S : FlatMap(f, Append(s, e)) = FlatMap(f, s) \o f[e]
         /\ \A e \in S : FlatMap(f, <<e>>) = f[e]
<1> DEFINE L(s) == [i \in DOMAIN s |-> f[s[i]]]
<1>7. f \in [S -> Seq(T)]
  BY DEF IsSeqMap
<1>1. ASSUME NEW s \in Seq(S)
      PROVE  /\ L(s) \in Seq(Seq(T)) /\ Len(L(s)) = Len(s) /\ Len(s) \in Nat /\ DOMAIN s = 1..Len(s)
             /\ \A i \in 1..Len(s) : s[i] \in S /\ L(s)[i] = f[s[i]]
  <2>1. Len(s) \in Nat /\ DOMAIN s = 1..Len(s) /\ \A i \in 1..Len(s) : s[i] \in S
    BY LenProperties, ElementOfSeq
  <2>2. L(s) \in [1..Len(s) -> Seq(T)]
    BY <1>7, <2>1
  <2>3. \A i \in 1..Len(s) : L(s)[i] = f[s[i]]
    BY <2>1
  <2>4. L(s) \in Seq(Seq(T))
    <3> DEFINE l == L(s)
               V == Seq(T)
    <3>1. l \in [1..Len(s) -> V]
      BY <2>2
    <3> HIDE DEF l, V
    <3>2. \A n \in Nat : [1..n -> V] \subseteq Seq(V)
      BY SeqDef
    <3>3. l \in Seq(V)
      BY <2>1, <3>1, <3>2
    <3> QED
      BY <3>3 DEF l, V
  <2> HIDE DEF L
  <2> QED
    BY <2>1, <2>2, <2>3, <2>4, LenProperties
<1>2. \A s : FlatMap(f, s) = FlattenSeq(L(s))
  BY DEF FlatMap
<1>3. L(<<>>) = <<>>
  OBVIOUS
<1>8. DOMAIN L(<<>>) = {} /\ \A s : DOMAIN L(s) = DOMAIN s /\ \A i \in DOMAIN s : L(s)[i] = f[s[i]]
  OBVIOUS
<1> HIDE DEF L
<1>9. FlatMap(f, <<>>) = <<>>
  BY <1>2, <1>3, FlattenEmpty
<1>4. ASSUME NEW s \in Seq(S)
      PROVE  /\ FlatMap(f, s) \in Seq(T)
             /\ Range(FlatMap(f, s)) = UNION {Range(f[s[i]]) : i \in DOMAIN s}
  <2>1. DOMAIN L(s) = DOMAIN s /\ \A i \in DOMAIN s : L(s)[i] = f[s[i]]
    BY <1>8
  <2>2. FlattenSeq(L(s)) \in Seq(T) /\ Range(FlattenSeq(L(s))) = UNION {Range(L(s)[i]) : i \in DOMAIN L(s)}
    BY <1>1, FlattenAppend, FlattenRange, EmptySeq
  <2>3. {Range(L(s)[i]) : i \in DOMAIN L(s)} = {Range(f[s[i]]) : i \in DOMAIN s}
    BY <2>1
  <2> QED
    BY <1>2, <2>2, <2>3
<1>5. ASSUME NEW s \in Seq(S), NEW e \in S PROVE FlatMap(f, Append(s, e)) = FlatMap(f, s) \o f[e]
  <2> DEFINE u == Append(s, e)
             l == Append(L(s), f[e])
             n == Len(s)
  <2>1. /\ u \in Seq(S) /\ Len(u) = n + 1 /\ n \in Nat
        /\ (\A i \in 1..n : u[i] = s[i]) /\ u[n + 1] = e
    BY AppendProperties, LenProperties
  <2>2. L(s) \in Seq(Seq(T)) /\ Len(L(s)) = n /\ \A i \in 1..n : L(s)[i] = f[s[i]]
    BY <1>1
  <2>3. L(u) \in Seq(Seq(T)) /\ Len(L(u)) = n + 1 /\ \A i \in 1..(n + 1) : L(u)[i] = f[u[i]]
    BY <1>1, <2>1
  <2> HIDE DEF u, n
  <2>4. f[e] \in Seq(T)
    BY <1>7
  <2>5. /\ l \in Seq(Seq(T)) /\ Len(l) = n + 1
        /\ (\A i \in 1..n : l[i] = L(s)[i]) /\ l[n + 1] = f[e]
    BY <2>2, <2>4, AppendProperties
  <2>6. FlattenSeq(l) = FlattenSeq(L(s)) \o f[e]
    BY <2>2, <2>4, FlattenAppend
  <2> HIDE DEF l
  <2>7. \A i \in 1..(n + 1) : L(u)[i] = l[i]
    <3>1. \A i \in 1..(n + 1) : i \in 1..n \/ i = n + 1
      BY <2>1
    <3>2. n + 1 \in 1..(n + 1) /\ \A i \in 1..n : i \in 1..(n + 1)
      BY <2>1
    <3>3. \A i \in 1..n : L(u)[i] = l[i]
      <4> SUFFICES ASSUME NEW i \in 1..n PROVE L(u)[i] = l[i]
        OBVIOUS
      <4>1. L(u)[i] = f[u[i]] /\ u[i] = s[i]
        BY <2>1, <2>3, <3>2
      <4>2. l[i] = L(s)[i] /\ L(s)[i] = f[s[i]]
        BY <2>2, <2>5
      <4> QED
        BY <4>1, <4>2
    <3>4. L(u)[n + 1] = f[u[n + 1]] /\ u[n + 1] = e /\ l[n + 1] = f[e]
      BY <2>1, <2>3, <2>5, <3>2
    <3> QED
      BY <3>1, <3>3, <3>4
  <2>8. L(u) = l
    BY <2>3, <2>5, <2>7, SeqEqual
  <2> QED
    BY <1>2, <2>6, <2>8 DEF u
<1>6. ASSUME NEW e \in S PROVE FlatMap(f, <<e>>) = f[e]
  <2>1. Append(<<>>, e) = <<e>> /\ <<>> \in Seq(S)
    BY EmptySeq
  <2>2. FlatMap(f, <<e>>) = FlatMap(f, <<>>) \o f[e]
    BY <1>5, <2>1
  <2>3. FlatMap(f, <<>>) = <<>>
    BY <1>9
  <2>4. f[e] \in Seq(T)
    BY <1>7
  <2> QED
    BY <2>2, <2>3, <2>4, ConcatEmptySeq
<1> QED
  BY <1>4, <1>5, <1>6, <1>9

LEMMA FlatMapAppend ==
  ASSUME NEW S, NEW T, NEW f, IsSeqMap(f, S, T), NEW s \in Seq(S), NEW e \in S
  PROVE  FlatMap(f, Append(s, e)) = FlatMap(f, s) \o f[e]
BY FlatMapFacts

LEMMA FlatMapConcat ==
  ASSUME NEW S, NEW T, NEW f, IsSeqMap(f, S, T), NEW a \in Seq(S)
  PROVE  \A b \in Seq(S) : FlatMap(f, a \o b) = FlatMap(f, a) \o FlatMap(f, b)
<1> DEFINE G == {b \in Seq(S) : FlatMap(f, a \o b) = FlatMap(f, a) \o FlatMap(f, b)}
<1>1. FlatMap(f, <<>>) = <<>>
  BY FlatMapFacts
<1>2. <<>> \in G
  <2>1. a \o <<>> = a /\ FlatMap(f, a) \in Seq(T) /\ FlatMap(f, a) \o <<>> = FlatMap(f, a)
    <3>1. FlatMap(f, a) \in Seq(T)
      BY FlatMapFacts
    <3> QED
      BY <3>1, ConcatEmptySeq
  <2> QED
    BY <1>1, <2>1, EmptySeq
<1>3. ASSUME NEW b, NEW e, b \in G, e \in S PROVE Append(b, e) \in G
  <2>7. b \in Seq(S) /\ e \in S
    BY <1>3
  <2> DEFINE ab == a \o b
             x == FlatMap(f, a)
             y == FlatMap(f, b)
             z == f[e]
  <2>1. ab \in Seq(S) /\ a \o Append(b, e) = Append(ab, e) /\ Append(b, e) \in Seq(S)
    <3>1. a \o Append(b, e) = Append(a \o b, e)
      <4>1. <<e>> \in Seq(S) /\ Append(b, e) = b \o <<e>> /\ a \o b \in Seq(S)
        BY <2>7, AppendIsConcat, ConcatProperties
      <4>2. a \o (b \o <<e>>) = (a \o b) \o <<e>>
        BY <2>7, <4>1, ConcatAssociative
      <4>3. (a \o b) \o <<e>> = Append(a \o b, e)
        BY <4>1, AppendIsConcat
      <4> QED
        BY <4>1, <4>2, <4>3
    <3> QED
      BY <2>7, <3>1, ConcatProperties, AppendProperties
  <2>2. x \in Seq(T) /\ y \in Seq(T) /\ z \in Seq(T)
    <3>1. x \in Seq(T) /\ y \in Seq(T)
      BY <2>7, FlatMapFacts
    <3>2. z \in Seq(T)
      BY <2>7 DEF IsSeqMap
    <3> QED
      BY <3>1, <3>2
  <2>3. FlatMap(f, ab) = x \o y
    BY <1>3
  <2>4. FlatMap(f, Append(b, e)) = y \o z
    BY <2>7, FlatMapAppend
  <2> HIDE DEF ab, x, y, z
  <2>5. FlatMap(f, Append(ab, e)) = FlatMap(f, ab) \o z
    BY <2>1, <2>7, FlatMapAppend DEF z
  <2>6. (x \o y) \o z = x \o (y \o z)
    BY <2>2, ConcatAssociative
  <2> QED
    BY <2>1, <2>3, <2>4, <2>5, <2>6 DEF x
<1>4. Seq(S) \subseteq G
  <2> HIDE DEF G
  <2> QED
    BY <1>2, <1>3, SequenceInduction
<1> QED
  BY <1>4

(* Mapping what is flat is mapping its sequences.                          *)
LEMMA FlatMapFlatten ==
  ASSUME NEW S, NEW T, NEW f, IsSeqMap(f, S, T), NEW seqs \in Seq(Seq(S)),
         NEW g, IsSeqMap(g, Seq(S), T), \A s \in Seq(S) : g[s] = FlatMap(f, s)
  PROVE  FlatMap(f, FlattenSeq(seqs)) = FlatMap(g, seqs)
<1> DEFINE G == {l \in Seq(Seq(S)) : FlatMap(f, FlattenSeq(l)) = FlatMap(g, l)}
<1>3. <<>> \in G
  BY FlattenEmpty, FlatMapFacts, EmptySeq
<1>4. ASSUME NEW l, NEW s, l \in G, s \in Seq(S) PROVE Append(l, s) \in G
  <2>4. l \in Seq(Seq(S)) /\ s \in Seq(S)
    BY <1>4
  <2>1. FlattenSeq(l) \in Seq(S) /\ FlattenSeq(Append(l, s)) = FlattenSeq(l) \o s
    BY <2>4, FlattenAppend
  <2>2. FlatMap(f, FlattenSeq(l) \o s) = FlatMap(f, FlattenSeq(l)) \o FlatMap(f, s)
    <3> DEFINE a == FlattenSeq(l)
    <3>1. a \in Seq(S)
      BY <2>1
    <3> HIDE DEF a
    <3>2. \A v \in Seq(S) : FlatMap(f, a \o v) = FlatMap(f, a) \o FlatMap(f, v)
      BY <3>1, FlatMapConcat
    <3> QED
      BY <2>4, <3>2 DEF a
  <2>3. FlatMap(g, Append(l, s)) = FlatMap(g, l) \o g[s]
    <3> DEFINE V == Seq(S)
    <3>1. IsSeqMap(g, V, T) /\ l \in Seq(V) /\ s \in V
      BY <2>4
    <3> HIDE DEF V
    <3> QED
      BY <3>1, FlatMapAppend
  <2> QED
    BY <1>4, <2>1, <2>2, <2>3, <2>4, AppendProperties
<1>5. Seq(Seq(S)) \subseteq G
  <2> HIDE DEF G
  <2> QED
    BY <1>3, <1>4, SequenceInduction
<1> QED
  BY <1>5
=============================================================================
