----------------------- MODULE StreamTranslatorProofs -----------------------
(***************************************************************************)
(* What a stream says, for every number of parts, in every order, of any   *)
(* kind, signed or not, and however it ends.                               *)
(*                                                                         *)
(* The proof has three layers: what a client reads when one more event is  *)
(* sent (Reads, ChatReads); what each handler sends, in terms of that      *)
(* (Followed, ChatFollowed); and the invariant that the translator's flags *)
(* and texts are what the client has read (StreamInv).                     *)
(***************************************************************************)
EXTENDS StreamTranslator, FiniteSetTheorems, SequenceTheorems, FoldLemmas, TLAPS

Names == {"reasoning", "message", "function_call", "none"} \X Nat

FinishReasons == {"content_filter", "tool_calls", "length", "stop"}

(* What a text is made of: pieces, a finish reason, or listed items. *)
Bits == Nat \cup FinishReasons \cup (Names \X Seq(Nat))

EventTypes ==
  {"response.created", "output_item.added", "output_item.done", "content_part.added",
   "content_part.done", "output_text.done", "reasoning_text.delta", "output_text.delta",
   "refusal.delta", "function_call_arguments.delta", "function_call_arguments.done",
   "response.completed", "response.incomplete", "chat.content", "chat.reasoning_content",
   "chat.tool_calls", "chat.refusal", "chat.finish", "chat.usage", "[DONE]", "error"}

Events == [type : EventTypes, item : Names, index : Nat, text : Seq(Bits)]

LEMMA ItemNames ==
  /\ {Reasoning, Message, NoItem} \subseteq Names
  /\ \A n \in Nat : Call(n) \in Names /\ Call(n) \notin {Reasoning, Message, NoItem}
  /\ \A m, n \in Nat : Call(m) = Call(n) => m = n
  /\ Reasoning # Message /\ Reasoning # NoItem /\ Message # NoItem
BY DEF Names, Reasoning, Message, NoItem, Call

(* One more event at the end: every position before it reads as it did.    *)
LEMMA Longer ==
  ASSUME NEW L \in Seq(Events), NEW e \in Events
  PROVE  /\ Len(L) \in Nat /\ DOMAIN L = 1..Len(L)
         /\ Append(L, e) \in Seq(Events) /\ DOMAIN Append(L, e) = 1..(Len(L) + 1)
         /\ Len(Append(L, e)) = Len(L) + 1
         /\ \A i \in 1..Len(L) : L[i] \in Events /\ Append(L, e)[i] = L[i]
         /\ Append(L, e)[Len(L) + 1] = e
<1>1. Len(L) \in Nat /\ DOMAIN L = 1..Len(L) /\ \A i \in 1..Len(L) : L[i] \in Events
  BY LenProperties, ElementOfSeq
<1>2. /\ Append(L, e) \in Seq(Events) /\ Len(Append(L, e)) = Len(L) + 1
      /\ \A i \in 1..Len(L) : Append(L, e)[i] = L[i]
      /\ Append(L, e)[Len(L) + 1] = e
  BY AppendProperties
<1>3. DOMAIN Append(L, e) = 1..(Len(L) + 1)
  BY <1>2, LenProperties
<1> QED
  BY <1>1, <1>2, <1>3

LEMMA OfMore ==
  ASSUME NEW L \in Seq(Events), NEW e \in Events, NEW type, NEW item
  PROVE  Of(Append(L, e), type, item)
           = Of(L, type, item) \cup (IF e.type = type /\ e.item = item THEN {Len(L) + 1} ELSE {})
<1> DEFINE M == Append(L, e)
           n == Len(L)
<1>1. /\ n \in Nat /\ DOMAIN L = 1..n /\ DOMAIN M = 1..(n + 1)
      /\ \A i \in 1..n : M[i] = L[i]
      /\ M[n + 1] = e
  BY Longer
<1> HIDE DEF M, n
<1> QED
  BY <1>1 DEF Of, M, n

LEMMA ToolCallsMore ==
  ASSUME NEW L \in Seq(Events), NEW e \in Events
  PROVE  ToolCalls(Append(L, e))
           = ToolCalls(L) \cup (IF e.type = "chat.tool_calls" THEN {Len(L) + 1} ELSE {})
<1> DEFINE M == Append(L, e)
           n == Len(L)
<1>1. /\ n \in Nat /\ DOMAIN L = 1..n /\ DOMAIN M = 1..(n + 1)
      /\ \A i \in 1..n : M[i] = L[i]
      /\ M[n + 1] = e
  BY Longer
<1> HIDE DEF M, n
<1> QED
  BY <1>1 DEF ToolCalls, M, n

(* What all events of some types and an item say, one after the other.     *)
TextMap(types, item) ==
  [e \in Events |-> IF e.type \in types /\ e.item = item THEN e.text ELSE <<>>]

LEMMA AssembledAsMap ==
  ASSUME NEW types, NEW item
  PROVE  LET f == TextMap(types, item)
         IN  /\ IsSeqMap(f, Events, Bits)
             /\ \A e \in Events : f[e] = IF e.type \in types /\ e.item = item THEN e.text ELSE <<>>
             /\ \A L \in Seq(Events) : Assembled(L, types, item) = FlatMap(f, L)
<1> DEFINE f == TextMap(types, item)
<1>1. IsSeqMap(f, Events, Bits)
  <2>1. \A e \in Events : (IF e.type \in types /\ e.item = item THEN e.text ELSE <<>>) \in Seq(Bits)
    BY EmptySeq DEF Events
  <2> QED
    BY <2>1 DEF IsSeqMap, TextMap
<1>2. \A e \in Events : f[e] = IF e.type \in types /\ e.item = item THEN e.text ELSE <<>>
  BY DEF TextMap
<1> HIDE DEF f
<1>3. \A L \in Seq(Events) : Assembled(L, types, item) = FlatMap(f, L)
  <2> SUFFICES ASSUME NEW L \in Seq(Events) PROVE Assembled(L, types, item) = FlatMap(f, L)
    OBVIOUS
  <2>1. \A i \in DOMAIN L : L[i] \in Events
    BY LenProperties, ElementOfSeq
  <2>2. [i \in DOMAIN L |-> IF L[i].type \in types /\ L[i].item = item THEN L[i].text ELSE <<>>]
          = [i \in DOMAIN L |-> f[L[i]]]
    BY <1>2, <2>1
  <2> QED
    BY <2>2 DEF Assembled, FlatMap
<1> QED
  BY <1>1, <1>2, <1>3 DEF f

LEMMA AssembledKind ==
  ASSUME NEW types, NEW item
  PROVE  /\ Assembled(<<>>, types, item) = <<>>
         /\ \A L \in Seq(Events) : Assembled(L, types, item) \in Seq(Bits)
<1> DEFINE f == TextMap(types, item)
<1>1. /\ IsSeqMap(f, Events, Bits)
      /\ \A L \in Seq(Events) : Assembled(L, types, item) = FlatMap(f, L)
  BY AssembledAsMap
<1> HIDE DEF f
<1>2. FlatMap(f, <<>>) = <<>> /\ \A L \in Seq(Events) : FlatMap(f, L) \in Seq(Bits)
  BY <1>1, FlatMapFacts
<1>3. <<>> \in Seq(Events)
  BY EmptySeq
<1> QED
  BY <1>1, <1>2, <1>3

LEMMA AssembledStep ==
  ASSUME NEW L \in Seq(Events), NEW e \in Events, NEW types, NEW item
  PROVE  Assembled(Append(L, e), types, item)
           = IF e.type \in types /\ e.item = item
             THEN Assembled(L, types, item) \o e.text ELSE Assembled(L, types, item)
<1> DEFINE f == TextMap(types, item)
<1>1. /\ IsSeqMap(f, Events, Bits)
      /\ f[e] = IF e.type \in types /\ e.item = item THEN e.text ELSE <<>>
      /\ \A K \in Seq(Events) : Assembled(K, types, item) = FlatMap(f, K)
  BY AssembledAsMap
<1> HIDE DEF f
<1>2. FlatMap(f, Append(L, e)) = FlatMap(f, L) \o f[e]
  <2>1. IsSeqMap(f, Events, Bits)
    BY <1>1
  <2> QED
    BY <2>1, FlatMapAppend
<1>3. Append(L, e) \in Seq(Events)
  BY Longer
<1>4. FlatMap(f, L) \o <<>> = FlatMap(f, L)
  BY <1>1, FlatMapFacts, ConcatEmptySeq
<1>5. /\ Assembled(Append(L, e), types, item) = FlatMap(f, L) \o f[e]
      /\ Assembled(L, types, item) = FlatMap(f, L)
  BY <1>1, <1>2, <1>3
<1> QED
  BY <1>1, <1>4, <1>5

CallMap == [e \in Events |-> IF e.type = "chat.tool_calls" THEN e.text ELSE <<>>]

LEMMA CallsAssembledMore ==
  /\ CallsAssembled(<<>>) = <<>>
  /\ \A L \in Seq(Events) : CallsAssembled(L) \in Seq(Bits)
  /\ \A L \in Seq(Events), e \in Events :
       CallsAssembled(Append(L, e))
         = IF e.type = "chat.tool_calls" THEN CallsAssembled(L) \o e.text ELSE CallsAssembled(L)
<1> DEFINE f == CallMap
<1>1. IsSeqMap(f, Events, Bits)
  <2>1. \A e \in Events : (IF e.type = "chat.tool_calls" THEN e.text ELSE <<>>) \in Seq(Bits)
    BY EmptySeq DEF Events
  <2> QED
    BY <2>1 DEF IsSeqMap, CallMap
<1>2. \A e \in Events : f[e] = IF e.type = "chat.tool_calls" THEN e.text ELSE <<>>
  BY DEF CallMap
<1> HIDE DEF f
<1>3. \A L \in Seq(Events) : CallsAssembled(L) = FlatMap(f, L)
  <2> SUFFICES ASSUME NEW L \in Seq(Events) PROVE CallsAssembled(L) = FlatMap(f, L)
    OBVIOUS
  <2>1. \A i \in DOMAIN L : L[i] \in Events
    BY LenProperties, ElementOfSeq
  <2>2. [i \in DOMAIN L |-> IF i \in ToolCalls(L) THEN L[i].text ELSE <<>>]
          = [i \in DOMAIN L |-> f[L[i]]]
    BY <1>2, <2>1 DEF ToolCalls
  <2> QED
    BY <2>2 DEF CallsAssembled, FlatMap
<1>4. \A L \in Seq(Events) : FlatMap(f, L) \in Seq(Bits)
  BY <1>1, FlatMapFacts
<1>5. ASSUME NEW L \in Seq(Events), NEW e \in Events
      PROVE  CallsAssembled(Append(L, e))
               = IF e.type = "chat.tool_calls" THEN CallsAssembled(L) \o e.text ELSE CallsAssembled(L)
  <2>1. FlatMap(f, Append(L, e)) = FlatMap(f, L) \o f[e]
    BY <1>1, FlatMapAppend
  <2>2. Append(L, e) \in Seq(Events)
    BY Longer
  <2>3. FlatMap(f, L) \o <<>> = FlatMap(f, L)
    BY <1>4, ConcatEmptySeq
  <2> QED
    BY <1>2, <1>3, <2>1, <2>2, <2>3
<1>6. CallsAssembled(<<>>) = <<>>
  <2>1. <<>> \in Seq(Events)
    BY EmptySeq
  <2>2. FlatMap(f, <<>>) = <<>>
    BY <1>1, FlatMapFacts
  <2> QED
    BY <1>3, <2>1, <2>2
<1> QED
  BY <1>3, <1>4, <1>5, <1>6

-----------------------------------------------------------------------------
(* What a client has read from the events so far. *)
DoneItems(L) == {L[i].item : i \in {j \in DOMAIN L : L[j].type = "output_item.done"}}

MessageDones == {"output_text.done", "content_part.done", "output_item.done"}

(* Something has been said about the whole message. *)
Over(L) == \E i \in DOMAIN L : L[i].type \in MessageDones /\ L[i].item = Message

TerminalTypes == {"response.completed", "response.incomplete"}

Terminals(L) == {i \in DOMAIN L : L[i].type \in TerminalTypes}

ShownTypes == {"output_text.delta", "refusal.delta", "chat.content",
               "chat.refusal", "chat.tool_calls", "output_item.done"}

Shows(e) == e.type \in ShownTypes /\ e.item # Reasoning /\ e.text # <<>>

Shown(L) == \E i \in DOMAIN L : Shows(L[i])

LEMMA AddedMore ==
  ASSUME NEW L \in Seq(Events), NEW e \in Events
  PROVE  /\ Added(Append(L, e))
              = Added(L) \cup (IF e.type = "output_item.added" THEN {e.item} ELSE {})
         /\ DoneItems(Append(L, e))
              = DoneItems(L) \cup (IF e.type = "output_item.done" THEN {e.item} ELSE {})
<1> DEFINE M == Append(L, e)
           n == Len(L)
<1>1. /\ n \in Nat /\ DOMAIN L = 1..n /\ DOMAIN M = 1..(n + 1)
      /\ \A i \in 1..n : M[i] = L[i]
      /\ M[n + 1] = e
  BY Longer
<1> HIDE DEF M, n
<1>2. \A i \in 1..(n + 1) : i \in 1..n \/ i = n + 1
  BY <1>1
<1>3. 1..n \subseteq 1..(n + 1) /\ n + 1 \in 1..(n + 1)
  BY <1>1
<1>4. Added(M) = Added(L) \cup (IF e.type = "output_item.added" THEN {e.item} ELSE {})
  BY <1>1, <1>2, <1>3 DEF Added
<1>5. DoneItems(M) = DoneItems(L) \cup (IF e.type = "output_item.done" THEN {e.item} ELSE {})
  BY <1>1, <1>2, <1>3 DEF DoneItems
<1> QED
  BY <1>4, <1>5 DEF M

LEMMA SeenMore ==
  ASSUME NEW L \in Seq(Events), NEW e \in Events
  PROVE  /\ Over(Append(L, e)) <=> Over(L) \/ (e.type \in MessageDones /\ e.item = Message)
         /\ Shown(Append(L, e)) <=> Shown(L) \/ Shows(e)
         /\ Terminals(Append(L, e))
              = Terminals(L) \cup (IF e.type \in TerminalTypes THEN {Len(L) + 1} ELSE {})
<1> DEFINE M == Append(L, e)
           n == Len(L)
<1>1. /\ n \in Nat /\ DOMAIN L = 1..n /\ DOMAIN M = 1..(n + 1)
      /\ \A i \in 1..n : M[i] = L[i]
      /\ M[n + 1] = e
  BY Longer
<1> HIDE DEF M, n
<1>2. \A i \in 1..(n + 1) : i \in 1..n \/ i = n + 1
  BY <1>1
<1>3. 1..n \subseteq 1..(n + 1) /\ n + 1 \in 1..(n + 1)
  BY <1>1
<1>4. Over(M) <=> Over(L) \/ (e.type \in MessageDones /\ e.item = Message)
  BY <1>1, <1>2, <1>3 DEF Over
<1>5. Shown(M) <=> Shown(L) \/ Shows(e)
  BY <1>1, <1>2, <1>3 DEF Shown
<1>6. Terminals(M) = Terminals(L) \cup (IF e.type \in TerminalTypes THEN {n + 1} ELSE {})
  BY <1>1, <1>2, <1>3 DEF Terminals
<1> QED
  BY <1>4, <1>5, <1>6 DEF M, n

(* The events so far are what the properties ask of them, one by one. *)
Kept(L) == L \in Seq(Events) /\ ItemsPaired(L) /\ MessageDoneIsWhole(L) /\ ToolIndexesCount(L)

(* An event that may come next. *)
Fits(L, e) ==
  /\ e \in Events
  /\ e.type = "output_item.added" => e.item \notin Added(L)
  /\ e.type \in Deltas \cup {"output_item.done"} => e.item \in Added(L)
  /\ e.type = "output_item.done" => e.item \notin DoneItems(L)
  /\ e.type \in Deltas /\ e.item = Message => ~Over(L)
  /\ e.type \in MessageDones /\ e.item = Message => e.text = Assembled(L, Deltas, Message)
  /\ e.type = "chat.tool_calls" => e.index = Cardinality(ToolCalls(L))

LEMMA PairedMore ==
  ASSUME NEW L, NEW e, Kept(L), Fits(L, e)
  PROVE  ItemsPaired(Append(L, e))
<1> DEFINE M == Append(L, e)
           n == Len(L)
           A(item) == Of(L, "output_item.added", item)
           D(item) == Of(L, "output_item.done", item)
<1>1. L \in Seq(Events) /\ e \in Events
  BY DEF Kept, Fits
<1>2. /\ n \in Nat /\ DOMAIN L = 1..n /\ DOMAIN M = 1..(n + 1)
      /\ \A i \in 1..n : M[i] = L[i]
      /\ M[n + 1] = e
  BY <1>1, Longer
<1>3. \A item : /\ item \in Added(L) <=> A(item) # {}
                /\ item \in DoneItems(L) <=> D(item) # {}
                /\ A(item) \subseteq 1..n /\ D(item) \subseteq 1..n
  BY <1>2 DEF Added, DoneItems, Of
<1>4. \A i \in 1..n : L[i].type \in Deltas \cup {"output_item.done"} => \E j \in A(L[i].item) : j < i
  BY <1>2 DEF Kept, ItemsPaired
<1>5. \A item : D(item) # {} => item \in Added(L)
  <2> SUFFICES ASSUME NEW item, NEW i \in D(item) PROVE item \in Added(L)
    OBVIOUS
  <2>1. i \in 1..n /\ L[i].type = "output_item.done" /\ L[i].item = item
    BY <1>2 DEF Of
  <2> QED
    BY <1>3, <1>4, <2>1
<1>6. \A item : /\ \A i, j \in A(item) : i = j
                /\ \A i, j \in D(item) : i = j
  BY <1>3, <1>5 DEF Kept, ItemsPaired
<1>7. /\ \A item : Of(M, "output_item.added", item)
                     = A(item) \cup (IF e.type = "output_item.added" /\ e.item = item THEN {n + 1} ELSE {})
      /\ \A item : Of(M, "output_item.done", item)
                     = D(item) \cup (IF e.type = "output_item.done" /\ e.item = item THEN {n + 1} ELSE {})
  BY <1>1, OfMore
<1>8. /\ e.type = "output_item.added" => A(e.item) = {}
      /\ e.type = "output_item.done" => D(e.item) = {}
      /\ e.type \in Deltas \cup {"output_item.done"} => A(e.item) # {}
  BY <1>3 DEF Fits
<1> HIDE DEF M, n, A, D
<1>9. \A item : /\ \A i, j \in Of(M, "output_item.added", item) : i = j
                /\ \A i, j \in Of(M, "output_item.done", item) : i = j
  <2> SUFFICES ASSUME NEW item
               PROVE  /\ \A i, j \in Of(M, "output_item.added", item) : i = j
                      /\ \A i, j \in Of(M, "output_item.done", item) : i = j
    OBVIOUS
  <2>1. \A i, j \in Of(M, "output_item.added", item) : i = j
    BY <1>6, <1>7, <1>8
  <2>2. \A i, j \in Of(M, "output_item.done", item) : i = j
    BY <1>6, <1>7, <1>8
  <2> QED
    BY <2>1, <2>2
<1>10. ASSUME NEW i \in DOMAIN M, M[i].type \in Deltas \cup {"output_item.done"}
       PROVE  \E j \in Of(M, "output_item.added", M[i].item) : j < i
  <2>1. CASE i \in 1..n
    <3>1. M[i] = L[i]
      BY <1>2, <2>1
    <3>2. \E j \in A(L[i].item) : j < i
      BY <1>4, <1>10, <2>1, <3>1
    <3> QED
      BY <1>7, <3>1, <3>2
  <2>2. CASE i = n + 1
    <3>1. M[i] = e /\ A(e.item) # {}
      BY <1>2, <1>8, <1>10, <2>2
    <3>2. \A j \in A(e.item) : j < n + 1
      BY <1>2, <1>3
    <3> QED
      BY <1>7, <2>2, <3>1, <3>2
  <2> QED
    BY <1>2, <2>1, <2>2
<1>11. ItemsPaired(M)
  BY <1>9, <1>10 DEF ItemsPaired
<1> QED
  BY <1>11 DEF M

LEMMA WholeMore ==
  ASSUME NEW L, NEW e, Kept(L), Fits(L, e)
  PROVE  MessageDoneIsWhole(Append(L, e))
<1> DEFINE M == Append(L, e)
           n == Len(L)
           whole == Assembled(L, Deltas, Message)
<1>1. L \in Seq(Events) /\ e \in Events
  BY DEF Kept, Fits
<1>2. /\ n \in Nat /\ DOMAIN L = 1..n /\ DOMAIN M = 1..(n + 1)
      /\ \A i \in 1..n : M[i] = L[i]
      /\ M[n + 1] = e
  BY <1>1, Longer
<1>3. Assembled(M, Deltas, Message)
        = IF e.type \in Deltas /\ e.item = Message THEN whole \o e.text ELSE whole
  BY <1>1, AssembledStep
<1>4. Deltas \cap MessageDones = {}
  BY DEF Deltas, MessageDones
<1>5. /\ e.type \in Deltas /\ e.item = Message => ~Over(L)
      /\ e.type \in MessageDones /\ e.item = Message => e.text = whole
  BY DEF Fits
<1>6. \A i \in 1..n : L[i].type \in MessageDones /\ L[i].item = Message => L[i].text = whole /\ Over(L)
  BY <1>2 DEF Kept, MessageDoneIsWhole, Of, Over, MessageDones
<1> HIDE DEF M, n, whole
<1>7. ASSUME NEW i \in DOMAIN M, M[i].type \in MessageDones, M[i].item = Message
      PROVE  M[i].text = Assembled(M, Deltas, Message)
  <2>1. CASE i \in 1..n
    <3>1. M[i] = L[i]
      BY <1>2, <2>1
    <3> QED
      BY <1>3, <1>5, <1>6, <1>7, <2>1, <3>1
  <2>2. CASE i = n + 1
    <3>1. M[i] = e
      BY <1>2, <2>2
    <3> QED
      BY <1>3, <1>4, <1>5, <1>7, <3>1
  <2> QED
    BY <1>2, <2>1, <2>2
<1>8. MessageDoneIsWhole(M)
  BY <1>7 DEF MessageDoneIsWhole, Of, MessageDones
<1> QED
  BY <1>8 DEF M

LEMMA IndexesMore ==
  ASSUME NEW L, NEW e, Kept(L), Fits(L, e)
  PROVE  ToolIndexesCount(Append(L, e))
<1> DEFINE M == Append(L, e)
           n == Len(L)
<1>1. L \in Seq(Events) /\ e \in Events
  BY DEF Kept, Fits
<1>2. /\ n \in Nat /\ DOMAIN L = 1..n /\ DOMAIN M = 1..(n + 1)
      /\ \A i \in 1..n : M[i] = L[i]
      /\ M[n + 1] = e
  BY <1>1, Longer
<1>3. ToolCalls(M) = ToolCalls(L) \cup (IF e.type = "chat.tool_calls" THEN {n + 1} ELSE {})
  BY <1>1, ToolCallsMore
<1>4. ToolCalls(L) \subseteq 1..n
  BY <1>2 DEF ToolCalls
<1>5. \A i \in ToolCalls(L) : L[i].index = Cardinality({j \in ToolCalls(L) : j < i})
  BY DEF Kept, ToolIndexesCount
<1>6. e.type = "chat.tool_calls" => e.index = Cardinality(ToolCalls(L))
  BY DEF Fits
<1> HIDE DEF M, n
<1>7. ASSUME NEW i \in ToolCalls(M)
      PROVE  M[i].index = Cardinality({j \in ToolCalls(M) : j < i})
  <2>1. CASE i \in ToolCalls(L)
    <3>1. i \in 1..n /\ M[i] = L[i]
      BY <1>2, <1>4, <2>1
    <3>2. {j \in ToolCalls(M) : j < i} = {j \in ToolCalls(L) : j < i}
      BY <1>2, <1>3, <1>4, <3>1
    <3> QED
      BY <1>5, <2>1, <3>1, <3>2
  <2>2. CASE i = n + 1 /\ e.type = "chat.tool_calls"
    <3>1. {j \in ToolCalls(M) : j < i} = ToolCalls(L)
      BY <1>2, <1>3, <1>4, <2>2
    <3> QED
      BY <1>2, <1>6, <2>2, <3>1
  <2> QED
    BY <1>3, <1>7, <2>1, <2>2
<1>8. ToolIndexesCount(M)
  BY <1>7 DEF ToolIndexesCount
<1> QED
  BY <1>8 DEF M

LEMMA KeptMore ==
  ASSUME NEW L, NEW e, Kept(L), Fits(L, e)
  PROVE  Kept(Append(L, e))
<1>1. Append(L, e) \in Seq(Events)
  BY AppendProperties DEF Kept, Fits
<1> QED
  BY <1>1, PairedMore, WholeMore, IndexesMore DEF Kept

(* Nothing has been sent yet. *)
LEMMA KeptNothing ==
  /\ Kept(<<>>) /\ Added(<<>>) = {} /\ DoneItems(<<>>) = {} /\ ~Over(<<>>) /\ ~Shown(<<>>)
  /\ Terminals(<<>>) = {} /\ ToolCalls(<<>>) = {} /\ \A type, item : Of(<<>>, type, item) = {}
<1>1. DOMAIN <<>> = {} /\ <<>> \in Seq(Events)
  BY EmptySeq
<1>2. /\ Added(<<>>) = {} /\ DoneItems(<<>>) = {} /\ ~Over(<<>>) /\ ~Shown(<<>>)
      /\ Terminals(<<>>) = {} /\ ToolCalls(<<>>) = {} /\ \A type, item : Of(<<>>, type, item) = {}
  BY <1>1 DEF Added, DoneItems, Over, Shown, Terminals, ToolCalls, Of
<1> QED
  BY <1>1, <1>2 DEF Kept, ItemsPaired, MessageDoneIsWhole, ToolIndexesCount
-----------------------------------------------------------------------------
(* What a client of the responses endpoint has read: the items announced   *)
(* and done, whether the message is over, and what each item says.         *)
Reads(L, announced, done, over, text) ==
  /\ Kept(L)
  /\ Added(L) = announced
  /\ DoneItems(L) = done
  /\ Over(L) <=> over
  /\ Terminals(L) = {}
  /\ \A item \in Names : Assembled(L, Deltas, item) = text[item]

ChatTypes == {"chat.content", "chat.reasoning_content", "chat.tool_calls", "chat.refusal"}

Saying(text, item, more) == [i \in Names |-> IF i = item THEN text[i] \o more ELSE text[i]]

(* One event that begins, continues or ends nothing. *)
LEMMA ReadNeutral ==
  ASSUME NEW L, NEW announced, NEW done, NEW over, NEW text, Reads(L, announced, done, over, text),
         NEW e \in Events,
         e.type \notin {"output_item.added", "chat.tool_calls"} \cup Deltas \cup MessageDones \cup TerminalTypes
  PROVE  Reads(Append(L, e), announced, done, over, text) /\ (Shown(L) => Shown(Append(L, e)))
<1>1. Fits(L, e)
  BY DEF Fits, MessageDones
<1>2. L \in Seq(Events)
  BY DEF Reads, Kept
<1>3. Kept(Append(L, e))
  BY <1>1, KeptMore DEF Reads
<1>4. Added(Append(L, e)) = Added(L) /\ DoneItems(Append(L, e)) = DoneItems(L)
  BY <1>2, AddedMore DEF MessageDones
<1>5. /\ Over(Append(L, e)) <=> Over(L)
      /\ Shown(L) => Shown(Append(L, e))
      /\ Terminals(Append(L, e)) = Terminals(L)
  BY <1>2, SeenMore
<1>6. \A item : Assembled(Append(L, e), Deltas, item) = Assembled(L, Deltas, item)
  BY <1>2, AssembledStep
<1> QED
  BY <1>3, <1>4, <1>5, <1>6 DEF Reads

(* An item is announced. *)
LEMMA ReadAdded ==
  ASSUME NEW L, NEW announced, NEW done, NEW over, NEW text, Reads(L, announced, done, over, text),
         NEW e \in Events, e.type = "output_item.added", e.item \notin announced
  PROVE  /\ Reads(Append(L, e), announced \cup {e.item}, done, over, text)
         /\ Shown(L) => Shown(Append(L, e))
<1>1. e.type \notin Deltas \cup MessageDones \cup TerminalTypes \cup {"chat.tool_calls", "output_item.done"}
  BY DEF Deltas, MessageDones, TerminalTypes
<1>2. Fits(L, e)
  BY <1>1 DEF Fits, Reads
<1>3. L \in Seq(Events)
  BY DEF Reads, Kept
<1>4. Kept(Append(L, e))
  BY <1>2, KeptMore DEF Reads
<1>5. Added(Append(L, e)) = Added(L) \cup {e.item} /\ DoneItems(Append(L, e)) = DoneItems(L)
  BY <1>1, <1>3, AddedMore
<1>6. /\ Over(Append(L, e)) <=> Over(L)
      /\ Shown(L) => Shown(Append(L, e))
      /\ Terminals(Append(L, e)) = Terminals(L)
  BY <1>1, <1>3, SeenMore
<1>7. \A item : Assembled(Append(L, e), Deltas, item) = Assembled(L, Deltas, item)
  BY <1>1, <1>3, AssembledStep
<1> QED
  BY <1>4, <1>5, <1>6, <1>7 DEF Reads

(* An announced item says more. *)
LEMMA ReadDelta ==
  ASSUME NEW L, NEW announced, NEW done, NEW over, NEW text, Reads(L, announced, done, over, text),
         NEW e \in Events, e.type \in Deltas, e.item \in announced, e.item = Message => ~over
  PROVE  /\ Reads(Append(L, e), announced, done, over, Saying(text, e.item, e.text))
         /\ Shown(L) \/ Shows(e) => Shown(Append(L, e))
<1>1. e.type \notin MessageDones \cup TerminalTypes \cup {"chat.tool_calls", "output_item.done", "output_item.added"}
  BY DEF Deltas, MessageDones, TerminalTypes
<1>2. Fits(L, e)
  BY <1>1 DEF Fits, Reads
<1>3. L \in Seq(Events)
  BY DEF Reads, Kept
<1>4. Kept(Append(L, e))
  BY <1>2, KeptMore DEF Reads
<1>5. Added(Append(L, e)) = Added(L) /\ DoneItems(Append(L, e)) = DoneItems(L)
  BY <1>1, <1>3, AddedMore
<1>6. /\ Over(Append(L, e)) <=> Over(L)
      /\ Shown(L) \/ Shows(e) => Shown(Append(L, e))
      /\ Terminals(Append(L, e)) = Terminals(L)
  BY <1>1, <1>3, SeenMore
<1>7. \A item : Assembled(Append(L, e), Deltas, item)
                  = IF e.item = item THEN Assembled(L, Deltas, item) \o e.text ELSE Assembled(L, Deltas, item)
  BY <1>1, <1>3, AssembledStep
<1>8. \A item \in Names : Assembled(Append(L, e), Deltas, item) = Saying(text, e.item, e.text)[item]
  BY <1>7 DEF Reads, Saying
<1> QED
  BY <1>4, <1>5, <1>6, <1>8 DEF Reads

(* The whole text of the message is told. *)
LEMMA ReadWhole ==
  ASSUME NEW L, NEW announced, NEW done, NEW over, NEW text, Reads(L, announced, done, over, text),
         NEW e \in Events, e.type \in {"output_text.done", "content_part.done"},
         e.item = Message, e.text = text[Message]
  PROVE  Reads(Append(L, e), announced, done, TRUE, text) /\ (Shown(L) => Shown(Append(L, e)))
<1>1. /\ e.type \notin TerminalTypes \cup Deltas \cup {"chat.tool_calls", "output_item.done", "output_item.added"}
      /\ e.type \in MessageDones
  BY DEF Deltas, MessageDones, TerminalTypes
<1>2. Fits(L, e)
  BY <1>1, ItemNames DEF Fits, Reads
<1>3. L \in Seq(Events)
  BY DEF Reads, Kept
<1>4. Kept(Append(L, e))
  BY <1>2, KeptMore DEF Reads
<1>5. Added(Append(L, e)) = Added(L) /\ DoneItems(Append(L, e)) = DoneItems(L)
  BY <1>1, <1>3, AddedMore
<1>6. /\ Over(Append(L, e))
      /\ Shown(L) => Shown(Append(L, e))
      /\ Terminals(Append(L, e)) = Terminals(L)
  BY <1>1, <1>3, SeenMore
<1>7. \A item : Assembled(Append(L, e), Deltas, item) = Assembled(L, Deltas, item)
  BY <1>1, <1>3, AssembledStep
<1> QED
  BY <1>4, <1>5, <1>6, <1>7 DEF Reads

(* An announced item is done. *)
LEMMA ReadDone ==
  ASSUME NEW L, NEW announced, NEW done, NEW over, NEW text, Reads(L, announced, done, over, text),
         NEW e \in Events, e.type = "output_item.done",
         e.item \in announced, e.item \notin done, e.item = Message => e.text = text[Message]
  PROVE  /\ Reads(Append(L, e), announced, done \cup {e.item}, over \/ e.item = Message, text)
         /\ Shown(L) \/ Shows(e) => Shown(Append(L, e))
<1>1. /\ e.type \notin TerminalTypes \cup Deltas \cup {"chat.tool_calls", "output_item.added"}
      /\ e.type \in MessageDones
  BY DEF Deltas, MessageDones, TerminalTypes
<1>2. Fits(L, e)
  BY <1>1, ItemNames DEF Fits, Reads
<1>3. L \in Seq(Events)
  BY DEF Reads, Kept
<1>4. Kept(Append(L, e))
  BY <1>2, KeptMore DEF Reads
<1>5. Added(Append(L, e)) = Added(L) /\ DoneItems(Append(L, e)) = DoneItems(L) \cup {e.item}
  BY <1>1, <1>3, AddedMore
<1>6. /\ Over(Append(L, e)) <=> Over(L) \/ e.item = Message
      /\ Shown(L) \/ Shows(e) => Shown(Append(L, e))
      /\ Terminals(Append(L, e)) = Terminals(L)
  BY <1>1, <1>3, SeenMore
<1>7. \A item : Assembled(Append(L, e), Deltas, item) = Assembled(L, Deltas, item)
  BY <1>1, <1>3, AssembledStep
<1> QED
  BY <1>4, <1>5, <1>6, <1>7 DEF Reads

LEMMA ReadItemDone ==
  ASSUME NEW L, NEW announced, NEW done, NEW over, NEW text, Reads(L, announced, done, over, text),
         NEW e \in Events, e.type = "output_item.done",
         e.item \in announced, e.item \notin done, e.item # Message
  PROVE  /\ Reads(Append(L, e), announced, done \cup {e.item}, over, text)
         /\ Shown(L) \/ Shows(e) => Shown(Append(L, e))
<1>1. /\ Reads(Append(L, e), announced, done \cup {e.item}, over \/ e.item = Message, text)
      /\ Shown(L) \/ Shows(e) => Shown(Append(L, e))
  BY ReadDone
<1> QED
  BY <1>1 DEF Reads

LEMMA ReadMessageDone ==
  ASSUME NEW L, NEW announced, NEW done, NEW over, NEW text, Reads(L, announced, done, over, text),
         NEW e \in Events, e.type = "output_item.done",
         Message \in announced, Message \notin done, e.item = Message, e.text = text[Message]
  PROVE  /\ Reads(Append(L, e), announced, done \cup {Message}, TRUE, text)
         /\ Shown(L) \/ Shows(e) => Shown(Append(L, e))
<1>1. /\ Reads(Append(L, e), announced, done \cup {e.item}, over \/ e.item = Message, text)
      /\ Shown(L) \/ Shows(e) => Shown(Append(L, e))
  BY ReadDone
<1> QED
  BY <1>1 DEF Reads

(* The same client, said differently. *)
LEMMA ReadsSame ==
  ASSUME NEW L, NEW announced, NEW done, NEW over, NEW text, Reads(L, announced, done, over, text),
         NEW announced2, announced2 = announced, NEW done2, done2 = done,
         NEW text2, \A item \in Names : text2[item] = text[item]
  PROVE  Reads(L, announced2, done2, over, text2)
BY DEF Reads

(* The response is over. *)
LEMMA ReadTerminal ==
  ASSUME NEW L, NEW announced, NEW done, NEW over, NEW text, Reads(L, announced, done, over, text),
         NEW e \in Events, e.type \in TerminalTypes
  PROVE  LET M == Append(L, e)
         IN  /\ Kept(M) /\ Added(M) = announced /\ DoneItems(M) = done
             /\ Terminals(M) = {Len(M)} /\ Last(M) = e
             /\ \A item \in Names : Assembled(M, Deltas, item) = text[item]
             /\ Shown(L) => Shown(M)
<1>1. e.type \notin {"output_item.added", "output_item.done", "chat.tool_calls"} \cup Deltas \cup MessageDones
  BY DEF Deltas, MessageDones, TerminalTypes
<1>2. Fits(L, e)
  BY <1>1 DEF Fits
<1>3. L \in Seq(Events)
  BY DEF Reads, Kept
<1>4. Kept(Append(L, e))
  BY <1>2, KeptMore DEF Reads
<1>5. Added(Append(L, e)) = Added(L) /\ DoneItems(Append(L, e)) = DoneItems(L)
  BY <1>1, <1>3, AddedMore
<1>6. /\ Shown(L) => Shown(Append(L, e))
      /\ Terminals(Append(L, e)) = Terminals(L) \cup {Len(L) + 1}
  BY <1>3, SeenMore
<1>7. \A item : Assembled(Append(L, e), Deltas, item) = Assembled(L, Deltas, item)
  BY <1>1, <1>3, AssembledStep
<1>8. Len(Append(L, e)) = Len(L) + 1 /\ Append(L, e)[Len(L) + 1] = e
  BY <1>3, Longer
<1> QED
  BY <1>4, <1>5, <1>6, <1>7, <1>8 DEF Reads, Last
-----------------------------------------------------------------------------
(* What a client of the chat endpoint has read: the text, the thoughts,    *)
(* the calls and how many.                                                 *)
ChatReads(L, content, thoughts, calls, n) ==
  /\ Kept(L)
  /\ Assembled(L, {"chat.content"}, Message) = content
  /\ Assembled(L, {"chat.reasoning_content"}, Reasoning) = thoughts
  /\ CallsAssembled(L) = calls
  /\ Cardinality(ToolCalls(L)) = n

ChatEnds == {"chat.finish", "chat.usage", "[DONE]", "error"}

LEMMA ChatNext ==
  ASSUME NEW L, NEW content, NEW thoughts, NEW calls, NEW n,
         ChatReads(L, content, thoughts, calls, n),
         NEW e \in Events, e.type \in ChatTypes \cup ChatEnds,
         e.type = "chat.tool_calls" => e.index = n
  PROVE  LET M == Append(L, e)
         IN  /\ Kept(M)
             /\ Assembled(M, {"chat.content"}, Message)
                  = IF e.type = "chat.content" /\ e.item = Message THEN content \o e.text ELSE content
             /\ Assembled(M, {"chat.reasoning_content"}, Reasoning)
                  = IF e.type = "chat.reasoning_content" /\ e.item = Reasoning
                    THEN thoughts \o e.text ELSE thoughts
             /\ CallsAssembled(M) = IF e.type = "chat.tool_calls" THEN calls \o e.text ELSE calls
             /\ Cardinality(ToolCalls(M)) = IF e.type = "chat.tool_calls" THEN n + 1 ELSE n
             /\ Of(L, "chat.refusal", Message) = {} /\ e.type # "chat.refusal"
                  => Of(M, "chat.refusal", Message) = {}
             /\ Shown(L) \/ Shows(e) => Shown(M)
<1>1. e.type \notin {"output_item.added", "output_item.done"} \cup Deltas \cup MessageDones \cup TerminalTypes
  BY DEF Deltas, MessageDones, TerminalTypes, ChatTypes, ChatEnds
<1>2. L \in Seq(Events)
  BY DEF ChatReads, Kept
<1>3. Fits(L, e)
  BY <1>1 DEF Fits, ChatReads
<1>4. Kept(Append(L, e))
  BY <1>3, KeptMore DEF ChatReads
<1>5. Assembled(Append(L, e), {"chat.content"}, Message)
        = IF e.type = "chat.content" /\ e.item = Message THEN content \o e.text ELSE content
  <2> DEFINE types == {"chat.content"}
  <2>1. Assembled(L, types, Message) = content
    BY DEF ChatReads
  <2>2. e.type \in types <=> e.type = "chat.content"
    OBVIOUS
  <2> HIDE DEF types
  <2>3. Assembled(Append(L, e), types, Message)
          = IF e.type \in types /\ e.item = Message
            THEN Assembled(L, types, Message) \o e.text ELSE Assembled(L, types, Message)
    BY <1>2, AssembledStep
  <2>4. Assembled(Append(L, e), types, Message)
          = IF e.type = "chat.content" /\ e.item = Message THEN content \o e.text ELSE content
    BY <2>1, <2>2, <2>3
  <2> QED
    BY <2>4 DEF types
<1>6. Assembled(Append(L, e), {"chat.reasoning_content"}, Reasoning)
        = IF e.type = "chat.reasoning_content" /\ e.item = Reasoning
          THEN thoughts \o e.text ELSE thoughts
  <2> DEFINE types == {"chat.reasoning_content"}
  <2>1. Assembled(L, types, Reasoning) = thoughts
    BY DEF ChatReads
  <2>2. e.type \in types <=> e.type = "chat.reasoning_content"
    OBVIOUS
  <2> HIDE DEF types
  <2>3. Assembled(Append(L, e), types, Reasoning)
          = IF e.type \in types /\ e.item = Reasoning
            THEN Assembled(L, types, Reasoning) \o e.text ELSE Assembled(L, types, Reasoning)
    BY <1>2, AssembledStep
  <2>4. Assembled(Append(L, e), types, Reasoning)
          = IF e.type = "chat.reasoning_content" /\ e.item = Reasoning THEN thoughts \o e.text ELSE thoughts
    BY <2>1, <2>2, <2>3
  <2> QED
    BY <2>4 DEF types
<1>7. CallsAssembled(Append(L, e)) = IF e.type = "chat.tool_calls" THEN calls \o e.text ELSE calls
  BY <1>2, CallsAssembledMore DEF ChatReads
<1>8. Cardinality(ToolCalls(Append(L, e))) = IF e.type = "chat.tool_calls" THEN n + 1 ELSE n
  <2>1. /\ ToolCalls(Append(L, e))
             = ToolCalls(L) \cup (IF e.type = "chat.tool_calls" THEN {Len(L) + 1} ELSE {})
        /\ ToolCalls(L) \subseteq 1..Len(L) /\ Len(L) \in Nat
    BY <1>2, ToolCallsMore, Longer DEF ToolCalls
  <2>2. IsFiniteSet(ToolCalls(L)) /\ Len(L) + 1 \notin ToolCalls(L)
    <3>1. IsFiniteSet(1..Len(L))
      BY <2>1, FS_Interval
    <3> QED
      BY <2>1, <3>1, FS_Subset
  <2>3. Cardinality(ToolCalls(L) \cup {Len(L) + 1}) = Cardinality(ToolCalls(L)) + 1
    BY <2>2, FS_AddElement
  <2> QED
    BY <2>1, <2>3 DEF ChatReads
<1>9. Of(L, "chat.refusal", Message) = {} /\ e.type # "chat.refusal"
        => Of(Append(L, e), "chat.refusal", Message) = {}
  BY <1>2, OfMore
<1>10. Shown(L) \/ Shows(e) => Shown(Append(L, e))
  BY <1>2, SeenMore
<1> QED
  BY <1>4, <1>5, <1>6, <1>7, <1>8, <1>9, <1>10

LEMMA ChatSays ==
  ASSUME NEW L, NEW content, NEW thoughts, NEW calls, NEW n,
         ChatReads(L, content, thoughts, calls, n),
         NEW e \in Events, e.type = "chat.content", e.item = Message
  PROVE  /\ ChatReads(Append(L, e), content \o e.text, thoughts, calls, n)
         /\ Of(L, "chat.refusal", Message) = {} => Of(Append(L, e), "chat.refusal", Message) = {}
         /\ Shown(L) \/ Shows(e) => Shown(Append(L, e))
<1> DEFINE M == Append(L, e)
<1>1. e.type \in ChatTypes \cup ChatEnds
  BY DEF ChatTypes, ChatEnds
<1>2. /\ Kept(M)
      /\ Assembled(M, {"chat.content"}, Message) = content \o e.text
      /\ Assembled(M, {"chat.reasoning_content"}, Reasoning) = thoughts
      /\ CallsAssembled(M) = calls
      /\ Cardinality(ToolCalls(M)) = n
      /\ Of(L, "chat.refusal", Message) = {} /\ e.type # "chat.refusal"
           => Of(M, "chat.refusal", Message) = {}
      /\ Shown(L) \/ Shows(e) => Shown(M)
  BY <1>1, ChatNext
<1> QED
  BY <1>2 DEF ChatReads

LEMMA ChatThinks ==
  ASSUME NEW L, NEW content, NEW thoughts, NEW calls, NEW n,
         ChatReads(L, content, thoughts, calls, n),
         NEW e \in Events, e.type = "chat.reasoning_content", e.item = Reasoning
  PROVE  /\ ChatReads(Append(L, e), content, thoughts \o e.text, calls, n)
         /\ Of(L, "chat.refusal", Message) = {} => Of(Append(L, e), "chat.refusal", Message) = {}
         /\ Shown(L) \/ Shows(e) => Shown(Append(L, e))
<1> DEFINE M == Append(L, e)
<1>1. e.type \in ChatTypes \cup ChatEnds
  BY DEF ChatTypes, ChatEnds
<1>2. /\ Kept(M)
      /\ Assembled(M, {"chat.content"}, Message) = content
      /\ Assembled(M, {"chat.reasoning_content"}, Reasoning) = thoughts \o e.text
      /\ CallsAssembled(M) = calls
      /\ Cardinality(ToolCalls(M)) = n
      /\ Of(L, "chat.refusal", Message) = {} /\ e.type # "chat.refusal"
           => Of(M, "chat.refusal", Message) = {}
      /\ Shown(L) \/ Shows(e) => Shown(M)
  BY <1>1, ChatNext
<1> QED
  BY <1>2 DEF ChatReads

LEMMA ChatCalls ==
  ASSUME NEW L, NEW content, NEW thoughts, NEW calls, NEW n,
         ChatReads(L, content, thoughts, calls, n),
         NEW e \in Events, e.type = "chat.tool_calls", e.index = n
  PROVE  /\ ChatReads(Append(L, e), content, thoughts, calls \o e.text, n + 1)
         /\ Of(L, "chat.refusal", Message) = {} => Of(Append(L, e), "chat.refusal", Message) = {}
         /\ Shown(L) \/ Shows(e) => Shown(Append(L, e))
<1> DEFINE M == Append(L, e)
<1>1. e.type \in ChatTypes \cup ChatEnds
  BY DEF ChatTypes, ChatEnds
<1>2. /\ Kept(M)
      /\ Assembled(M, {"chat.content"}, Message) = content
      /\ Assembled(M, {"chat.reasoning_content"}, Reasoning) = thoughts
      /\ CallsAssembled(M) = calls \o e.text
      /\ Cardinality(ToolCalls(M)) = n + 1
      /\ Of(L, "chat.refusal", Message) = {} /\ e.type # "chat.refusal"
           => Of(M, "chat.refusal", Message) = {}
      /\ Shown(L) \/ Shows(e) => Shown(M)
  BY <1>1, ChatNext
<1> QED
  BY <1>2 DEF ChatReads

LEMMA ChatRefuses ==
  ASSUME NEW L, NEW content, NEW thoughts, NEW calls, NEW n,
         ChatReads(L, content, thoughts, calls, n),
         NEW e \in Events, e.type = "chat.refusal", e.item = Message
  PROVE  /\ ChatReads(Append(L, e), content, thoughts, calls, n)
         /\ Of(Append(L, e), "chat.refusal", Message) # {}
         /\ Shown(L) \/ Shows(e) => Shown(Append(L, e))
<1> DEFINE M == Append(L, e)
<1>1. e.type \in ChatTypes \cup ChatEnds
  BY DEF ChatTypes, ChatEnds
<1>2. /\ Kept(M)
      /\ Assembled(M, {"chat.content"}, Message) = content
      /\ Assembled(M, {"chat.reasoning_content"}, Reasoning) = thoughts
      /\ CallsAssembled(M) = calls
      /\ Cardinality(ToolCalls(M)) = n
      /\ Of(L, "chat.refusal", Message) = {} /\ e.type # "chat.refusal"
           => Of(M, "chat.refusal", Message) = {}
      /\ Shown(L) \/ Shows(e) => Shown(M)
  BY <1>1, ChatNext
<1>3. Of(M, "chat.refusal", Message) # {}
  <2>1. L \in Seq(Events)
    BY DEF ChatReads, Kept
  <2>2. Of(M, "chat.refusal", Message) = Of(L, "chat.refusal", Message) \cup {Len(L) + 1}
    BY <2>1, OfMore
  <2> QED
    BY <2>2
<1> HIDE DEF M
<1> QED
  BY <1>2, <1>3 DEF ChatReads, M

LEMMA ChatStops ==
  ASSUME NEW L, NEW content, NEW thoughts, NEW calls, NEW n,
         ChatReads(L, content, thoughts, calls, n),
         NEW e \in Events, e.type \in ChatEnds
  PROVE  /\ ChatReads(Append(L, e), content, thoughts, calls, n)
         /\ Of(L, "chat.refusal", Message) = {} <=> Of(Append(L, e), "chat.refusal", Message) = {}
         /\ Shown(L) \/ Shows(e) => Shown(Append(L, e))
<1> DEFINE M == Append(L, e)
<1>1. /\ e.type \in ChatTypes \cup ChatEnds
      /\ e.type # "chat.content" /\ e.type # "chat.reasoning_content"
      /\ e.type # "chat.tool_calls" /\ e.type # "chat.refusal"
  BY DEF ChatTypes, ChatEnds
<1>2. /\ Kept(M)
      /\ Assembled(M, {"chat.content"}, Message) = content
      /\ Assembled(M, {"chat.reasoning_content"}, Reasoning) = thoughts
      /\ CallsAssembled(M) = calls
      /\ Cardinality(ToolCalls(M)) = n
      /\ Of(L, "chat.refusal", Message) = {} /\ e.type # "chat.refusal"
           => Of(M, "chat.refusal", Message) = {}
      /\ Shown(L) \/ Shows(e) => Shown(M)
  BY <1>1, ChatNext
<1>4. Of(L, "chat.refusal", Message) \subseteq Of(M, "chat.refusal", Message)
  BY OfMore DEF ChatReads, Kept
<1> HIDE DEF M
<1>3. ChatReads(M, content, thoughts, calls, n)
  BY <1>2 DEF ChatReads
<1> QED
  BY <1>1, <1>2, <1>3, <1>4 DEF M

-----------------------------------------------------------------------------
(* The pieces the handlers send, as a client reads them. *)
Parts == [kind : {"thought", "text", "call"}, text : Seq(Nat), sig : Nat]

Translators ==
  [api : {"responses", "chat"},
   hasEmittedHeader : BOOLEAN, hasStartedReasoning : BOOLEAN,
   hasEndedReasoning : BOOLEAN, hasStartedItem : BOOLEAN,
   reasoningOutputIndex : Nat, textOutputIndex : Nat,
   nextOutputIndex : Nat, chatToolIdx : Nat,
   fullOutputText : Seq(Nat), fullThoughtText : Seq(Nat),
   activeFnCalls : Seq(Nat), modelParts : Seq(Parts),
   thoughtSig : Nat, textSig : Nat,
   blockReason : BOOLEAN, isRefusal : BOOLEAN, lastFinishReason : Reasons \cup {""}]

LEMMA Tails ==
  ASSUME NEW L \in Seq(Events)
  PROVE  /\ L \o <<>> = L
         /\ \A a \in Events : L \o <<a>> = Append(L, a)
OBVIOUS

LEMMA LongTails ==
  ASSUME NEW L \in Seq(Events), NEW a \in Events, NEW b \in Events, NEW c \in Events, NEW d \in Events
  PROVE  /\ L \o <<a, b, c>> = Append(Append(Append(L, a), b), c)
         /\ L \o <<a, b, c, d>> = Append(Append(Append(Append(L, a), b), c), d)
OBVIOUS

LEMMA BitsOfPieces ==
  /\ Seq(Nat) \subseteq Seq(Bits) /\ Seq(Names \X Seq(Nat)) \subseteq Seq(Bits)
  /\ <<>> \in Seq(Bits) /\ <<>> \in Seq(Nat)
  /\ \A k \in Nat : <<k>> \in Seq(Nat) /\ <<k>> \in Seq(Bits) /\ <<k>> # <<>>
BY DEF Bits

LEMMA HeaderReads ==
  ASSUME NEW L, NEW announced, NEW done, NEW over, NEW text, Reads(L, announced, done, over, text),
         NEW s
  PROVE  /\ Reads(L \o Header(s), announced, done, over, text)
         /\ Shown(L) => Shown(L \o Header(s))
<1> DEFINE e == Event("response.created", NoItem, NoIndex, <<>>)
<1>1. L \in Seq(Events)
  BY DEF Reads, Kept
<1>2. e \in Events /\ e.type = "response.created"
  BY ItemNames, BitsOfPieces DEF Event, Events, EventTypes, NoIndex
<1> HIDE DEF e
<1>3. /\ Reads(Append(L, e), announced, done, over, text)
      /\ Shown(L) => Shown(Append(L, e))
  BY <1>2, ReadNeutral DEF Deltas, MessageDones, TerminalTypes
<1>4. L \o Header(s) = L \/ L \o Header(s) = Append(L, e)
  BY <1>1, <1>2, Tails DEF Header, e
<1> QED
  BY <1>3, <1>4

LEMMA ReasoningDoneReads ==
  ASSUME NEW L, NEW announced, NEW done, NEW over, NEW text, Reads(L, announced, done, over, text),
         NEW s \in Translators, Ending(s) => Reasoning \in announced /\ Reasoning \notin done
  PROVE  /\ Reads(L \o ReasoningDone(s), announced,
                  done \cup (IF Ending(s) THEN {Reasoning} ELSE {}), over, text)
         /\ Shown(L) => Shown(L \o ReasoningDone(s))
<1> DEFINE e == Event("output_item.done", Reasoning, s.reasoningOutputIndex, s.fullThoughtText)
<1>1. L \in Seq(Events)
  BY DEF Reads, Kept
<1>2. e \in Events /\ e.type = "output_item.done" /\ e.item = Reasoning
  BY ItemNames, BitsOfPieces DEF Event, Events, EventTypes, Translators
<1>3. L \o ReasoningDone(s) = IF Ending(s) THEN L \o <<e>> ELSE L \o <<>>
  BY DEF ReasoningDone
<1> HIDE DEF e
<1>4. CASE Ending(s)
  <2>1. /\ Reads(Append(L, e), announced, done \cup {e.item}, over, text)
        /\ Shown(L) \/ Shows(e) => Shown(Append(L, e))
    BY <1>2, <1>4, ItemNames, ReadItemDone
  <2>2. L \o ReasoningDone(s) = Append(L, e)
    BY <1>1, <1>2, <1>3, <1>4, Tails
  <2> QED
    BY <1>2, <1>4, <2>1, <2>2
<1>5. CASE ~Ending(s)
  <2>1. L \o ReasoningDone(s) = L
    BY <1>1, <1>3, <1>5, Tails
  <2> QED
    BY <1>5, <2>1
<1> QED
  BY <1>4, <1>5

LEMMA MessageAddedReads ==
  ASSUME NEW L, NEW announced, NEW done, NEW over, NEW text, Reads(L, announced, done, over, text),
         NEW s \in Translators, NEW u \in Translators, s.hasStartedItem <=> Message \in announced
  PROVE  /\ Reads(L \o MessageAdded(s, u), announced \cup {Message}, done, over, text)
         /\ Shown(L) => Shown(L \o MessageAdded(s, u))
<1> DEFINE e == Event("output_item.added", Message, u.textOutputIndex, <<>>)
<1>1. L \in Seq(Events)
  BY DEF Reads, Kept
<1>2. e \in Events /\ e.type = "output_item.added" /\ e.item = Message
  BY ItemNames, BitsOfPieces DEF Event, Events, EventTypes, Translators
<1>3. L \o MessageAdded(s, u) = IF s.hasStartedItem THEN L \o <<>> ELSE L \o <<e>>
  BY DEF MessageAdded
<1> HIDE DEF e
<1>4. CASE ~s.hasStartedItem
  <2>1. /\ Reads(Append(L, e), announced \cup {e.item}, done, over, text)
        /\ Shown(L) => Shown(Append(L, e))
    BY <1>2, <1>4, ReadAdded
  <2>2. L \o MessageAdded(s, u) = Append(L, e)
    BY <1>1, <1>2, <1>3, <1>4, Tails
  <2> QED
    BY <1>2, <2>1, <2>2
<1>5. CASE s.hasStartedItem
  <2>1. L \o MessageAdded(s, u) = L /\ announced \cup {Message} = announced
    BY <1>1, <1>3, <1>5, Tails
  <2> QED
    BY <2>1
<1> QED
  BY <1>4, <1>5

LEMMA PartAddedReads ==
  ASSUME NEW L, NEW announced, NEW done, NEW over, NEW text, Reads(L, announced, done, over, text),
         NEW index \in Nat, NEW opened,
         NEW tail, tail = IF opened THEN <<>> ELSE <<Event("content_part.added", Message, index, <<>>)>>
  PROVE  /\ Reads(L \o tail, announced, done, over, text)
         /\ Shown(L) => Shown(L \o tail)
<1> DEFINE e == Event("content_part.added", Message, index, <<>>)
<1>1. L \in Seq(Events)
  BY DEF Reads, Kept
<1>2. e \in Events /\ e.type = "content_part.added"
  BY ItemNames, BitsOfPieces DEF Event, Events, EventTypes
<1>3. tail = <<>> \/ tail = <<e>>
  OBVIOUS
<1> HIDE DEF e
<1>4. /\ Reads(Append(L, e), announced, done, over, text)
      /\ Shown(L) => Shown(Append(L, e))
  BY <1>2, ReadNeutral DEF Deltas, MessageDones, TerminalTypes
<1>5. L \o tail = L \/ L \o tail = Append(L, e)
  BY <1>1, <1>2, <1>3, Tails
<1> QED
  BY <1>4, <1>5

(* Everything a call says, from its announcement to its end. *)
LEMMA CallReads ==
  ASSUME NEW L, NEW announced, NEW done, NEW over, NEW text, Reads(L, announced, done, over, text),
         NEW k \in Nat, NEW i \in Nat, Call(k) \notin announced, Call(k) \notin done
  PROVE  LET M == L \o <<Event("output_item.added", Call(k), i, <<>>),
                         Event("function_call_arguments.delta", Call(k), i, <<k>>),
                         Event("function_call_arguments.done", Call(k), i, <<k>>),
                         Event("output_item.done", Call(k), i, <<k>>)>>
         IN  /\ Reads(M, announced \cup {Call(k)}, done \cup {Call(k)}, over,
                      Saying(text, Call(k), <<k>>))
             /\ Shown(M)
<1> DEFINE item == Call(k)
           a == Event("output_item.added", item, i, <<>>)
           b == Event("function_call_arguments.delta", item, i, <<k>>)
           c == Event("function_call_arguments.done", item, i, <<k>>)
           d == Event("output_item.done", item, i, <<k>>)
           La == Append(L, a)
           Lb == Append(La, b)
           Lc == Append(Lb, c)
           Ld == Append(Lc, d)
<1>1. L \in Seq(Events)
  BY DEF Reads, Kept
<1>2. item \in Names /\ item # Message /\ item # Reasoning /\ item \notin announced /\ item \notin done
  BY ItemNames
<1> HIDE DEF item
<1>3. /\ a \in Events /\ a.type = "output_item.added" /\ a.item = item
      /\ b \in Events /\ b.type = "function_call_arguments.delta" /\ b.item = item /\ b.text = <<k>>
      /\ c \in Events /\ c.type = "function_call_arguments.done" /\ c.item = item
      /\ d \in Events /\ d.type = "output_item.done" /\ d.item = item /\ d.text = <<k>>
  BY <1>2, BitsOfPieces DEF Event, Events, EventTypes
<1> HIDE DEF a, b, c, d
<1>4. L \o <<a, b, c, d>> = Ld
  BY <1>1, <1>3
<1>5. Reads(La, announced \cup {item}, done, over, text)
  BY <1>2, <1>3, ReadAdded
<1> HIDE DEF La
<1>6. Reads(Lb, announced \cup {item}, done, over, Saying(text, item, <<k>>))
  <2>1. b.type \in Deltas /\ b.item \in announced \cup {item} /\ b.item # Message
    BY <1>2, <1>3 DEF Deltas
  <2>2. Reads(Lb, announced \cup {item}, done, over, Saying(text, b.item, b.text))
    BY <1>3, <1>5, <2>1, ReadDelta
  <2> QED
    BY <1>3, <2>2
<1> HIDE DEF Lb
<1>7. Reads(Lc, announced \cup {item}, done, over, Saying(text, item, <<k>>))
  BY <1>3, <1>6, ReadNeutral DEF Deltas, MessageDones, TerminalTypes
<1> HIDE DEF Lc
<1>8. /\ Reads(Ld, announced \cup {item}, done \cup {item}, over, Saying(text, item, <<k>>))
      /\ Shows(d) => Shown(Ld)
  <2>1. /\ Reads(Ld, announced \cup {item}, done \cup {d.item}, over, Saying(text, item, <<k>>))
        /\ Shows(d) => Shown(Ld)
    BY <1>2, <1>3, <1>7, ReadItemDone
  <2> QED
    BY <1>3, <2>1
<1>9. Shows(d)
  BY <1>2, <1>3, BitsOfPieces DEF Shows, ShownTypes
<1> QED
  BY <1>4, <1>8, <1>9 DEF a, b, c, d, item
-----------------------------------------------------------------------------
(* What becomes of the translator. *)
LEMMA AppendModelTextKind ==
  ASSUME NEW parts \in Seq(Parts), NEW kind \in {"thought", "text"}, NEW piece \in Nat, NEW sig \in Nat
  PROVE  AppendModelText(parts, kind, piece, sig) \in Seq(Parts)
<1> DEFINE n == Len(parts)
           fresh == [kind |-> kind, text |-> <<piece>>, sig |-> sig]
           more == [parts[n] EXCEPT !.text = Append(@, piece), !.sig = IF sig = NoSig THEN @ ELSE sig]
<1>1. n \in Nat /\ \A i \in 1..n : parts[i] \in Parts
  BY LenProperties, ElementOfSeq
<1>2. fresh \in Parts
  BY BitsOfPieces DEF Parts
<1>3. Append(parts, fresh) \in Seq(Parts)
  BY <1>2, AppendProperties
<1>4. CASE n > 0 /\ parts[n].kind = kind
  <2>1. more \in Parts
    <3>1. parts[n] \in Parts
      BY <1>1, <1>4
    <3>2. Append(parts[n].text, piece) \in Seq(Nat) /\ (IF sig = NoSig THEN parts[n].sig ELSE sig) \in Nat
      BY <3>1, AppendProperties DEF Parts
    <3> QED
      BY <3>1, <3>2 DEF Parts
  <2>2. [parts EXCEPT ![n] = more] \in Seq(Parts)
    BY <1>1, <1>4, <2>1, ExceptSeq
  <2>3. AppendModelText(parts, kind, piece, sig) = [parts EXCEPT ![n] = more]
    BY <1>1, <1>4 DEF AppendModelText
  <2> QED
    BY <2>2, <2>3
<1>5. CASE ~(n > 0 /\ parts[n].kind = kind)
  BY <1>3, <1>5 DEF AppendModelText
<1> QED
  BY <1>4, <1>5

LEMMA ThoughtFields ==
  ASSUME st \in Translators, NEW k \in Nat, NEW sig \in Nat, HandleThought(k, sig)
  PROVE  /\ st' \in Translators
         /\ st'.fullThoughtText = Append(st.fullThoughtText, k)
         /\ st'.modelParts = AppendModelText(st.modelParts, "thought", k, sig)
         /\ st'.hasStartedReasoning = (st.hasStartedReasoning \/ Responses(st))
         /\ st'.api = st.api /\ st'.hasEndedReasoning = st.hasEndedReasoning
         /\ st'.hasStartedItem = st.hasStartedItem /\ st'.fullOutputText = st.fullOutputText
         /\ st'.activeFnCalls = st.activeFnCalls /\ st'.isRefusal = st.isRefusal
         /\ st'.chatToolIdx = st.chatToolIdx /\ st'.textSig = st.textSig
<1> DEFINE parts == AppendModelText(st.modelParts, "thought", k, sig)
           t == [st EXCEPT !.fullThoughtText = Append(@, k), !.thoughtSig = Latest(@, sig),
                           !.modelParts = parts]
<1>1. parts \in Seq(Parts)
  BY AppendModelTextKind DEF Translators
<1>2. HandleThought(k, sig) =>
        \/ ~Responses(st) /\ st' = t
        \/ /\ Responses(st)
           /\ st' = [t EXCEPT !.hasEmittedHeader = TRUE, !.hasStartedReasoning = TRUE,
                              !.reasoningOutputIndex = IF ~t.hasStartedReasoning THEN t.nextOutputIndex ELSE @,
                              !.nextOutputIndex = IF ~t.hasStartedReasoning THEN @ + 1 ELSE @]
  BY DEF HandleThought
<1> HIDE DEF parts
<1>3. Append(st.fullThoughtText, k) \in Seq(Nat) /\ Latest(st.thoughtSig, sig) \in Nat
  BY AppendProperties DEF Translators, Latest
<1>4. /\ t \in Translators
      /\ t.fullThoughtText = Append(st.fullThoughtText, k) /\ t.modelParts = parts
      /\ t.hasStartedReasoning = st.hasStartedReasoning
      /\ t.api = st.api /\ t.hasEndedReasoning = st.hasEndedReasoning
      /\ t.hasStartedItem = st.hasStartedItem /\ t.fullOutputText = st.fullOutputText
      /\ t.activeFnCalls = st.activeFnCalls /\ t.isRefusal = st.isRefusal
      /\ t.chatToolIdx = st.chatToolIdx /\ t.textSig = st.textSig
  BY <1>1, <1>3 DEF Translators
<1> HIDE DEF t
<1>5. CASE ~Responses(st)
  <2>1. st' = t
    BY <1>2, <1>5
  <2>2. st.hasStartedReasoning = (st.hasStartedReasoning \/ Responses(st))
    BY <1>5 DEF Translators
  <2> QED
    BY <1>4, <2>1, <2>2 DEF parts
<1>6. CASE Responses(st)
  <2> DEFINE i == IF ~t.hasStartedReasoning THEN t.nextOutputIndex ELSE t.reasoningOutputIndex
             j == IF ~t.hasStartedReasoning THEN t.nextOutputIndex + 1 ELSE t.nextOutputIndex
             u == [t EXCEPT !.hasEmittedHeader = TRUE, !.hasStartedReasoning = TRUE,
                            !.reasoningOutputIndex = i, !.nextOutputIndex = j]
  <2>1. i \in Nat /\ j \in Nat
    <3>1. t.nextOutputIndex \in Nat /\ t.reasoningOutputIndex \in Nat
      BY <1>4 DEF Translators
    <3> HIDE DEF u
    <3> QED
      BY <3>1
  <2>2. st' = u
    BY <1>2, <1>6
  <2> HIDE DEF i, j
  <2>3. u \in Translators
    BY <1>4, <2>1 DEF Translators
  <2>4. /\ u.fullThoughtText = t.fullThoughtText /\ u.modelParts = t.modelParts
        /\ u.hasStartedReasoning = TRUE
        /\ u.api = t.api /\ u.hasEndedReasoning = t.hasEndedReasoning
        /\ u.hasStartedItem = t.hasStartedItem /\ u.fullOutputText = t.fullOutputText
        /\ u.activeFnCalls = t.activeFnCalls /\ u.isRefusal = t.isRefusal
        /\ u.chatToolIdx = t.chatToolIdx /\ u.textSig = t.textSig
    BY <1>4 DEF Translators
  <2> HIDE DEF u
  <2> QED
    BY <1>4, <1>6, <2>2, <2>3, <2>4 DEF parts
<1> QED
  BY <1>5, <1>6

LEMMA ThoughtEvents ==
  ASSUME st \in Translators, NEW k \in Nat, NEW sig \in Nat, HandleThought(k, sig)
  PROVE  /\ ~Responses(st) => sse' = Append(sse, Event("chat.reasoning_content", Reasoning, NoIndex, <<k>>))
         /\ Responses(st) => \E t :
              sse' = sse \o Header(t)
                \o (IF st.hasStartedReasoning THEN <<>>
                    ELSE <<Event("output_item.added", Reasoning, st'.reasoningOutputIndex, <<>>)>>)
                \o <<Event("reasoning_text.delta", Reasoning, st'.reasoningOutputIndex, <<k>>)>>
<1> DEFINE parts == AppendModelText(st.modelParts, "thought", k, sig)
           t == [st EXCEPT !.fullThoughtText = Append(@, k), !.thoughtSig = Latest(@, sig),
                           !.modelParts = parts]
<1>1. HandleThought(k, sig) =>
        \/ /\ ~Responses(st)
           /\ sse' = Append(sse, Event("chat.reasoning_content", Reasoning, NoIndex, <<k>>))
        \/ /\ Responses(st)
           /\ sse' = sse \o Header(t)
                \o (IF ~t.hasStartedReasoning
                    THEN <<Event("output_item.added", Reasoning, st'.reasoningOutputIndex, <<>>)>>
                    ELSE <<>>)
                \o <<Event("reasoning_text.delta", Reasoning, st'.reasoningOutputIndex, <<k>>)>>
  BY DEF HandleThought
<1>2. t.hasStartedReasoning = st.hasStartedReasoning
  BY DEF Translators
<1> HIDE DEF t
<1> QED
  BY <1>1, <1>2

LEMMA EndedFields ==
  ASSUME NEW s \in Translators
  PROVE  LET t == ReasoningEnded(s)
         IN  /\ t \in Translators
             /\ t.hasEndedReasoning = (s.hasEndedReasoning \/ Ending(s))
             /\ t.api = s.api /\ t.hasStartedReasoning = s.hasStartedReasoning
             /\ t.hasStartedItem = s.hasStartedItem /\ t.fullOutputText = s.fullOutputText
             /\ t.fullThoughtText = s.fullThoughtText /\ t.activeFnCalls = s.activeFnCalls
             /\ t.modelParts = s.modelParts /\ t.isRefusal = s.isRefusal
             /\ t.chatToolIdx = s.chatToolIdx /\ t.nextOutputIndex = s.nextOutputIndex
             /\ t.textSig = s.textSig /\ t.blockReason = s.blockReason
             /\ t.lastFinishReason = s.lastFinishReason
<1>1. s.hasEndedReasoning \in BOOLEAN /\ (s.hasEndedReasoning \/ Ending(s)) \in BOOLEAN
  BY DEF Translators, Ending
<1> QED
  BY <1>1 DEF Translators, ReasoningEnded

LEMMA StartedFields ==
  ASSUME NEW s \in Translators
  PROVE  LET t == MessageStarted(s)
         IN  /\ t \in Translators
             /\ t.hasStartedItem
             /\ t.api = s.api /\ t.hasStartedReasoning = s.hasStartedReasoning
             /\ t.hasEndedReasoning = s.hasEndedReasoning /\ t.fullOutputText = s.fullOutputText
             /\ t.fullThoughtText = s.fullThoughtText /\ t.activeFnCalls = s.activeFnCalls
             /\ t.modelParts = s.modelParts /\ t.isRefusal = s.isRefusal
             /\ t.chatToolIdx = s.chatToolIdx /\ t.textSig = s.textSig
             /\ t.blockReason = s.blockReason /\ t.lastFinishReason = s.lastFinishReason
<1>1. CASE s.hasStartedItem
  <2>1. MessageStarted(s) = s
    BY <1>1 DEF MessageStarted
  <2> QED
    BY <1>1, <2>1
<1>2. CASE ~s.hasStartedItem
  <2> DEFINE i == s.nextOutputIndex
             j == s.nextOutputIndex + 1
             u == [s EXCEPT !.hasStartedItem = TRUE, !.textOutputIndex = i, !.nextOutputIndex = j]
  <2>1. s.nextOutputIndex \in Nat
    BY DEF Translators
  <2>2. MessageStarted(s) = u /\ i \in Nat /\ j \in Nat
    BY <1>2, <2>1 DEF MessageStarted
  <2> HIDE DEF i, j
  <2>3. u \in Translators
    BY <2>2 DEF Translators
  <2>4. /\ u.hasStartedItem = TRUE
        /\ u.api = s.api /\ u.hasStartedReasoning = s.hasStartedReasoning
        /\ u.hasEndedReasoning = s.hasEndedReasoning /\ u.fullOutputText = s.fullOutputText
        /\ u.fullThoughtText = s.fullThoughtText /\ u.activeFnCalls = s.activeFnCalls
        /\ u.modelParts = s.modelParts /\ u.isRefusal = s.isRefusal
        /\ u.chatToolIdx = s.chatToolIdx /\ u.textSig = s.textSig
        /\ u.blockReason = s.blockReason /\ u.lastFinishReason = s.lastFinishReason
    BY DEF Translators
  <2> HIDE DEF u
  <2> QED
    BY <2>2, <2>3, <2>4
<1> QED
  BY <1>1, <1>2

LEMMA HeadedFields ==
  ASSUME NEW s \in Translators
  PROVE  LET t == [s EXCEPT !.hasEmittedHeader = TRUE]
         IN  /\ t \in Translators
             /\ t.hasStartedItem = s.hasStartedItem
             /\ t.api = s.api /\ t.hasStartedReasoning = s.hasStartedReasoning
             /\ t.hasEndedReasoning = s.hasEndedReasoning /\ t.fullOutputText = s.fullOutputText
             /\ t.fullThoughtText = s.fullThoughtText /\ t.activeFnCalls = s.activeFnCalls
             /\ t.modelParts = s.modelParts /\ t.isRefusal = s.isRefusal
             /\ t.chatToolIdx = s.chatToolIdx /\ t.textSig = s.textSig
             /\ t.blockReason = s.blockReason /\ t.lastFinishReason = s.lastFinishReason
BY DEF Translators

LEMMA TextFields ==
  ASSUME st \in Translators, NEW k \in Nat, NEW sig \in Nat, HandleText(k, sig)
  PROVE  /\ st' \in Translators
         /\ st'.fullOutputText = Append(st.fullOutputText, k)
         /\ st'.modelParts = AppendModelText(st.modelParts, "text", k, sig)
         /\ st'.hasEndedReasoning = (st.hasEndedReasoning \/ Ending(st))
         /\ st'.hasStartedItem = (st.hasStartedItem \/ Responses(st))
         /\ st'.textSig = Latest(st.textSig, sig)
         /\ st'.api = st.api /\ st'.hasStartedReasoning = st.hasStartedReasoning
         /\ st'.fullThoughtText = st.fullThoughtText /\ st'.activeFnCalls = st.activeFnCalls
         /\ st'.isRefusal = st.isRefusal /\ st'.chatToolIdx = st.chatToolIdx
         /\ ~Responses(st) => sse' = Append(sse, Event("chat.content", Message, NoIndex, <<k>>))
         /\ Responses(st) => \E t \in Translators :
              /\ t.hasStartedItem = st.hasStartedItem
              /\ sse' = sse \o ReasoningDone(st) \o Header(t) \o MessageAdded(t, st')
                   \o (IF t.hasStartedItem THEN <<>>
                       ELSE <<Event("content_part.added", Message, st'.textOutputIndex, <<>>)>>)
                   \o <<Event("output_text.delta", Message, st'.textOutputIndex, <<k>>)>>
<1> DEFINE parts == AppendModelText(st.modelParts, "text", k, sig)
           r == ReasoningEnded(st)
           t == [r EXCEPT !.fullOutputText = Append(@, k), !.textSig = Latest(@, sig),
                          !.modelParts = AppendModelText(@, "text", k, sig)]
           m == MessageStarted(t)
           u == [m EXCEPT !.hasEmittedHeader = TRUE]
<1>1. parts \in Seq(Parts)
  BY AppendModelTextKind DEF Translators
<1>2. HandleText(k, sig) =>
        \/ /\ ~Responses(st) /\ st' = t
           /\ sse' = Append(sse, Event("chat.content", Message, NoIndex, <<k>>))
        \/ /\ Responses(st) /\ st' = u
           /\ sse' = sse \o ReasoningDone(st) \o Header(t) \o MessageAdded(t, u)
                   \o (IF t.hasStartedItem THEN <<>>
                       ELSE <<Event("content_part.added", Message, u.textOutputIndex, <<>>)>>)
                   \o <<Event("output_text.delta", Message, u.textOutputIndex, <<k>>)>>
  BY DEF HandleText
<1>3. /\ r \in Translators
      /\ r.hasEndedReasoning = (st.hasEndedReasoning \/ Ending(st))
      /\ r.api = st.api /\ r.hasStartedReasoning = st.hasStartedReasoning
      /\ r.hasStartedItem = st.hasStartedItem /\ r.fullOutputText = st.fullOutputText
      /\ r.fullThoughtText = st.fullThoughtText /\ r.activeFnCalls = st.activeFnCalls
      /\ r.modelParts = st.modelParts /\ r.isRefusal = st.isRefusal
      /\ r.chatToolIdx = st.chatToolIdx /\ r.textSig = st.textSig
  BY EndedFields
<1> HIDE DEF r
<1>4. Append(r.fullOutputText, k) \in Seq(Nat) /\ Latest(r.textSig, sig) \in Nat
  BY <1>3, AppendProperties DEF Translators, Latest
<1>5. /\ t \in Translators
      /\ t.fullOutputText = Append(st.fullOutputText, k) /\ t.modelParts = parts
      /\ t.textSig = Latest(st.textSig, sig)
      /\ t.hasEndedReasoning = r.hasEndedReasoning
      /\ t.api = r.api /\ t.hasStartedReasoning = r.hasStartedReasoning
      /\ t.hasStartedItem = r.hasStartedItem
      /\ t.fullThoughtText = r.fullThoughtText /\ t.activeFnCalls = r.activeFnCalls
      /\ t.isRefusal = r.isRefusal /\ t.chatToolIdx = r.chatToolIdx
  <2>1. AppendModelText(r.modelParts, "text", k, sig) = parts
    BY <1>3
  <2> HIDE DEF parts
  <2> QED
    BY <1>1, <1>3, <1>4, <2>1 DEF Translators
<1> HIDE DEF t, parts
<1>6. /\ m \in Translators
      /\ m.hasStartedItem
      /\ m.api = t.api /\ m.hasStartedReasoning = t.hasStartedReasoning
      /\ m.hasEndedReasoning = t.hasEndedReasoning /\ m.fullOutputText = t.fullOutputText
      /\ m.fullThoughtText = t.fullThoughtText /\ m.activeFnCalls = t.activeFnCalls
      /\ m.modelParts = t.modelParts /\ m.isRefusal = t.isRefusal
      /\ m.chatToolIdx = t.chatToolIdx /\ m.textSig = t.textSig
  BY <1>5, StartedFields
<1> HIDE DEF m
<1>7. /\ u \in Translators
      /\ u.hasStartedItem
      /\ u.api = m.api /\ u.hasStartedReasoning = m.hasStartedReasoning
      /\ u.hasEndedReasoning = m.hasEndedReasoning /\ u.fullOutputText = m.fullOutputText
      /\ u.fullThoughtText = m.fullThoughtText /\ u.activeFnCalls = m.activeFnCalls
      /\ u.modelParts = m.modelParts /\ u.isRefusal = m.isRefusal
      /\ u.chatToolIdx = m.chatToolIdx /\ u.textSig = m.textSig
  BY <1>6, HeadedFields
<1> HIDE DEF u
<1>8. CASE ~Responses(st)
  <2>1. /\ st' = t /\ sse' = Append(sse, Event("chat.content", Message, NoIndex, <<k>>))
    BY <1>2, <1>8
  <2>2. st.hasStartedItem \in BOOLEAN
    BY DEF Translators
  <2> QED
    BY <1>3, <1>5, <1>8, <2>1, <2>2 DEF parts
<1>9. CASE Responses(st)
  <2>1. /\ st' = u
        /\ sse' = sse \o ReasoningDone(st) \o Header(t) \o MessageAdded(t, u)
                   \o (IF t.hasStartedItem THEN <<>>
                       ELSE <<Event("content_part.added", Message, u.textOutputIndex, <<>>)>>)
                   \o <<Event("output_text.delta", Message, u.textOutputIndex, <<k>>)>>
    BY <1>2, <1>9
  <2>2. \E v \in Translators :
              /\ v.hasStartedItem = st.hasStartedItem
              /\ sse' = sse \o ReasoningDone(st) \o Header(v) \o MessageAdded(v, st')
                   \o (IF v.hasStartedItem THEN <<>>
                       ELSE <<Event("content_part.added", Message, st'.textOutputIndex, <<>>)>>)
                   \o <<Event("output_text.delta", Message, st'.textOutputIndex, <<k>>)>>
    BY <1>3, <1>5, <2>1
  <2>3. (st.hasStartedItem \/ Responses(st)) = TRUE /\ u.hasStartedItem = TRUE
    BY <1>7, <1>9 DEF Translators
  <2>4. /\ u.api = t.api /\ u.hasStartedReasoning = t.hasStartedReasoning
        /\ u.hasEndedReasoning = t.hasEndedReasoning /\ u.fullOutputText = t.fullOutputText
        /\ u.fullThoughtText = t.fullThoughtText /\ u.activeFnCalls = t.activeFnCalls
        /\ u.modelParts = t.modelParts /\ u.isRefusal = t.isRefusal
        /\ u.chatToolIdx = t.chatToolIdx /\ u.textSig = t.textSig
    BY <1>6, <1>7
  <2>5. /\ u.api = st.api /\ u.hasStartedReasoning = st.hasStartedReasoning
        /\ u.hasEndedReasoning = (st.hasEndedReasoning \/ Ending(st))
        /\ u.fullOutputText = Append(st.fullOutputText, k)
        /\ u.fullThoughtText = st.fullThoughtText /\ u.activeFnCalls = st.activeFnCalls
        /\ u.modelParts = parts /\ u.isRefusal = st.isRefusal
        /\ u.chatToolIdx = st.chatToolIdx /\ u.textSig = Latest(st.textSig, sig)
    BY <1>3, <1>5, <2>4
  <2>6. st' = u
    BY <2>1
  <2> QED
    BY <1>7, <1>9, <2>2, <2>3, <2>5, <2>6 DEF parts
<1> QED
  BY <1>8, <1>9

LEMMA CallFields ==
  ASSUME st \in Translators, NEW k \in Nat, NEW sig \in Nat, HandleCall(k, sig)
  PROVE  /\ st' \in Translators
         /\ st'.activeFnCalls = Append(st.activeFnCalls, k)
         /\ st'.modelParts = Append(st.modelParts, [kind |-> "call", text |-> <<k>>, sig |-> sig])
         /\ st'.hasEndedReasoning = (st.hasEndedReasoning \/ Ending(st))
         /\ st'.api = st.api /\ st'.hasStartedReasoning = st.hasStartedReasoning
         /\ st'.fullThoughtText = st.fullThoughtText /\ st'.fullOutputText = st.fullOutputText
         /\ st'.hasStartedItem = st.hasStartedItem
         /\ st'.isRefusal = st.isRefusal /\ st'.textSig = st.textSig
         /\ ~Responses(st) =>
              /\ st'.chatToolIdx = st.chatToolIdx + 1
              /\ sse' = Append(sse, Event("chat.tool_calls", Call(k), st.chatToolIdx, <<k>>))
         /\ Responses(st) =>
              sse' = sse \o ReasoningDone(st)
                   \o <<Event("output_item.added", Call(k), st.nextOutputIndex, <<>>),
                        Event("function_call_arguments.delta", Call(k), st.nextOutputIndex, <<k>>),
                        Event("function_call_arguments.done", Call(k), st.nextOutputIndex, <<k>>),
                        Event("output_item.done", Call(k), st.nextOutputIndex, <<k>>)>>
<1> DEFINE part == [kind |-> "call", text |-> <<k>>, sig |-> sig]
           r == ReasoningEnded(st)
           t == [r EXCEPT !.modelParts = Append(@, part), !.activeFnCalls = Append(@, k)]
<1>1. HandleCall(k, sig) =>
        \/ /\ ~Responses(st) /\ st' = [t EXCEPT !.chatToolIdx = @ + 1]
           /\ sse' = Append(sse, Event("chat.tool_calls", Call(k), st.chatToolIdx, <<k>>))
        \/ /\ Responses(st) /\ st' = [t EXCEPT !.nextOutputIndex = @ + 1]
           /\ sse' = sse \o ReasoningDone(st)
                   \o <<Event("output_item.added", Call(k), st.nextOutputIndex, <<>>),
                        Event("function_call_arguments.delta", Call(k), st.nextOutputIndex, <<k>>),
                        Event("function_call_arguments.done", Call(k), st.nextOutputIndex, <<k>>),
                        Event("output_item.done", Call(k), st.nextOutputIndex, <<k>>)>>
  BY DEF HandleCall
<1>2. part \in Parts
  BY BitsOfPieces DEF Parts
<1>3. /\ r \in Translators
      /\ r.hasEndedReasoning = (st.hasEndedReasoning \/ Ending(st))
      /\ r.api = st.api /\ r.hasStartedReasoning = st.hasStartedReasoning
      /\ r.hasStartedItem = st.hasStartedItem /\ r.fullOutputText = st.fullOutputText
      /\ r.fullThoughtText = st.fullThoughtText /\ r.activeFnCalls = st.activeFnCalls
      /\ r.modelParts = st.modelParts /\ r.isRefusal = st.isRefusal
      /\ r.chatToolIdx = st.chatToolIdx /\ r.textSig = st.textSig
  BY EndedFields
<1> HIDE DEF r, part
<1>4. Append(r.modelParts, part) \in Seq(Parts) /\ Append(r.activeFnCalls, k) \in Seq(Nat)
  BY <1>2, <1>3, AppendProperties DEF Translators
<1>5. /\ t \in Translators
      /\ t.activeFnCalls = Append(st.activeFnCalls, k) /\ t.modelParts = Append(st.modelParts, part)
      /\ t.hasEndedReasoning = r.hasEndedReasoning
      /\ t.api = r.api /\ t.hasStartedReasoning = r.hasStartedReasoning
      /\ t.hasStartedItem = r.hasStartedItem /\ t.fullOutputText = r.fullOutputText
      /\ t.fullThoughtText = r.fullThoughtText
      /\ t.isRefusal = r.isRefusal /\ t.chatToolIdx = r.chatToolIdx /\ t.textSig = r.textSig
  BY <1>3, <1>4 DEF Translators
<1> HIDE DEF t
<1>6. ASSUME NEW u, u = [t EXCEPT !.chatToolIdx = @ + 1] \/ u = [t EXCEPT !.nextOutputIndex = @ + 1]
      PROVE  /\ u \in Translators
             /\ u.activeFnCalls = t.activeFnCalls /\ u.modelParts = t.modelParts
             /\ u.hasEndedReasoning = t.hasEndedReasoning
             /\ u.api = t.api /\ u.hasStartedReasoning = t.hasStartedReasoning
             /\ u.hasStartedItem = t.hasStartedItem /\ u.fullOutputText = t.fullOutputText
             /\ u.fullThoughtText = t.fullThoughtText
             /\ u.isRefusal = t.isRefusal /\ u.textSig = t.textSig
  <2>1. t.chatToolIdx + 1 \in Nat /\ t.nextOutputIndex + 1 \in Nat
    <3>1. t.chatToolIdx \in Nat /\ t.nextOutputIndex \in Nat
      BY <1>5 DEF Translators
    <3> QED
      BY <3>1
  <2>2. CASE u = [t EXCEPT !.chatToolIdx = @ + 1]
    BY <1>5, <2>1, <2>2 DEF Translators
  <2>3. CASE u = [t EXCEPT !.nextOutputIndex = @ + 1]
    BY <1>5, <2>1, <2>3 DEF Translators
  <2> QED
    BY <1>6, <2>2, <2>3
<1>7. t.chatToolIdx = st.chatToolIdx /\ [t EXCEPT !.chatToolIdx = @ + 1].chatToolIdx = t.chatToolIdx + 1
  BY <1>3, <1>5 DEF Translators
<1>8. CASE ~Responses(st)
  <2> DEFINE u == [t EXCEPT !.chatToolIdx = @ + 1]
  <2>1. /\ st' = u /\ sse' = Append(sse, Event("chat.tool_calls", Call(k), st.chatToolIdx, <<k>>))
    BY <1>1, <1>8
  <2>2. u.chatToolIdx = st.chatToolIdx + 1
    BY <1>7
  <2>3. /\ u \in Translators
        /\ u.activeFnCalls = t.activeFnCalls /\ u.modelParts = t.modelParts
        /\ u.hasEndedReasoning = t.hasEndedReasoning
        /\ u.api = t.api /\ u.hasStartedReasoning = t.hasStartedReasoning
        /\ u.hasStartedItem = t.hasStartedItem /\ u.fullOutputText = t.fullOutputText
        /\ u.fullThoughtText = t.fullThoughtText
        /\ u.isRefusal = t.isRefusal /\ u.textSig = t.textSig
    BY <1>6
  <2> HIDE DEF u
  <2> QED
    BY <1>3, <1>5, <1>8, <2>1, <2>2, <2>3 DEF part
<1>9. CASE Responses(st)
  BY <1>1, <1>3, <1>5, <1>6, <1>9 DEF part
<1> QED
  BY <1>8, <1>9
-----------------------------------------------------------------------------
(* What the flags and texts of the translator say the client has read. *)
Calls(s) == {Call(k) : k \in Range(s.activeFnCalls)}

Opened(s) == (IF s.hasStartedReasoning THEN {Reasoning} ELSE {})
               \cup (IF s.hasStartedItem THEN {Message} ELSE {}) \cup Calls(s)

Closed(s) == (IF s.hasEndedReasoning THEN {Reasoning} ELSE {}) \cup Calls(s)

Said(s) ==
  [item \in Names |->
     IF item = Reasoning THEN s.fullThoughtText
     ELSE IF item = Message THEN MessageContent(s)
     ELSE IF item \in Calls(s) THEN <<item[2]>> ELSE <<>>]

Followed(s, L) ==
  /\ Reads(L, Opened(s), Closed(s), FALSE, Said(s))
  /\ s.hasStartedReasoning <=> s.fullThoughtText # <<>>
  /\ s.hasEndedReasoning => s.hasStartedReasoning
  /\ s.hasStartedItem <=> s.fullOutputText # <<>>

ChatFollowed(s, L) ==
  /\ ChatReads(L, s.fullOutputText, s.fullThoughtText, s.activeFnCalls, s.chatToolIdx)
  /\ Of(L, "chat.refusal", Message) = {}

LEMMA CallsFacts ==
  ASSUME NEW s \in Translators
  PROVE  Reasoning \notin Calls(s) /\ Message \notin Calls(s) /\ Calls(s) \subseteq Names
<1>1. Range(s.activeFnCalls) \subseteq Nat
  BY RangeOfSeq DEF Translators
<1> QED
  BY <1>1, ItemNames DEF Calls

LEMMA GrownText ==
  ASSUME NEW s \in Seq(Nat), NEW k \in Nat
  PROVE  /\ Append(s, k) = s \o <<k>> /\ Append(s, k) # <<>>
         /\ Range(Append(s, k)) = Range(s) \cup {k}
<1>1. Append(s, k) = s \o <<k>> /\ Append(s, k) # <<>>
  <2>1. Append(s, k) = s \o <<k>>
    OBVIOUS
  <2>2. Append(s, k) # <<>>
    <3>1. Len(Append(s, k)) = Len(s) + 1 /\ Len(s) \in Nat /\ Len(<<>>) = 0
      BY AppendProperties, LenProperties, EmptySeq
    <3> QED
      BY <3>1
  <2> QED
    BY <2>1, <2>2
<1>2. Range(Append(s, k)) = Range(s) \cup {k}
  BY AppendProperties DEF Range
<1> QED
  BY <1>1, <1>2

LEMMA ThoughtFollowed ==
  ASSUME st \in Translators, NEW k \in Nat, NEW sig \in Nat, HandleThought(k, sig),
         Responses(st), ~st.isRefusal, Followed(st, sse)
  PROVE  Followed(st', sse') /\ (Shown(sse) => Shown(sse'))
<1> DEFINE i == st'.reasoningOutputIndex
           a == Event("output_item.added", Reasoning, i, <<>>)
           d == Event("reasoning_text.delta", Reasoning, i, <<k>>)
           opened == Opened(st) \cup {Reasoning}
           tail == IF st.hasStartedReasoning THEN <<>> ELSE <<a>>
<1>1. /\ st' \in Translators
      /\ st'.fullThoughtText = Append(st.fullThoughtText, k)
      /\ st'.hasStartedReasoning = TRUE
      /\ st'.hasEndedReasoning = st.hasEndedReasoning
      /\ st'.hasStartedItem = st.hasStartedItem /\ st'.fullOutputText = st.fullOutputText
      /\ st'.activeFnCalls = st.activeFnCalls /\ st'.isRefusal = st.isRefusal
  BY ThoughtFields
<1>2. PICK t : sse' = sse \o Header(t) \o tail \o <<d>>
  BY ThoughtEvents
<1>3. i \in Nat
  BY <1>1 DEF Translators
<1> HIDE DEF i
<1>4. /\ a \in Events /\ a.type = "output_item.added" /\ a.item = Reasoning
      /\ d \in Events /\ d.type = "reasoning_text.delta" /\ d.item = Reasoning /\ d.text = <<k>>
  BY <1>3, ItemNames, BitsOfPieces DEF Event, Events, EventTypes
<1> HIDE DEF a, d
<1> DEFINE L1 == sse \o Header(t)
           L2 == L1 \o tail
<1>5. Reads(sse, Opened(st), Closed(st), FALSE, Said(st))
  BY DEF Followed
<1>6. Reads(L1, Opened(st), Closed(st), FALSE, Said(st)) /\ (Shown(sse) => Shown(L1))
  BY <1>5, HeaderReads
<1> HIDE DEF L1
<1>7. L1 \in Seq(Events)
  BY <1>6 DEF Reads, Kept
<1>8. st.hasStartedReasoning <=> Reasoning \in Opened(st)
  BY CallsFacts, ItemNames DEF Opened
<1>9. Reads(L2, opened, Closed(st), FALSE, Said(st)) /\ (Shown(L1) => Shown(L2))
  <2>1. CASE ~st.hasStartedReasoning
    <3>1. L2 = Append(L1, a)
      BY <1>4, <1>7, <2>1, Tails
    <3>2. /\ Reads(Append(L1, a), Opened(st) \cup {a.item}, Closed(st), FALSE, Said(st))
          /\ Shown(L1) => Shown(Append(L1, a))
      BY <1>4, <1>6, <1>8, <2>1, ReadAdded
    <3> QED
      BY <1>4, <3>1, <3>2
  <2>2. CASE st.hasStartedReasoning
    <3>1. L2 = L1 /\ opened = Opened(st)
      BY <1>7, <1>8, <2>2, Tails
    <3> QED
      BY <1>6, <3>1
  <2> QED
    BY <2>1, <2>2
<1> HIDE DEF L2
<1>10. L2 \in Seq(Events) /\ sse' = Append(L2, d)
  <2>1. L2 \in Seq(Events)
    BY <1>9 DEF Reads, Kept
  <2>2. sse' = L2 \o <<d>>
    BY <1>2 DEF L1, L2
  <2> QED
    BY <1>4, <2>1, <2>2, Tails
<1>11. Reads(sse', opened, Closed(st), FALSE, Saying(Said(st), Reasoning, <<k>>)) /\ (Shown(sse) => Shown(sse'))
  <2>1. d.type \in Deltas /\ d.item \in opened /\ d.item # Message
    BY <1>4, ItemNames DEF Deltas
  <2>2. /\ Reads(Append(L2, d), opened, Closed(st), FALSE, Saying(Said(st), d.item, d.text))
        /\ Shown(L2) => Shown(Append(L2, d))
    BY <1>4, <1>9, <2>1, ReadDelta
  <2> QED
    BY <1>4, <1>6, <1>9, <1>10, <2>2
<1>12. /\ Calls(st') = Calls(st) /\ Opened(st') = opened /\ Closed(st') = Closed(st)
       /\ \A item \in Names : Said(st')[item] = Saying(Said(st), Reasoning, <<k>>)[item]
  <2>1. Calls(st') = Calls(st)
    BY <1>1 DEF Calls
  <2>2. Opened(st') = opened /\ Closed(st') = Closed(st)
    BY <1>1, <2>1 DEF Opened, Closed
  <2>3. MessageContent(st') = MessageContent(st)
    BY <1>1 DEF MessageContent
  <2>4. Append(st.fullThoughtText, k) = st.fullThoughtText \o <<k>>
    BY GrownText DEF Translators
  <2> QED
    BY <1>1, <2>1, <2>2, <2>3, <2>4 DEF Said, Saying
<1>13. Reads(sse', Opened(st'), Closed(st'), FALSE, Said(st'))
  BY <1>11, <1>12, ReadsSame
<1>14. st'.fullThoughtText # <<>>
  <2>1. st.fullThoughtText \in Seq(Nat)
    BY DEF Translators
  <2> QED
    BY <1>1, <2>1, GrownText
<1> QED
  BY <1>1, <1>11, <1>13, <1>14 DEF Followed

(* The reasoning item, when it ends. *)
LEMMA EndingReads ==
  ASSUME st \in Translators, Responses(st), Followed(st, sse)
  PROVE  LET L == sse \o ReasoningDone(st)
             closed == Closed(st) \cup (IF Ending(st) THEN {Reasoning} ELSE {})
         IN  /\ Reads(L, Opened(st), closed, FALSE, Said(st))
             /\ Shown(sse) => Shown(L)
<1>1. Reads(sse, Opened(st), Closed(st), FALSE, Said(st))
  BY DEF Followed
<1>2. Ending(st) => Reasoning \in Opened(st) /\ Reasoning \notin Closed(st)
  BY CallsFacts DEF Ending, Opened, Closed
<1> QED
  BY <1>1, <1>2, ReasoningDoneReads

LEMMA TextFollowed ==
  ASSUME st \in Translators, NEW k \in Nat, NEW sig \in Nat, HandleText(k, sig),
         Responses(st), ~st.isRefusal, Followed(st, sse)
  PROVE  Followed(st', sse') /\ Shown(sse')
<1> DEFINE i == st'.textOutputIndex
           d == Event("output_text.delta", Message, i, <<k>>)
           opened == Opened(st) \cup {Message}
           closed == Closed(st) \cup (IF Ending(st) THEN {Reasoning} ELSE {})
           said == Said(st)
<1>1. /\ st' \in Translators
      /\ st'.fullOutputText = Append(st.fullOutputText, k)
      /\ st'.hasEndedReasoning = (st.hasEndedReasoning \/ Ending(st))
      /\ st'.hasStartedItem = TRUE
      /\ st'.hasStartedReasoning = st.hasStartedReasoning
      /\ st'.fullThoughtText = st.fullThoughtText /\ st'.activeFnCalls = st.activeFnCalls
      /\ st'.isRefusal = st.isRefusal
  BY TextFields
<1>2. PICK t \in Translators :
        /\ t.hasStartedItem = st.hasStartedItem
        /\ sse' = sse \o ReasoningDone(st) \o Header(t) \o MessageAdded(t, st')
              \o (IF t.hasStartedItem THEN <<>>
                  ELSE <<Event("content_part.added", Message, i, <<>>)>>)
              \o <<d>>
  BY TextFields
<1>3. i \in Nat
  BY <1>1 DEF Translators
<1> HIDE DEF i
<1>4. d \in Events /\ d.type = "output_text.delta" /\ d.item = Message /\ d.text = <<k>>
  BY <1>3, ItemNames, BitsOfPieces DEF Event, Events, EventTypes
<1> HIDE DEF d
<1> DEFINE tail == IF t.hasStartedItem THEN <<>> ELSE <<Event("content_part.added", Message, i, <<>>)>>
           L1 == sse \o ReasoningDone(st)
           L2 == L1 \o Header(t)
           L3 == L2 \o MessageAdded(t, st')
           L4 == L3 \o tail
<1>5. Reads(L1, Opened(st), closed, FALSE, said)
  BY EndingReads
<1> HIDE DEF L1, closed, said
<1>6. Reads(L2, Opened(st), closed, FALSE, said)
  BY <1>5, HeaderReads
<1> HIDE DEF L2
<1>7. Reads(L3, opened, closed, FALSE, said)
  <2>1. t.hasStartedItem <=> Message \in Opened(st)
    BY <1>2, CallsFacts, ItemNames DEF Opened
  <2> QED
    BY <1>1, <1>6, <2>1, MessageAddedReads
<1> HIDE DEF L3
<1>8. Reads(L4, opened, closed, FALSE, said)
  BY <1>3, <1>7, PartAddedReads
<1>9. L4 \in Seq(Events) /\ sse' = Append(L4, d)
  <2>1. L4 \in Seq(Events)
    BY <1>8 DEF Reads, Kept
  <2>2. sse' = L4 \o <<d>>
    BY <1>2 DEF L1, L2, L3
  <2> HIDE DEF L4
  <2> QED
    BY <1>4, <2>1, <2>2, Tails
<1> HIDE DEF L4
<1>10. Reads(sse', opened, closed, FALSE, Saying(said, Message, <<k>>)) /\ Shown(sse')
  <2>1. d.type \in Deltas /\ d.item \in opened
    BY <1>4 DEF Deltas
  <2>2. Shows(d)
    BY <1>4, ItemNames, BitsOfPieces DEF Shows, ShownTypes
  <2>3. /\ Reads(Append(L4, d), opened, closed, FALSE, Saying(said, d.item, d.text))
        /\ Shows(d) => Shown(Append(L4, d))
    BY <1>4, <1>8, <2>1, ReadDelta
  <2> QED
    BY <1>4, <1>9, <2>2, <2>3
<1>11. Opened(st') = opened /\ Closed(st') = closed
  <2>1. Calls(st') = Calls(st)
    BY <1>1 DEF Calls
  <2> QED
    BY <1>1, <2>1 DEF Opened, Closed, closed
<1>12. \A item \in Names : Said(st')[item] = Saying(said, Message, <<k>>)[item]
  <2>1. Calls(st') = Calls(st)
    BY <1>1 DEF Calls
  <2>2. MessageContent(st) = st.fullOutputText /\ MessageContent(st') = st.fullOutputText \o <<k>>
    BY <1>1, GrownText DEF MessageContent, Translators
  <2> QED
    BY <1>1, <2>1, <2>2, ItemNames DEF Said, Saying, said
<1>13. Reads(sse', Opened(st'), Closed(st'), FALSE, Said(st'))
  BY <1>10, <1>11, <1>12, ReadsSame
<1>14. st'.fullOutputText # <<>>
  <2>1. st.fullOutputText \in Seq(Nat)
    BY DEF Translators
  <2> QED
    BY <1>1, <2>1, GrownText
<1>15. /\ st'.hasStartedReasoning <=> st'.fullThoughtText # <<>>
       /\ st'.hasEndedReasoning => st'.hasStartedReasoning
  BY <1>1 DEF Followed, Ending
<1> QED
  BY <1>1, <1>10, <1>13, <1>14, <1>15 DEF Followed

LEMMA CallFollowed ==
  ASSUME st \in Translators, NEW k \in Nat, NEW sig \in Nat, HandleCall(k, sig),
         Responses(st), ~st.isRefusal, Followed(st, sse), k \notin Range(st.activeFnCalls)
  PROVE  Followed(st', sse') /\ Shown(sse')
<1> DEFINE i == st.nextOutputIndex
           opened == Opened(st) \cup {Call(k)}
           ended == Closed(st) \cup (IF Ending(st) THEN {Reasoning} ELSE {})
           closed == ended \cup {Call(k)}
           said == Said(st)
           L1 == sse \o ReasoningDone(st)
<1>1. /\ st' \in Translators
      /\ st'.activeFnCalls = Append(st.activeFnCalls, k)
      /\ st'.hasEndedReasoning = (st.hasEndedReasoning \/ Ending(st))
      /\ st'.hasStartedReasoning = st.hasStartedReasoning
      /\ st'.hasStartedItem = st.hasStartedItem
      /\ st'.fullThoughtText = st.fullThoughtText /\ st'.fullOutputText = st.fullOutputText
      /\ st'.isRefusal = st.isRefusal
      /\ sse' = L1 \o <<Event("output_item.added", Call(k), i, <<>>),
                        Event("function_call_arguments.delta", Call(k), i, <<k>>),
                        Event("function_call_arguments.done", Call(k), i, <<k>>),
                        Event("output_item.done", Call(k), i, <<k>>)>>
  BY CallFields
<1>2. i \in Nat
  BY DEF Translators
<1>3. Call(k) \notin Calls(st) /\ Call(k) \notin {Reasoning, Message}
  <2>1. Range(st.activeFnCalls) \subseteq Nat
    BY RangeOfSeq DEF Translators
  <2> QED
    BY <2>1, ItemNames DEF Calls
<1>4. Call(k) \notin Opened(st) /\ Call(k) \notin ended
  BY <1>3 DEF Opened, Closed
<1>5. Reads(L1, Opened(st), ended, FALSE, said)
  BY EndingReads
<1> HIDE DEF L1, ended, said, i
<1>6. Reads(sse', opened, closed, FALSE, Saying(said, Call(k), <<k>>)) /\ Shown(sse')
  BY <1>1, <1>2, <1>4, <1>5, CallReads
<1>7. Calls(st') = Calls(st) \cup {Call(k)}
  <2>1. Range(st'.activeFnCalls) = Range(st.activeFnCalls) \cup {k}
    <3>1. st.activeFnCalls \in Seq(Nat)
      BY DEF Translators
    <3> QED
      BY <1>1, <3>1, GrownText
  <2> QED
    BY <2>1 DEF Calls
<1>8. Opened(st') = opened /\ Closed(st') = closed
  BY <1>1, <1>7 DEF Opened, Closed, ended
<1>9. \A item \in Names : Said(st')[item] = Saying(said, Call(k), <<k>>)[item]
  <2>1. MessageContent(st') = MessageContent(st)
    BY <1>1 DEF MessageContent
  <2> SUFFICES ASSUME NEW item \in Names
               PROVE  Said(st')[item] = Saying(said, Call(k), <<k>>)[item]
    OBVIOUS
  <2>2. CASE item = Call(k)
    <3>1. said[item] = <<>>
      BY <1>3, <2>2 DEF Said, said
    <3>2. Said(st')[item] = <<item[2]>>
      BY <1>3, <1>7, <2>2 DEF Said
    <3>3. item[2] = k
      BY <2>2 DEF Call
    <3> QED
      BY <2>2, <3>1, <3>2, <3>3 DEF Saying
  <2>3. CASE item # Call(k)
    BY <1>1, <1>7, <2>1, <2>3 DEF Said, Saying, said
  <2> QED
    BY <2>2, <2>3
<1>10. Reads(sse', Opened(st'), Closed(st'), FALSE, Said(st'))
  BY <1>6, <1>8, <1>9, ReadsSame
<1>11. /\ st'.hasStartedReasoning <=> st'.fullThoughtText # <<>>
       /\ st'.hasEndedReasoning => st'.hasStartedReasoning
       /\ st'.hasStartedItem <=> st'.fullOutputText # <<>>
  BY <1>1 DEF Followed, Ending
<1> QED
  BY <1>6, <1>10, <1>11 DEF Followed

(* A chat client reads each part as it comes. *)
LEMMA PartChatFollowed ==
  ASSUME st \in Translators, NEW k \in Nat, NEW sig \in Nat, ~Responses(st),
         HandleThought(k, sig) \/ HandleText(k, sig) \/ HandleCall(k, sig), ChatFollowed(st, sse)
  PROVE  /\ ChatFollowed(st', sse')
         /\ Shown(sse) \/ ~HandleThought(k, sig) => Shown(sse')
<1>1. /\ ChatReads(sse, st.fullOutputText, st.fullThoughtText, st.activeFnCalls, st.chatToolIdx)
      /\ Of(sse, "chat.refusal", Message) = {}
  BY DEF ChatFollowed
<1>2. /\ st.fullOutputText \in Seq(Nat) /\ st.fullThoughtText \in Seq(Nat)
      /\ st.activeFnCalls \in Seq(Nat) /\ st.chatToolIdx \in Nat
  BY DEF Translators
<1>3. CASE HandleThought(k, sig)
  <2> DEFINE e == Event("chat.reasoning_content", Reasoning, NoIndex, <<k>>)
  <2>1. /\ e \in Events /\ e.type = "chat.reasoning_content" /\ e.item = Reasoning /\ e.text = <<k>>
    BY ItemNames, BitsOfPieces DEF Event, Events, EventTypes, NoIndex
  <2>2. sse' = Append(sse, e)
    BY <1>3, ThoughtEvents
  <2>3. /\ st'.fullThoughtText = st.fullThoughtText \o <<k>> /\ st'.fullOutputText = st.fullOutputText
        /\ st'.activeFnCalls = st.activeFnCalls /\ st'.chatToolIdx = st.chatToolIdx
    BY <1>2, <1>3, ThoughtFields, GrownText
  <2> HIDE DEF e
  <2>5. /\ ChatReads(Append(sse, e), st.fullOutputText, st.fullThoughtText \o e.text,
                    st.activeFnCalls, st.chatToolIdx)
        /\ Of(Append(sse, e), "chat.refusal", Message) = {}
        /\ Shown(sse) \/ Shows(e) => Shown(Append(sse, e))
    BY <1>1, <2>1, ChatThinks
  <2>6. ~HandleThought(k, sig) \/ Shown(sse) => Shown(sse')
    BY <1>3, <2>2, <2>5
  <2> QED
    BY <2>1, <2>2, <2>3, <2>5, <2>6 DEF ChatFollowed
<1>4. CASE HandleText(k, sig)
  <2> DEFINE e == Event("chat.content", Message, NoIndex, <<k>>)
  <2>1. /\ e \in Events /\ e.type = "chat.content" /\ e.item = Message /\ e.text = <<k>>
    BY ItemNames, BitsOfPieces DEF Event, Events, EventTypes, NoIndex
  <2>2. sse' = Append(sse, e)
    BY <1>4, TextFields
  <2>3. /\ st'.fullOutputText = st.fullOutputText \o <<k>> /\ st'.fullThoughtText = st.fullThoughtText
        /\ st'.activeFnCalls = st.activeFnCalls /\ st'.chatToolIdx = st.chatToolIdx
    BY <1>2, <1>4, TextFields, GrownText
  <2> HIDE DEF e
  <2>4. Shows(e)
    BY <2>1, ItemNames, BitsOfPieces DEF Shows, ShownTypes
  <2>5. /\ ChatReads(Append(sse, e), st.fullOutputText \o e.text, st.fullThoughtText,
                    st.activeFnCalls, st.chatToolIdx)
        /\ Of(Append(sse, e), "chat.refusal", Message) = {}
        /\ Shown(sse) \/ Shows(e) => Shown(Append(sse, e))
    BY <1>1, <2>1, ChatSays
  <2>6. ~HandleThought(k, sig) \/ Shown(sse) => Shown(sse')
    BY <2>2, <2>4, <2>5
  <2> QED
    BY <2>1, <2>2, <2>3, <2>5, <2>6 DEF ChatFollowed
<1>5. CASE HandleCall(k, sig)
  <2> DEFINE e == Event("chat.tool_calls", Call(k), st.chatToolIdx, <<k>>)
  <2>1. /\ e \in Events /\ e.type = "chat.tool_calls" /\ e.item = Call(k) /\ e.text = <<k>>
        /\ e.index = st.chatToolIdx
    BY <1>2, ItemNames, BitsOfPieces DEF Event, Events, EventTypes
  <2>2. sse' = Append(sse, e)
    BY <1>5, CallFields
  <2>3. /\ st'.activeFnCalls = st.activeFnCalls \o <<k>> /\ st'.chatToolIdx = st.chatToolIdx + 1
        /\ st'.fullOutputText = st.fullOutputText /\ st'.fullThoughtText = st.fullThoughtText
    BY <1>2, <1>5, CallFields, GrownText
  <2> HIDE DEF e
  <2>4. Shows(e)
    BY <2>1, ItemNames, BitsOfPieces DEF Shows, ShownTypes
  <2>5. /\ ChatReads(Append(sse, e), st.fullOutputText, st.fullThoughtText,
                    st.activeFnCalls \o e.text, st.chatToolIdx + 1)
        /\ Of(Append(sse, e), "chat.refusal", Message) = {}
        /\ Shown(sse) \/ Shows(e) => Shown(Append(sse, e))
    BY <1>1, <2>1, ChatCalls
  <2>6. ~HandleThought(k, sig) \/ Shown(sse) => Shown(sse')
    BY <2>2, <2>4, <2>5
  <2> QED
    BY <2>1, <2>2, <2>3, <2>5, <2>6 DEF ChatFollowed
<1> QED
  BY <1>3, <1>4, <1>5
-----------------------------------------------------------------------------
(* The pieces Gemini has sent. *)
Received == [kind : {"thought", "text", "call", "empty"}, signed : BOOLEAN]

Pieces(parts, kinds) ==
  FlattenSeq([k \in DOMAIN parts |-> IF parts[k].kind \in kinds THEN <<k>> ELSE <<>>])

LEMMA PiecesMore ==
  ASSUME NEW parts \in Seq(Received), NEW p \in Received, NEW kinds
  PROVE  /\ Pieces(parts, kinds) \in Seq(Nat)
         /\ Range(Pieces(parts, kinds)) \subseteq 1..Len(parts)
         /\ Pieces(Append(parts, p), kinds)
              = IF p.kind \in kinds THEN Append(Pieces(parts, kinds), Len(parts) + 1)
                ELSE Pieces(parts, kinds)
<1> DEFINE n == Len(parts)
           more == Append(parts, p)
           seqs == [k \in 1..n |-> IF parts[k].kind \in kinds THEN <<k>> ELSE <<>>]
           s == IF p.kind \in kinds THEN <<n + 1>> ELSE <<>>
           longer == [k \in 1..(n + 1) |-> IF more[k].kind \in kinds THEN <<k>> ELSE <<>>]
<1>1. /\ n \in Nat /\ DOMAIN parts = 1..n
      /\ more \in Seq(Received) /\ DOMAIN more = 1..(n + 1)
      /\ \A k \in 1..n : more[k] = parts[k]
      /\ more[n + 1] = p
  <2>1. more \in Seq(Received) /\ Len(more) = n + 1
    BY AppendProperties
  <2>2. DOMAIN more = 1..(n + 1)
    BY <2>1, LenProperties
  <2> QED
    BY <2>1, <2>2, AppendProperties, LenProperties
<1> HIDE DEF more, n
<1>2. seqs \in Seq(Seq(Nat)) /\ Len(seqs) = n
  <2>1. \A k \in 1..n : seqs[k] \in Seq(Nat)
    BY <1>1, BitsOfPieces
  <2> HIDE DEF seqs
  <2>2. seqs \in [1..n -> Seq(Nat)]
    BY <2>1 DEF seqs
  <2> QED
    BY <1>1, <2>2
<1>3. s \in Seq(Nat)
  BY <1>1, BitsOfPieces
<1>9. \A k \in 1..n : seqs[k] = IF parts[k].kind \in kinds THEN <<k>> ELSE <<>>
  OBVIOUS
<1> HIDE DEF seqs, s
<1>4. longer = Append(seqs, s)
  <2>1. Append(seqs, s) \in Seq(Seq(Nat)) /\ Len(Append(seqs, s)) = n + 1
    BY <1>2, <1>3, AppendProperties
  <2>2. DOMAIN Append(seqs, s) = 1..(n + 1)
    BY <2>1, LenProperties
  <2>3. ASSUME NEW k \in 1..(n + 1) PROVE Append(seqs, s)[k] = longer[k]
    <3>1. CASE k \in 1..n
      <4>1. Append(seqs, s)[k] = seqs[k]
        BY <1>2, <1>3, <3>1, AppendProperties
      <4> QED
        BY <1>1, <1>9, <3>1, <4>1
    <3>2. CASE k = n + 1
      <4>1. Append(seqs, s)[k] = s
        BY <1>2, <1>3, <3>2, AppendProperties
      <4> QED
        BY <1>1, <3>2, <4>1 DEF s
    <3>3. k \in 1..n \/ k = n + 1
      BY <1>1, <2>3
    <3> HIDE DEF longer
    <3> QED
      BY <3>1, <3>2, <3>3
  <2>4. DOMAIN longer = 1..(n + 1) /\ longer = [k \in DOMAIN longer |-> longer[k]]
    OBVIOUS
  <2>5. Append(seqs, s) = [k \in DOMAIN Append(seqs, s) |-> Append(seqs, s)[k]]
    <3>1. Append(seqs, s) \in [1..(n + 1) -> Seq(Nat)]
      BY <2>1, LenProperties
    <3> QED
      BY <3>1
  <2> HIDE DEF longer
  <2> QED
    BY <2>2, <2>3, <2>4, <2>5
<1>5. Pieces(parts, kinds) = FlattenSeq(seqs) /\ Pieces(more, kinds) = FlattenSeq(longer)
  BY <1>1 DEF Pieces, seqs
<1> HIDE DEF longer
<1>6. /\ FlattenSeq(seqs) \in Seq(Nat)
      /\ FlattenSeq(Append(seqs, s)) = FlattenSeq(seqs) \o s
  BY <1>2, <1>3, FlattenAppend
<1>7. Range(FlattenSeq(seqs)) \subseteq 1..n
  <2>1. Range(FlattenSeq(seqs)) = UNION {Range(seqs[i]) : i \in DOMAIN seqs}
    BY <1>2, FlattenRange
  <2>2. \A k \in 1..n : Range(seqs[k]) \subseteq {k}
    <3> SUFFICES ASSUME NEW k \in 1..n PROVE Range(seqs[k]) \subseteq {k}
      OBVIOUS
    <3>1. seqs[k] = <<k>> \/ seqs[k] = <<>>
      BY <1>9
    <3>2. Range(<<k>>) = {k} /\ Range(<<>>) = {}
      BY DEF Range
    <3> QED
      BY <3>1, <3>2
  <2>3. DOMAIN seqs = 1..n
    BY DEF seqs
  <2> QED
    BY <2>1, <2>2, <2>3
<1>8. Pieces(more, kinds) = IF p.kind \in kinds THEN Append(FlattenSeq(seqs), n + 1) ELSE FlattenSeq(seqs)
  <2>1. Pieces(more, kinds) = FlattenSeq(seqs) \o s
    BY <1>4, <1>5, <1>6
  <2>2. FlattenSeq(seqs) \o <<>> = FlattenSeq(seqs)
    BY <1>6, ConcatEmptySeq
  <2>3. FlattenSeq(seqs) \o <<n + 1>> = Append(FlattenSeq(seqs), n + 1)
    BY <1>1, <1>6
  <2> QED
    BY <2>1, <2>2, <2>3 DEF s
<1> QED
  BY <1>5, <1>6, <1>7, <1>8 DEF n, more

LEMMA PiecesStep ==
  ASSUME received \in Seq(Received), NEW p \in Received, received' = Append(received, p), NEW kinds
  PROVE  /\ PiecesOf(kinds) \in Seq(Nat) /\ Range(PiecesOf(kinds)) \subseteq 1..Len(received)
         /\ PiecesOf(kinds)' = IF p.kind \in kinds THEN Append(PiecesOf(kinds), Len(received) + 1)
                               ELSE PiecesOf(kinds)
<1>1. PiecesOf(kinds) = Pieces(received, kinds) /\ PiecesOf(kinds)' = Pieces(received', kinds)
  BY DEF PiecesOf, Pieces
<1> QED
  BY <1>1, PiecesMore
-----------------------------------------------------------------------------
(* The turn the model has said, part by part. *)
Spoken == {"thought", "text", "call"}

Signed(part, R) == {k \in Range(part.text) : R[k].signed}

(* A part is made of pieces of its kind and carries the last signature     *)
(* among theirs.                                                           *)
PartOK(part, R) ==
  /\ Range(part.text) \subseteq 1..Len(R)
  /\ \A k \in Range(part.text) : R[k].kind = part.kind
  /\ part.kind = "call" => Len(part.text) = 1
  /\ part.sig = IF Signed(part, R) = {} THEN NoSig ELSE Max(Signed(part, R))

(* Neighbours that belong into one part are in one part. *)
Apart(p, q) == p.kind = "call" \/ p.kind # q.kind

TextOf == [p \in Parts |-> p.text]

TurnOK(parts, R) ==
  /\ FlatMap(TextOf, parts) = Pieces(R, Spoken)
  /\ \A i \in 1..Len(parts) : PartOK(parts[i], R)
  /\ \A i \in 1..(Len(parts) - 1) : Apart(parts[i], parts[i + 1])

LEMMA MoreReceived ==
  ASSUME NEW R \in Seq(Received), NEW p \in Received
  PROVE  LET M == Append(R, p)
         IN  /\ M \in Seq(Received) /\ Len(R) \in Nat /\ Len(M) = Len(R) + 1 /\ M[Len(R) + 1] = p
             /\ \A k \in 1..Len(R) : M[k] = R[k]
BY AppendProperties, LenProperties

LEMMA MaxIs ==
  ASSUME NEW S \in SUBSET Nat, NEW m \in S, \A k \in S : k <= m
  PROVE  Max(S) = m
<1>1. Max(S) = CHOOSE x \in S : \A y \in S : x >= y
  BY DEF Max
<1>2. \A x \in S : (\A y \in S : x >= y) => x = m
  OBVIOUS
<1>3. \A y \in S : m >= y
  OBVIOUS
<1> QED
  BY <1>1, <1>2, <1>3

LEMMA PartStays ==
  ASSUME NEW R \in Seq(Received), NEW p \in Received, NEW part, PartOK(part, R)
  PROVE  PartOK(part, Append(R, p))
<1> DEFINE M == Append(R, p)
<1>1. Len(R) \in Nat /\ Len(M) = Len(R) + 1 /\ \A k \in 1..Len(R) : M[k] = R[k]
  BY MoreReceived
<1> HIDE DEF M
<1>2. Range(part.text) \subseteq 1..Len(R)
  BY DEF PartOK
<1>3. Signed(part, M) = Signed(part, R)
  BY <1>1, <1>2 DEF Signed
<1>4. Range(part.text) \subseteq 1..Len(M)
  BY <1>1, <1>2
<1>5. PartOK(part, M)
  BY <1>1, <1>2, <1>3, <1>4 DEF PartOK
<1> QED
  BY <1>5 DEF M

(* A part of one piece, the newest. *)
LEMMA PartBegins ==
  ASSUME NEW R \in Seq(Received), NEW p \in Received, p.kind \in Spoken,
         NEW part \in Parts, part.kind = p.kind, part.text = <<Len(R) + 1>>,
         part.sig = IF p.signed THEN Len(R) + 1 ELSE NoSig
  PROVE  PartOK(part, Append(R, p))
<1> DEFINE M == Append(R, p)
           k == Len(R) + 1
<1>1. Len(R) \in Nat /\ Len(M) = k /\ M[k] = p
  BY MoreReceived
<1>2. Range(part.text) = {k} /\ Len(part.text) = 1
  BY DEF Range
<1>3. k \in Nat
  BY <1>1
<1> HIDE DEF M, k
<1>4. Signed(part, M) = IF p.signed THEN {k} ELSE {}
  BY <1>1, <1>2 DEF Signed
<1>5. Max({k}) = k
  <2> DEFINE S == {k}
  <2>1. S \in SUBSET Nat /\ k \in S /\ \A j \in S : j <= k
    BY <1>3
  <2> HIDE DEF S
  <2>2. Max(S) = k
    BY <2>1, MaxIs
  <2> QED
    BY <2>2 DEF S
<1>6. part.sig = IF Signed(part, M) = {} THEN NoSig ELSE Max(Signed(part, M))
  BY <1>4, <1>5 DEF k
<1>7. Range(part.text) \subseteq 1..Len(M)
  <2>1. k \in 1..k
    BY <1>1 DEF k
  <2> QED
    BY <1>1, <1>2, <2>1
<1>8. PartOK(part, M)
  BY <1>1, <1>2, <1>6, <1>7 DEF PartOK
<1> QED
  BY <1>8 DEF M

(* A part takes the newest piece. *)
LEMMA PartGrows ==
  ASSUME NEW R \in Seq(Received), NEW p \in Received, NEW part \in Parts, PartOK(part, R),
         part.kind = p.kind, p.kind # "call",
         NEW more \in Parts, more.kind = part.kind, more.text = Append(part.text, Len(R) + 1),
         more.sig = IF p.signed THEN Len(R) + 1 ELSE part.sig
  PROVE  PartOK(more, Append(R, p))
<1> DEFINE M == Append(R, p)
           k == Len(R) + 1
<1>1. /\ Len(R) \in Nat /\ Len(M) = k /\ M[k] = p
      /\ \A j \in 1..Len(R) : M[j] = R[j]
  BY MoreReceived
<1>2. Range(more.text) = Range(part.text) \cup {k}
  <2>1. part.text \in Seq(Nat) /\ k \in Nat
    BY <1>1 DEF Parts
  <2> HIDE DEF k
  <2>2. more.text = Append(part.text, k)
    BY DEF k
  <2> QED
    BY <2>1, <2>2, GrownText
<1>3. Range(part.text) \subseteq 1..Len(R) /\ \A j \in Range(part.text) : R[j].kind = part.kind
  BY DEF PartOK
<1> HIDE DEF M
<1>4. Signed(more, M) = Signed(part, R) \cup (IF p.signed THEN {k} ELSE {})
  BY <1>1, <1>2, <1>3 DEF Signed
<1>5. Signed(part, R) \subseteq 1..Len(R)
  BY <1>3 DEF Signed
<1>6. more.sig = IF Signed(more, M) = {} THEN NoSig ELSE Max(Signed(more, M))
  <2>1. CASE p.signed
    <3>1. k \in Signed(more, M) /\ Signed(more, M) \subseteq Nat /\ \A j \in Signed(more, M) : j <= k
      BY <1>1, <1>4, <1>5, <2>1
    <3>2. Max(Signed(more, M)) = k
      BY <3>1, MaxIs
    <3> QED
      BY <2>1, <3>1, <3>2
  <2>2. CASE ~p.signed
    <3>1. Signed(more, M) = Signed(part, R) /\ more.sig = part.sig
      BY <1>4, <2>2
    <3> QED
      BY <3>1 DEF PartOK
  <2> QED
    BY <2>1, <2>2
<1>7. Range(more.text) \subseteq 1..Len(M) /\ \A j \in Range(more.text) : M[j].kind = more.kind
  <2>1. k \in 1..k /\ 1..Len(R) \subseteq 1..k
    BY <1>1
  <2> HIDE DEF k
  <2> QED
    BY <1>1, <1>2, <1>3, <2>1
<1>8. PartOK(more, M)
  BY <1>6, <1>7 DEF PartOK
<1> QED
  BY <1>8 DEF M

(* The last part of a turn, and the parts before it. *)
LEMMA LastPart ==
  ASSUME NEW parts \in Seq(Parts), Len(parts) > 0
  PROVE  \E front \in Seq(Parts) :
           /\ Len(front) = Len(parts) - 1
           /\ \A i \in 1..Len(front) : front[i] = parts[i]
           /\ parts = Append(front, parts[Len(parts)])
           /\ \A e \in Parts : [parts EXCEPT ![Len(parts)] = e] = Append(front, e)
<1> DEFINE n == Len(parts)
           front == SubSeq(parts, 1, n - 1)
<1>1. n \in Nat /\ n >= 1 /\ \A i \in 1..n : parts[i] \in Parts
  BY LenProperties, ElementOfSeq
<1>2. front \in Seq(Parts) /\ Len(front) = n - 1 /\ \A i \in 1..(n - 1) : front[i] = parts[i]
  <2>1. \A i \in 1..(n - 1) : parts[i] \in Parts
    BY <1>1
  <2>2. n - 1 \in Int /\ 1 \in Int
    BY <1>1
  <2> HIDE DEF n
  <2>3. /\ front \in Seq(Parts)
        /\ Len(front) = IF 1 <= n - 1 THEN (n - 1) - 1 + 1 ELSE 0
        /\ \A i \in 1..((n - 1) - 1 + 1) : front[i] = parts[1 + i - 1]
    BY <2>1, <2>2, SubSeqProperties
  <2>4. (n - 1) - 1 + 1 = n - 1 /\ \A i \in 1..(n - 1) : 1 + i - 1 = i
    BY <1>1
  <2> QED
    BY <1>1, <2>3, <2>4
<1> HIDE DEF front, n
<1>3. \A e \in Parts : /\ Append(front, e) \in Seq(Parts) /\ Len(Append(front, e)) = n
                       /\ \A i \in 1..(n - 1) : Append(front, e)[i] = parts[i]
                       /\ Append(front, e)[n] = e
  <2> SUFFICES ASSUME NEW e \in Parts
               PROVE  /\ Append(front, e) \in Seq(Parts) /\ Len(Append(front, e)) = n
                      /\ \A i \in 1..(n - 1) : Append(front, e)[i] = parts[i]
                      /\ Append(front, e)[n] = e
    OBVIOUS
  <2>1. /\ Append(front, e) \in Seq(Parts) /\ Len(Append(front, e)) = Len(front) + 1
        /\ \A i \in 1..Len(front) : Append(front, e)[i] = front[i]
        /\ Append(front, e)[Len(front) + 1] = e
    BY <1>2, AppendProperties
  <2>2. (n - 1) + 1 = n
    BY <1>1
  <2> QED
    BY <1>2, <2>1, <2>2
<1>4. \A i \in 1..n : i \in 1..(n - 1) \/ i = n
  BY <1>1
<1>5. n \in 1..n
  BY <1>1
<1>6. parts = Append(front, parts[n])
  <2>1. parts[n] \in Parts
    BY <1>1, <1>5
  <2>2. Len(parts) = Len(Append(front, parts[n]))
    BY <1>3, <2>1 DEF n
  <2>3. \A i \in 1..Len(parts) : parts[i] = Append(front, parts[n])[i]
    BY <1>3, <1>4, <2>1 DEF n
  <2> QED
    BY <1>3, <2>1, <2>2, <2>3, SeqEqual
<1>7. ASSUME NEW e \in Parts
      PROVE  [parts EXCEPT ![n] = e] = Append(front, e)
  <2> DEFINE new == [parts EXCEPT ![n] = e]
  <2>1. /\ new \in Seq(Parts) /\ Len(new) = n
        /\ \A j \in 1..n : new[j] = IF j = n THEN e ELSE parts[j]
    BY <1>5, ExceptSeq DEF n
  <2> HIDE DEF new
  <2>2. \A i \in 1..Len(new) : new[i] = Append(front, e)[i]
    BY <1>3, <1>4, <2>1
  <2>3. new = Append(front, e)
    BY <1>3, <2>1, <2>2, SeqEqual
  <2> QED
    BY <2>3 DEF new
<1> QED
  BY <1>2, <1>6, <1>7 DEF n

(* A turn with one more part. *)
LEMMA TurnWith ==
  ASSUME NEW front \in Seq(Parts), NEW part \in Parts, NEW R
  PROVE  TurnOK(Append(front, part), R)
           <=> /\ FlatMap(TextOf, front) \o part.text = Pieces(R, Spoken)
               /\ \A i \in 1..Len(front) : PartOK(front[i], R)
               /\ PartOK(part, R)
               /\ \A i \in 1..(Len(front) - 1) : Apart(front[i], front[i + 1])
               /\ Len(front) > 0 => Apart(front[Len(front)], part)
<1> DEFINE n == Len(front)
           parts == Append(front, part)
<1>1. /\ n \in Nat /\ Len(parts) = n + 1
      /\ \A i \in 1..n : parts[i] = front[i]
      /\ parts[n + 1] = part
  BY AppendProperties, LenProperties
<1>2. IsSeqMap(TextOf, Parts, Nat)
  BY DEF IsSeqMap, TextOf, Parts
<1>3. FlatMap(TextOf, parts) = FlatMap(TextOf, front) \o TextOf[part]
  BY <1>2, FlatMapAppend
<1>4. TextOf[part] = part.text
  BY DEF TextOf
<1> HIDE DEF n, parts
<1>5. (\A i \in 1..Len(parts) : PartOK(parts[i], R))
        <=> (\A i \in 1..n : PartOK(front[i], R)) /\ PartOK(part, R)
  <2>1. \A i \in 1..(n + 1) : i \in 1..n \/ i = n + 1
    BY <1>1
  <2>2. 1..n \subseteq 1..(n + 1) /\ n + 1 \in 1..(n + 1)
    BY <1>1
  <2> QED
    BY <1>1, <2>1, <2>2
<1>6. (\A i \in 1..(Len(parts) - 1) : Apart(parts[i], parts[i + 1]))
        <=> /\ \A i \in 1..(n - 1) : Apart(front[i], front[i + 1])
            /\ n > 0 => Apart(front[n], part)
  <2>1. Len(parts) - 1 = n
    BY <1>1
  <2>2. \A i \in 1..n : i \in 1..(n - 1) \/ i = n
    BY <1>1
  <2>3. \A i \in 1..(n - 1) : i \in 1..n /\ i + 1 \in 1..n
    BY <1>1
  <2>4. n > 0 => n \in 1..n
    BY <1>1
  <2>5. n = 0 => 1..n = {} /\ 1..(n - 1) = {}
    OBVIOUS
  <2> QED
    BY <1>1, <2>1, <2>2, <2>3, <2>4, <2>5
<1> QED
  BY <1>3, <1>4, <1>5, <1>6 DEF TurnOK, parts, n

LEMMA TurnBegins ==
  ASSUME NEW R \in Seq(Received), NEW p \in Received, p.kind \in Spoken,
         NEW parts \in Seq(Parts), TurnOK(parts, R),
         NEW part \in Parts, part.kind = p.kind, part.text = <<Len(R) + 1>>,
         part.sig = IF p.signed THEN Len(R) + 1 ELSE NoSig,
         Len(parts) > 0 => Apart(parts[Len(parts)], part)
  PROVE  TurnOK(Append(parts, part), Append(R, p))
<1>1. PartOK(part, Append(R, p))
  BY PartBegins
<1>2. \A i \in 1..Len(parts) : PartOK(parts[i], Append(R, p))
  BY PartStays DEF TurnOK
<1>3. FlatMap(TextOf, parts) \o part.text = Pieces(Append(R, p), Spoken)
  <2>1. /\ Pieces(R, Spoken) \in Seq(Nat)
        /\ Pieces(Append(R, p), Spoken) = Append(Pieces(R, Spoken), Len(R) + 1)
    BY PiecesMore
  <2>2. Len(R) \in Nat
    BY LenProperties
  <2>3. Append(Pieces(R, Spoken), Len(R) + 1) = Pieces(R, Spoken) \o <<Len(R) + 1>>
    BY <2>1, <2>2, GrownText
  <2> QED
    BY <2>1, <2>3 DEF TurnOK
<1>4. \A i \in 1..(Len(parts) - 1) : Apart(parts[i], parts[i + 1])
  BY DEF TurnOK
<1> QED
  BY <1>1, <1>2, <1>3, <1>4, TurnWith

LEMMA PiecesAssociate ==
  ASSUME NEW a \in Seq(Nat), NEW b \in Seq(Nat), NEW c \in Seq(Nat)
  PROVE  (a \o b) \o c = a \o (b \o c)
BY ConcatAssociative, SMTT(40)

LEMMA TurnGrows ==
  ASSUME NEW R \in Seq(Received), NEW p \in Received, p.kind \in Spoken, p.kind # "call",
         NEW parts \in Seq(Parts), TurnOK(parts, R), Len(parts) > 0,
         NEW part, part = parts[Len(parts)], part.kind = p.kind,
         NEW more \in Parts, more.kind = part.kind, more.text = Append(part.text, Len(R) + 1),
         more.sig = IF p.signed THEN Len(R) + 1 ELSE part.sig
  PROVE  TurnOK([parts EXCEPT ![Len(parts)] = more], Append(R, p))
<1>1. PICK front \in Seq(Parts) :
        /\ Len(front) = Len(parts) - 1
        /\ parts = Append(front, part)
        /\ [parts EXCEPT ![Len(parts)] = more] = Append(front, more)
  BY LastPart
<1>2. part \in Parts /\ part.text \in Seq(Nat)
  <2>1. Len(parts) \in 1..Len(parts)
    BY LenProperties
  <2>2. part \in Parts
    BY <2>1, ElementOfSeq
  <2> QED
    BY <2>2 DEF Parts
<1>3. /\ FlatMap(TextOf, front) \o part.text = Pieces(R, Spoken)
      /\ \A i \in 1..Len(front) : PartOK(front[i], R)
      /\ PartOK(part, R)
      /\ \A i \in 1..(Len(front) - 1) : Apart(front[i], front[i + 1])
      /\ Len(front) > 0 => Apart(front[Len(front)], part)
  <2>1. TurnOK(Append(front, part), R)
    BY <1>1
  <2> QED
    BY <1>2, <2>1, TurnWith
<1>4. PartOK(more, Append(R, p))
  BY <1>2, <1>3, PartGrows
<1>5. \A i \in 1..Len(front) : PartOK(front[i], Append(R, p))
  BY <1>3, PartStays
<1>6. FlatMap(TextOf, front) \o more.text = Pieces(Append(R, p), Spoken)
  <2> DEFINE k == Len(R) + 1
             told == FlatMap(TextOf, front)
  <2>1. /\ Pieces(R, Spoken) \in Seq(Nat)
        /\ Pieces(Append(R, p), Spoken) = Append(Pieces(R, Spoken), k)
    BY PiecesMore
  <2>2. k \in Nat /\ <<k>> \in Seq(Nat)
    BY LenProperties, BitsOfPieces
  <2>3. told \in Seq(Nat)
    <3>1. IsSeqMap(TextOf, Parts, Nat)
      BY DEF IsSeqMap, TextOf, Parts
    <3> QED
      BY <1>1, <3>1, FlatMapFacts
  <2>4. more.text = Append(part.text, k)
    OBVIOUS
  <2> HIDE DEF told, k
  <2>5. Append(Pieces(R, Spoken), k) = Pieces(R, Spoken) \o <<k>> /\ more.text = part.text \o <<k>>
    BY <1>2, <2>1, <2>2, <2>4, GrownText
  <2>6. told \o (part.text \o <<k>>) = (told \o part.text) \o <<k>>
    <3> DEFINE a == part.text
               b == <<k>>
    <3>1. a \in Seq(Nat) /\ b \in Seq(Nat)
      BY <1>2, <2>2
    <3> HIDE DEF a, b
    <3>2. told \o (a \o b) = (told \o a) \o b
      BY <2>3, <3>1, PiecesAssociate
    <3> QED
      BY <3>2 DEF a, b
  <2> QED
    BY <1>3, <2>1, <2>5, <2>6 DEF told
<1>7. Len(front) > 0 => Apart(front[Len(front)], more)
  BY <1>3 DEF Apart
<1> QED
  BY <1>1, <1>3, <1>4, <1>5, <1>6, <1>7, TurnWith

LEMMA TurnStays ==
  ASSUME NEW R \in Seq(Received), NEW p \in Received, p.kind \notin Spoken,
         NEW parts \in Seq(Parts), TurnOK(parts, R)
  PROVE  TurnOK(parts, Append(R, p))
<1>1. Pieces(Append(R, p), Spoken) = Pieces(R, Spoken)
  BY PiecesMore
<1>2. \A i \in 1..Len(parts) : PartOK(parts[i], Append(R, p))
  BY PartStays DEF TurnOK
<1> QED
  BY <1>1, <1>2 DEF TurnOK

(* A piece of text or of thought. *)
LEMMA TurnAppended ==
  ASSUME NEW R \in Seq(Received), NEW p \in Received, p.kind \in {"thought", "text"},
         NEW parts \in Seq(Parts), TurnOK(parts, R),
         NEW kind, kind = p.kind, NEW k, k = Len(R) + 1, NEW sig, sig = IF p.signed THEN k ELSE NoSig
  PROVE  TurnOK(AppendModelText(parts, kind, k, sig), Append(R, p))
<1> DEFINE n == Len(parts)
           part == parts[n]
           fresh == [kind |-> kind, text |-> <<k>>, sig |-> sig]
           more == [part EXCEPT !.text = Append(@, k), !.sig = IF sig = NoSig THEN @ ELSE sig]
<1>1. n \in Nat /\ k \in Nat /\ k # 0 /\ sig \in Nat /\ p.kind \in Spoken /\ p.kind # "call"
  <2>1. Len(R) \in Nat /\ n \in Nat
    BY LenProperties
  <2> QED
    BY <2>1 DEF NoSig, Spoken
<1>2. CASE n > 0 /\ part.kind = kind
  <2>1. AppendModelText(parts, kind, k, sig) = [parts EXCEPT ![n] = more]
    BY <1>2 DEF AppendModelText
  <2>2. part \in Parts
    <3>1. n \in 1..n
      BY <1>1, <1>2
    <3> QED
      BY <3>1, ElementOfSeq
  <2>3. /\ more \in Parts /\ more.kind = part.kind /\ more.text = Append(part.text, k)
        /\ more.sig = IF p.signed THEN k ELSE part.sig
    <3> HIDE DEF part
    <3>1. Append(part.text, k) \in Seq(Nat) /\ (IF sig = NoSig THEN part.sig ELSE sig) \in Nat
      BY <1>1, <2>2, AppendProperties DEF Parts
    <3>2. (IF sig = NoSig THEN part.sig ELSE sig) = IF p.signed THEN k ELSE part.sig
      BY <1>1 DEF NoSig
    <3> QED
      BY <2>2, <3>1, <3>2 DEF Parts
  <2> HIDE DEF more, part
  <2>4. TurnOK([parts EXCEPT ![n] = more], Append(R, p))
    BY <1>1, <1>2, <2>3, TurnGrows DEF part
  <2> QED
    BY <2>1, <2>4
<1>3. CASE ~(n > 0 /\ part.kind = kind)
  <2>1. AppendModelText(parts, kind, k, sig) = Append(parts, fresh)
    BY <1>3 DEF AppendModelText
  <2>2. /\ fresh \in Parts /\ fresh.kind = kind /\ fresh.text = <<k>>
        /\ fresh.sig = IF p.signed THEN k ELSE NoSig
    BY <1>1, BitsOfPieces DEF Parts, Spoken
  <2>3. n > 0 => Apart(part, fresh)
    BY <1>3, <2>2 DEF Apart
  <2> HIDE DEF fresh
  <2>4. TurnOK(Append(parts, fresh), Append(R, p))
    BY <1>1, <2>2, <2>3, TurnBegins
  <2> QED
    BY <2>1, <2>4
<1> QED
  BY <1>2, <1>3
-----------------------------------------------------------------------------
(* The end of a stream. *)
LEMMA RefusedFields ==
  ASSUME NEW s \in Translators
  PROVE  LET t == Refused(s)
         IN  /\ t \in Translators
             /\ t.isRefusal = (s.isRefusal \/ (Silent(s) /\ s.blockReason))
             /\ t.hasStartedItem = (s.hasStartedItem \/ (Responses(s) /\ Silent(s) /\ s.blockReason))
             /\ t.api = s.api /\ t.hasStartedReasoning = s.hasStartedReasoning
             /\ t.hasEndedReasoning = s.hasEndedReasoning /\ t.fullOutputText = s.fullOutputText
             /\ t.fullThoughtText = s.fullThoughtText /\ t.activeFnCalls = s.activeFnCalls
             /\ t.modelParts = s.modelParts /\ t.chatToolIdx = s.chatToolIdx
             /\ t.textSig = s.textSig /\ t.blockReason = s.blockReason
             /\ t.lastFinishReason = s.lastFinishReason
             /\ ~(Silent(s) /\ s.blockReason) => t = s
<1> DEFINE q == [s EXCEPT !.isRefusal = TRUE]
           m == MessageStarted(q)
           u == [m EXCEPT !.hasEmittedHeader = TRUE]
<1>1. Refused(s) = IF Silent(s) /\ s.blockReason THEN (IF Responses(s) THEN u ELSE q) ELSE s
  BY DEF Refused
<1>2. /\ q \in Translators
      /\ q.isRefusal = TRUE /\ q.hasStartedItem = s.hasStartedItem
      /\ q.api = s.api /\ q.hasStartedReasoning = s.hasStartedReasoning
      /\ q.hasEndedReasoning = s.hasEndedReasoning /\ q.fullOutputText = s.fullOutputText
      /\ q.fullThoughtText = s.fullThoughtText /\ q.activeFnCalls = s.activeFnCalls
      /\ q.modelParts = s.modelParts /\ q.chatToolIdx = s.chatToolIdx
      /\ q.textSig = s.textSig /\ q.blockReason = s.blockReason
      /\ q.lastFinishReason = s.lastFinishReason
  BY DEF Translators
<1> HIDE DEF q
<1>3. /\ m \in Translators
      /\ m.isRefusal = q.isRefusal /\ m.hasStartedItem
      /\ m.api = q.api /\ m.hasStartedReasoning = q.hasStartedReasoning
      /\ m.hasEndedReasoning = q.hasEndedReasoning /\ m.fullOutputText = q.fullOutputText
      /\ m.fullThoughtText = q.fullThoughtText /\ m.activeFnCalls = q.activeFnCalls
      /\ m.modelParts = q.modelParts /\ m.chatToolIdx = q.chatToolIdx
      /\ m.textSig = q.textSig /\ m.blockReason = q.blockReason
      /\ m.lastFinishReason = q.lastFinishReason
  BY <1>2, StartedFields
<1> HIDE DEF m
<1>4. /\ u \in Translators
      /\ u.isRefusal = m.isRefusal /\ u.hasStartedItem = m.hasStartedItem
      /\ u.api = m.api /\ u.hasStartedReasoning = m.hasStartedReasoning
      /\ u.hasEndedReasoning = m.hasEndedReasoning /\ u.fullOutputText = m.fullOutputText
      /\ u.fullThoughtText = m.fullThoughtText /\ u.activeFnCalls = m.activeFnCalls
      /\ u.modelParts = m.modelParts /\ u.chatToolIdx = m.chatToolIdx
      /\ u.textSig = m.textSig /\ u.blockReason = m.blockReason
      /\ u.lastFinishReason = m.lastFinishReason
  BY <1>3, HeadedFields
<1> HIDE DEF u
<1>5. s.isRefusal \in BOOLEAN /\ s.hasStartedItem \in BOOLEAN /\ m.hasStartedItem \in BOOLEAN
  BY <1>3 DEF Translators
<1>6. CASE Silent(s) /\ s.blockReason /\ Responses(s)
  <2>1. /\ m.isRefusal = TRUE /\ m.hasStartedItem = TRUE
        /\ m.api = s.api /\ m.hasStartedReasoning = s.hasStartedReasoning
        /\ m.hasEndedReasoning = s.hasEndedReasoning /\ m.fullOutputText = s.fullOutputText
        /\ m.fullThoughtText = s.fullThoughtText /\ m.activeFnCalls = s.activeFnCalls
        /\ m.modelParts = s.modelParts /\ m.chatToolIdx = s.chatToolIdx
        /\ m.textSig = s.textSig /\ m.blockReason = s.blockReason
        /\ m.lastFinishReason = s.lastFinishReason
    BY <1>2, <1>3, <1>5
  <2>2. Refused(s) = u
    BY <1>1, <1>6
  <2>3. /\ (s.isRefusal \/ (Silent(s) /\ s.blockReason)) = TRUE
        /\ (s.hasStartedItem \/ (Responses(s) /\ Silent(s) /\ s.blockReason)) = TRUE
    BY <1>5, <1>6
  <2>4. /\ u \in Translators /\ u.isRefusal = TRUE /\ u.hasStartedItem = TRUE
        /\ u.api = s.api /\ u.hasStartedReasoning = s.hasStartedReasoning
        /\ u.hasEndedReasoning = s.hasEndedReasoning /\ u.fullOutputText = s.fullOutputText
        /\ u.fullThoughtText = s.fullThoughtText /\ u.activeFnCalls = s.activeFnCalls
        /\ u.modelParts = s.modelParts /\ u.chatToolIdx = s.chatToolIdx
        /\ u.textSig = s.textSig /\ u.blockReason = s.blockReason
        /\ u.lastFinishReason = s.lastFinishReason
    BY <1>4, <2>1
  <2> QED
    BY <1>6, <2>2, <2>3, <2>4
<1>7. CASE Silent(s) /\ s.blockReason /\ ~Responses(s)
  BY <1>1, <1>2, <1>5, <1>7
<1>8. CASE ~(Silent(s) /\ s.blockReason)
  BY <1>1, <1>5, <1>8
<1> QED
  BY <1>6, <1>7, <1>8

(* The notice of the shield is a piece as any other. *)
LEMMA FallbackIsPiece ==
  ASSUME NEW s
  PROVE  FallbackText(s) \in Nat /\ <<FallbackText(s)>> \in Seq(Nat)
         /\ <<FallbackText(s)>> \in Seq(Bits) /\ <<FallbackText(s)>> # <<>>
<1>1. ThoughtOnly \in Nat /\ EndedBy \in Nat /\ Nothing \in Nat
  BY StreamAssumption DEF ThoughtOnly, EndedBy, Nothing
<1>2. FallbackText(s) \in {ThoughtOnly, EndedBy, Nothing}
  BY DEF FallbackText
<1>3. FallbackText(s) \in Nat
  BY <1>1, <1>2
<1> QED
  BY <1>3, BitsOfPieces

LEMMA ShieldedFields ==
  ASSUME NEW s \in Translators
  PROVE  LET t == Shielded(s)
             shields == Silent(s) /\ ~s.isRefusal
         IN  /\ t \in Translators
             /\ t.fullOutputText = IF shields THEN <<FallbackText(s)>> ELSE s.fullOutputText
             /\ t.hasStartedItem = (s.hasStartedItem \/ (Responses(s) /\ shields))
             /\ t.isRefusal = s.isRefusal
             /\ t.api = s.api /\ t.hasStartedReasoning = s.hasStartedReasoning
             /\ t.hasEndedReasoning = s.hasEndedReasoning
             /\ t.fullThoughtText = s.fullThoughtText /\ t.activeFnCalls = s.activeFnCalls
             /\ t.modelParts = s.modelParts /\ t.chatToolIdx = s.chatToolIdx
             /\ t.textSig = s.textSig /\ t.blockReason = s.blockReason
             /\ t.lastFinishReason = s.lastFinishReason
             /\ ~shields => t = s
<1> DEFINE shields == Silent(s) /\ ~s.isRefusal
           q == [s EXCEPT !.fullOutputText = <<FallbackText(s)>>]
           u == [q EXCEPT !.hasEmittedHeader = TRUE, !.hasStartedItem = TRUE]
<1>1. Shielded(s) = IF shields THEN (IF Responses(s) THEN u ELSE q) ELSE s
  BY DEF Shielded
<1>2. <<FallbackText(s)>> \in Seq(Nat)
  BY FallbackIsPiece
<1>3. /\ q \in Translators
      /\ q.fullOutputText = <<FallbackText(s)>> /\ q.hasStartedItem = s.hasStartedItem
      /\ q.isRefusal = s.isRefusal
      /\ q.api = s.api /\ q.hasStartedReasoning = s.hasStartedReasoning
      /\ q.hasEndedReasoning = s.hasEndedReasoning
      /\ q.fullThoughtText = s.fullThoughtText /\ q.activeFnCalls = s.activeFnCalls
      /\ q.modelParts = s.modelParts /\ q.chatToolIdx = s.chatToolIdx
      /\ q.textSig = s.textSig /\ q.blockReason = s.blockReason
      /\ q.lastFinishReason = s.lastFinishReason
  BY <1>2 DEF Translators
<1> HIDE DEF q
<1>4. /\ u \in Translators
      /\ u.fullOutputText = q.fullOutputText /\ u.hasStartedItem = TRUE
      /\ u.isRefusal = q.isRefusal
      /\ u.api = q.api /\ u.hasStartedReasoning = q.hasStartedReasoning
      /\ u.hasEndedReasoning = q.hasEndedReasoning
      /\ u.fullThoughtText = q.fullThoughtText /\ u.activeFnCalls = q.activeFnCalls
      /\ u.modelParts = q.modelParts /\ u.chatToolIdx = q.chatToolIdx
      /\ u.textSig = q.textSig /\ u.blockReason = q.blockReason
      /\ u.lastFinishReason = q.lastFinishReason
  BY <1>3 DEF Translators
<1> HIDE DEF u
<1>5. s.hasStartedItem \in BOOLEAN
  BY DEF Translators
<1>6. CASE shields /\ Responses(s)
  BY <1>1, <1>3, <1>4, <1>5, <1>6
<1>7. CASE shields /\ ~Responses(s)
  BY <1>1, <1>3, <1>5, <1>7
<1>8. CASE ~shields
  BY <1>1, <1>5, <1>8
<1> QED
  BY <1>6, <1>7, <1>8

LEMMA ShieldSays ==
  ASSUME NEW s \in Translators, Silent(s), ~s.isRefusal, NEW f, f = Shielded(s)
  PROVE  f.fullOutputText = <<FallbackText(s)>>
BY ShieldedFields

(* The message has been announced exactly when it has something to say.    *)
MessageIsSaid(s) == s.hasStartedItem <=> (s.fullOutputText # <<>> \/ s.isRefusal)

Listed == Names \X Seq(Nat)

LEMMA ListedTogether ==
  ASSUME NEW a \in Seq(Listed), NEW b \in Seq(Listed)
  PROVE  a \o b \in Seq(Listed) /\ Range(a \o b) = Range(a) \cup Range(b)
<1>1. /\ a \o b \in Seq(Listed) /\ Len(a \o b) = Len(a) + Len(b)
      /\ \A i \in 1..(Len(a) + Len(b)) : (a \o b)[i] = IF i <= Len(a) THEN a[i] ELSE b[i - Len(a)]
  BY ConcatProperties
<1>2. /\ Len(a) \in Nat /\ Len(b) \in Nat /\ DOMAIN a = 1..Len(a) /\ DOMAIN b = 1..Len(b)
      /\ DOMAIN (a \o b) = 1..(Len(a) + Len(b))
  BY <1>1, LenProperties
<1>3. \A i \in 1..Len(a) : i \in 1..(Len(a) + Len(b)) /\ (a \o b)[i] = a[i]
  BY <1>1, <1>2
<1>4. \A i \in 1..Len(b) : Len(a) + i \in 1..(Len(a) + Len(b)) /\ (a \o b)[Len(a) + i] = b[i]
  BY <1>1, <1>2
<1>5. \A i \in 1..(Len(a) + Len(b)) : i \in 1..Len(a) \/ \E j \in 1..Len(b) : i = Len(a) + j
  <2> SUFFICES ASSUME NEW i \in 1..(Len(a) + Len(b)), i \notin 1..Len(a)
               PROVE  \E j \in 1..Len(b) : i = Len(a) + j
    OBVIOUS
  <2>1. i - Len(a) \in 1..Len(b) /\ i = Len(a) + (i - Len(a))
    BY <1>2
  <2> QED
    BY <2>1
<1> DEFINE c == a \o b
<1> HIDE DEF c
<1>6. Range(a) \cup Range(b) \subseteq Range(c)
  BY <1>2, <1>3, <1>4 DEF Range, c
<1>7. Range(c) \subseteq Range(a) \cup Range(b)
  <2> SUFFICES ASSUME NEW i \in 1..(Len(a) + Len(b)) PROVE c[i] \in Range(a) \cup Range(b)
    BY <1>2 DEF Range, c
  <2>1. CASE i \in 1..Len(a)
    BY <1>2, <1>3, <2>1 DEF Range, c
  <2>2. CASE \E j \in 1..Len(b) : i = Len(a) + j
    BY <1>2, <1>4, <2>2 DEF Range, c
  <2> QED
    BY <1>5, <2>1, <2>2
<1> QED
  BY <1>1, <1>6, <1>7 DEF c

(* The final response object lists the announced items with what they say. *)
LEMMA OutputSays ==
  ASSUME NEW s \in Translators, MessageIsSaid(s)
  PROVE  LET listed == ResponseOutput(s)
         IN  /\ listed \in Seq(Bits)
             /\ {listed[i][1] : i \in DOMAIN listed} = Opened(s)
             /\ \A i \in DOMAIN listed : listed[i][1] \in Names /\ listed[i][2] = Said(s)[listed[i][1]]
<1> DEFINE calls == s.activeFnCalls
           a == IF s.hasStartedReasoning THEN <<<<Reasoning, s.fullThoughtText>>>> ELSE <<>>
           b == IF s.fullOutputText # <<>> \/ s.isRefusal THEN <<<<Message, MessageContent(s)>>>> ELSE <<>>
           c == [i \in DOMAIN calls |-> <<Call(calls[i]), <<calls[i]>>>>]
           listed == ResponseOutput(s)
           thought == <<Reasoning, s.fullThoughtText>>
           message == <<Message, MessageContent(s)>>
<1>1. listed = a \o b \o c
  BY DEF ResponseOutput
<1>2. MessageContent(s) \in Seq(Nat)
  <2>1. s.fullOutputText \in Seq(Nat)
    BY DEF Translators
  <2>2. Refusal \in Nat
    BY StreamAssumption DEF Refusal
  <2> QED
    BY <2>1, <2>2, BitsOfPieces DEF MessageContent
<1>3. thought \in Listed /\ message \in Listed
  BY <1>2, ItemNames DEF Listed, Translators
<1>4. /\ a \in Seq(Listed) /\ Range(a) = IF s.hasStartedReasoning THEN {thought} ELSE {}
      /\ b \in Seq(Listed) /\ Range(b) = IF s.hasStartedItem THEN {message} ELSE {}
  <2> HIDE DEF thought, message
  <2>1. \A x \in Listed : <<x>> \in Seq(Listed) /\ Range(<<x>>) = {x}
    BY DEF Range
  <2>2. <<>> \in Seq(Listed) /\ Range(<<>>) = {}
    BY EmptySeq DEF Range
  <2>3. a = IF s.hasStartedReasoning THEN <<thought>> ELSE <<>>
    BY DEF thought
  <2>4. b = IF s.hasStartedItem THEN <<message>> ELSE <<>>
    BY DEF MessageIsSaid, message
  <2> HIDE DEF a, b
  <2> QED
    BY <1>3, <2>1, <2>2, <2>3, <2>4
<1>5. c \in Seq(Listed) /\ Range(c) = {<<Call(k), <<k>>>> : k \in Range(calls)}
  <2>1. calls \in Seq(Nat)
    BY DEF Translators
  <2> HIDE DEF calls
  <2>2. Len(calls) \in Nat /\ DOMAIN calls = 1..Len(calls) /\ \A i \in 1..Len(calls) : calls[i] \in Nat
    BY <2>1, LenProperties, ElementOfSeq
  <2>3. \A i \in 1..Len(calls) : <<Call(calls[i]), <<calls[i]>>>> \in Listed
    BY <2>2, ItemNames, BitsOfPieces DEF Listed
  <2>4. c \in [1..Len(calls) -> Listed]
    BY <2>2, <2>3
  <2>5. c \in Seq(Listed)
    <3> HIDE DEF c
    <3> QED
      BY <2>2, <2>4
  <2>6. Range(c) = {<<Call(k), <<k>>>> : k \in Range(calls)}
    BY <2>2 DEF Range
  <2> QED
    BY <2>5, <2>6
<1> HIDE DEF a, b, c, listed
<1>6. a \o b \in Seq(Listed) /\ Range(a \o b) = Range(a) \cup Range(b)
  BY <1>4, ListedTogether
<1>7. listed \in Seq(Listed) /\ Range(listed) = Range(a) \cup Range(b) \cup Range(c)
  BY <1>1, <1>5, <1>6, ListedTogether
<1>8. {listed[i][1] : i \in DOMAIN listed} = {x[1] : x \in Range(listed)}
  BY DEF Range
<1>9. \A x \in Range(listed) : \/ x = thought /\ s.hasStartedReasoning
                               \/ x = message /\ s.hasStartedItem
                               \/ \E k \in Range(calls) : x = <<Call(k), <<k>>>>
  BY <1>4, <1>5, <1>7
<1>10. /\ s.hasStartedReasoning => thought \in Range(listed)
       /\ s.hasStartedItem => message \in Range(listed)
       /\ \A k \in Range(calls) : <<Call(k), <<k>>>> \in Range(listed)
  BY <1>4, <1>5, <1>7
<1>11. Range(calls) \subseteq Nat
  BY RangeOfSeq DEF Translators
<1>12. {x[1] : x \in Range(listed)} = Opened(s)
  <2>1. ASSUME NEW x \in Range(listed) PROVE x[1] \in Opened(s)
    BY <1>9 DEF Opened, Calls
  <2>2. ASSUME NEW y \in Opened(s) PROVE \E x \in Range(listed) : y = x[1]
    <3>1. CASE y = Reasoning /\ s.hasStartedReasoning
      BY <1>10, <3>1
    <3>2. CASE y = Message /\ s.hasStartedItem
      BY <1>10, <3>2
    <3>3. CASE y \in Calls(s)
      <4>1. PICK k \in Range(calls) : y = Call(k)
        BY <3>3 DEF Calls
      <4> QED
        BY <1>10, <4>1
    <3> QED
      BY <2>2, <3>1, <3>2, <3>3 DEF Opened
  <2> QED
    BY <2>1, <2>2
<1>13. ASSUME NEW x \in Range(listed) PROVE x[1] \in Names /\ x[2] = Said(s)[x[1]]
  <2>1. CASE x = thought
    BY <2>1, ItemNames DEF Said
  <2>2. CASE x = message
    BY <2>2, ItemNames DEF Said
  <2>3. CASE \E k \in Range(calls) : x = <<Call(k), <<k>>>>
    <3>1. PICK k \in Range(calls) : x = <<Call(k), <<k>>>>
      BY <2>3
    <3>2. Call(k) \in Names /\ Call(k) # Reasoning /\ Call(k) # Message /\ Call(k) \in Calls(s)
      BY <1>11, ItemNames DEF Calls
    <3>3. Call(k)[2] = k
      BY DEF Call
    <3> QED
      BY <3>1, <3>2, <3>3 DEF Said
  <2> QED
    BY <1>9, <2>1, <2>2, <2>3
<1>14. listed \in Seq(Bits)
  BY <1>7, BitsOfPieces DEF Listed
<1>15. \A i \in DOMAIN listed : listed[i] \in Range(listed)
  BY DEF Range
<1> QED
  BY <1>8, <1>12, <1>13, <1>14, <1>15 DEF listed

LEMMA EventsAssociate ==
  ASSUME NEW a \in Seq(Events), NEW b \in Seq(Events), NEW c \in Seq(Events)
  PROVE  (a \o b) \o c = a \o (b \o c)
BY ConcatAssociative

(* What the end of a stream may add to a message: a refusal or a text, in  *)
(* an item that has not been announced yet.                                *)
LEMMA LateMessage ==
  ASSUME NEW L, NEW announced, NEW done, NEW text, Reads(L, announced, done, FALSE, text),
         Message \notin announced,
         NEW a \in Events, a.type = "output_item.added", a.item = Message,
         NEW d \in Events, d.type \in {"refusal.delta", "output_text.delta"}, d.item = Message, d.text # <<>>,
         NEW part \in Events, part.type = "content_part.added"
  PROVE  /\ LET M == Append(Append(L, a), d)
            IN  Reads(M, announced \cup {Message}, done, FALSE, Saying(text, Message, d.text)) /\ Shown(M)
         /\ LET M == Append(Append(Append(L, a), part), d)
            IN  Reads(M, announced \cup {Message}, done, FALSE, Saying(text, Message, d.text)) /\ Shown(M)
<1> DEFINE opened == announced \cup {Message}
           La == Append(L, a)
           Lp == Append(La, part)
<1>1. Reads(La, opened, done, FALSE, text)
  <2>1. Reads(La, announced \cup {a.item}, done, FALSE, text)
    BY ReadAdded
  <2> QED
    BY <2>1
<1> HIDE DEF La
<1>2. Reads(Lp, opened, done, FALSE, text)
  BY <1>1, ReadNeutral DEF Deltas, MessageDones, TerminalTypes
<1> HIDE DEF Lp
<1>3. Shows(d)
  BY ItemNames DEF Shows, ShownTypes
<1>4. ASSUME NEW K, Reads(K, opened, done, FALSE, text)
      PROVE  Reads(Append(K, d), opened, done, FALSE, Saying(text, Message, d.text)) /\ Shown(Append(K, d))
  <2>1. d.type \in Deltas /\ d.item \in opened
    BY DEF Deltas
  <2>2. /\ Reads(Append(K, d), opened, done, FALSE, Saying(text, d.item, d.text))
        /\ Shows(d) => Shown(Append(K, d))
    BY <1>4, <2>1, ReadDelta
  <2> QED
    BY <1>3, <2>2
<1>5. Reads(Append(La, d), opened, done, FALSE, Saying(text, Message, d.text)) /\ Shown(Append(La, d))
  BY <1>1, <1>4
<1>6. Reads(Append(Lp, d), opened, done, FALSE, Saying(text, Message, d.text)) /\ Shown(Append(Lp, d))
  BY <1>2, <1>4
<1> QED
  BY <1>5, <1>6 DEF La, Lp

LEMMA HeaderKind ==
  ASSUME NEW s
  PROVE  Header(s) \in Seq(Events)
<1> DEFINE e == Event("response.created", NoItem, NoIndex, <<>>)
<1>1. e \in Events
  BY ItemNames, BitsOfPieces DEF Event, Events, EventTypes, NoIndex
<1>2. Header(s) = <<>> \/ Header(s) = <<e>>
  BY DEF Header
<1> HIDE DEF e
<1>3. <<>> \in Seq(Events) /\ <<e>> \in Seq(Events)
  BY <1>1, EmptySeq
<1> QED
  BY <1>2, <1>3

LEMMA HeaderAndMore ==
  ASSUME NEW H \in Seq(Events), NEW L \in Seq(Events), NEW ab \in Seq(Events), NEW c \in Events
  PROVE  L \o (H \o ab \o <<c>>) = Append((L \o H) \o ab, c)
<1>1. L \o H \in Seq(Events) /\ H \o ab \in Seq(Events)
  BY ConcatProperties
<1>2. <<c>> \in Seq(Events)
  OBVIOUS
<1>3. L \o (H \o ab \o <<c>>) = (L \o (H \o ab)) \o <<c>>
  BY <1>1, <1>2, EventsAssociate
<1>4. L \o (H \o ab) = (L \o H) \o ab
  BY EventsAssociate
<1>5. (L \o H) \o ab \in Seq(Events)
  BY <1>1, ConcatProperties
<1>6. ((L \o H) \o ab) \o <<c>> = Append((L \o H) \o ab, c)
  BY <1>5, Tails
<1> QED
  BY <1>3, <1>4, <1>6

(* The answer that nobody gave: a refusal, or the shield's text. *)
LEMMA LateAnswers ==
  ASSUME NEW s \in Translators, NEW L, Responses(s), ~s.isRefusal, Followed(s, L), Silent(s) \/ Shown(L),
         NEW r, r = Refused(s), NEW f, f = Shielded(r)
  PROVE  LET M == L \o RefusalEvents(s, r) \o ShieldEvents(r, f)
         IN  /\ Reads(M, Opened(f), Closed(f), FALSE, Said(f))
             /\ Shown(M) /\ MessageIsSaid(f)
<1>1. L \in Seq(Events) /\ Reads(L, Opened(s), Closed(s), FALSE, Said(s))
  BY DEF Followed, Reads, Kept
<1>2. s.hasStartedItem <=> s.fullOutputText # <<>>
  BY DEF Followed
<1>3. CASE ~Silent(s)
  <2>1. r = s /\ f = s
    BY <1>3 DEF Refused, Shielded
  <2>2. L \o RefusalEvents(s, r) \o ShieldEvents(r, f) = L
    <3>1. RefusalEvents(s, r) = <<>> /\ ShieldEvents(r, f) = <<>>
      BY <2>1 DEF RefusalEvents, ShieldEvents
    <3> QED
      BY <1>1, <3>1, Tails
  <2> QED
    BY <1>1, <1>2, <1>3, <2>1, <2>2 DEF MessageIsSaid
<1>4. ASSUME NEW text, Silent(s), f \in Translators, f.hasStartedItem, f.fullOutputText # <<>> \/ f.isRefusal,
             MessageContent(f) = text, text \in Seq(Nat),
             f.fullThoughtText = s.fullThoughtText, f.activeFnCalls = s.activeFnCalls,
             f.hasStartedReasoning = s.hasStartedReasoning, f.hasEndedReasoning = s.hasEndedReasoning
      PROVE  /\ Opened(f) = Opened(s) \cup {Message} /\ Closed(f) = Closed(s)
             /\ \A item \in Names : Said(f)[item] = Saying(Said(s), Message, text)[item]
             /\ Message \notin Opened(s) /\ MessageIsSaid(f)
  <2>1. Calls(f) = Calls(s)
    BY <1>4 DEF Calls
  <2>2. ~s.hasStartedItem /\ MessageContent(s) = <<>>
    BY <1>2, <1>4 DEF Silent, MessageContent
  <2>3. Message \notin Opened(s)
    BY <2>2, CallsFacts, ItemNames DEF Opened
  <2>4. Opened(f) = Opened(s) \cup {Message} /\ Closed(f) = Closed(s)
    BY <1>4, <2>1, <2>2 DEF Opened, Closed
  <2>5. <<>> \o text = text
    BY <1>4, ConcatEmptySeq
  <2>6. Said(s)[Message] = <<>>
    BY <2>2, ItemNames DEF Said
  <2>7. \A item \in Names : Said(f)[item] = Saying(Said(s), Message, text)[item]
    BY <1>4, <2>1, <2>5, <2>6, ItemNames DEF Said, Saying
  <2> QED
    BY <1>4, <2>3, <2>4, <2>7 DEF MessageIsSaid
<1>5. CASE Silent(s) /\ s.blockReason
  <2> DEFINE a == Event("output_item.added", Message, r.textOutputIndex, <<>>)
             d == Event("refusal.delta", Message, r.textOutputIndex, <<Refusal>>)
             part == Event("content_part.added", Message, NoIndex, <<>>)
             K == L \o Header(s)
  <2>1. /\ r \in Translators /\ r.isRefusal /\ r.hasStartedItem /\ r.fullOutputText = s.fullOutputText
        /\ r.fullThoughtText = s.fullThoughtText /\ r.activeFnCalls = s.activeFnCalls
        /\ r.hasStartedReasoning = s.hasStartedReasoning /\ r.hasEndedReasoning = s.hasEndedReasoning
    BY <1>5, RefusedFields
  <2>2. f = r
    BY <2>1, ShieldedFields
  <2>3. Refusal \in Nat /\ r.textOutputIndex \in Nat
    <3>1. Refusal \in Nat
      BY StreamAssumption DEF Refusal
    <3> QED
      BY <2>1, <3>1 DEF Translators
  <2>4. /\ a \in Events /\ a.type = "output_item.added" /\ a.item = Message
        /\ d \in Events /\ d.type = "refusal.delta" /\ d.item = Message
        /\ d.text = <<Refusal>> /\ d.text # <<>>
        /\ part \in Events /\ part.type = "content_part.added"
    BY <2>3, ItemNames, BitsOfPieces DEF Event, Events, EventTypes, NoIndex
  <2>5. RefusalEvents(s, r) = Header(s) \o <<a>> \o <<d>> /\ ShieldEvents(r, f) = <<>>
    BY <1>2, <1>5, <2>1, <2>2 DEF RefusalEvents, ShieldEvents, MessageAdded, Silent
  <2> HIDE DEF a, d, part
  <2>6. L \o RefusalEvents(s, r) \o ShieldEvents(r, f) = Append(Append(K, a), d)
    <3>1. L \o RefusalEvents(s, r) = Append(Append(K, a), d)
      <4>1. Header(s) \in Seq(Events)
        BY HeaderKind
      <4>2. L \o (Header(s) \o <<a>> \o <<d>>) = Append(Append(L \o Header(s), a), d)
        <5> DEFINE H == Header(s)
        <5>1. H \in Seq(Events) /\ L \in Seq(Events) /\ a \in Events /\ d \in Events
          BY <1>1, <2>4, <4>1
        <5> HIDE DEF H
        <5>2. L \o (H \o <<a>> \o <<d>>) = Append(Append(L \o H, a), d)
          <6>1. <<a>> \in Seq(Events) /\ <<d>> \in Seq(Events)
            BY <5>1
          <6>2. H \o <<a>> \in Seq(Events) /\ L \o H \in Seq(Events)
            BY <5>1, <6>1, ConcatProperties
          <6>3. L \o ((H \o <<a>>) \o <<d>>) = (L \o (H \o <<a>>)) \o <<d>>
            BY <5>1, <6>1, <6>2, EventsAssociate
          <6>4. L \o (H \o <<a>>) = (L \o H) \o <<a>>
            BY <5>1, <6>1, EventsAssociate
          <6>5. (L \o H) \o <<a>> = Append(L \o H, a) /\ Append(L \o H, a) \in Seq(Events)
            BY <5>1, <6>2, Tails, AppendProperties
          <6>6. Append(L \o H, a) \o <<d>> = Append(Append(L \o H, a), d)
            BY <5>1, <6>5, Tails
          <6> QED
            BY <6>3, <6>4, <6>5, <6>6
        <5> QED
          BY <5>2 DEF H
      <4> QED
        BY <2>5, <4>2
    <3>2. K \in Seq(Events)
      BY <1>1, HeaderKind, ConcatProperties
    <3> HIDE DEF K
    <3>3. Append(Append(K, a), d) \in Seq(Events)
      BY <2>4, <3>2, AppendProperties
    <3> QED
      BY <2>5, <3>1, <3>3, Tails
  <2>7. Reads(K, Opened(s), Closed(s), FALSE, Said(s))
    BY <1>1, HeaderReads
  <2> HIDE DEF K
  <2>8. MessageContent(f) = d.text /\ d.text \in Seq(Nat)
    BY <2>1, <2>2, <2>3, <2>4, BitsOfPieces DEF MessageContent
  <2>9. /\ Opened(f) = Opened(s) \cup {Message} /\ Closed(f) = Closed(s)
        /\ \A item \in Names : Said(f)[item] = Saying(Said(s), Message, d.text)[item]
        /\ Message \notin Opened(s) /\ MessageIsSaid(f)
    BY <1>4, <1>5, <2>1, <2>2, <2>8
  <2>10. /\ Reads(Append(Append(K, a), d), Opened(s) \cup {Message}, Closed(s), FALSE,
                  Saying(Said(s), Message, d.text))
         /\ Shown(Append(Append(K, a), d))
    BY <2>4, <2>7, <2>9, LateMessage
  <2>11. Reads(Append(Append(K, a), d), Opened(f), Closed(f), FALSE, Said(f))
    BY <2>9, <2>10 DEF Reads
  <2> QED
    BY <2>6, <2>9, <2>10, <2>11
<1>6. CASE Silent(s) /\ ~s.blockReason
  <2> DEFINE a == Event("output_item.added", Message, NoIndex, <<>>)
             d == Event("output_text.delta", Message, NoIndex, <<FallbackText(s)>>)
             part == Event("content_part.added", Message, s.textOutputIndex, <<>>)
             K == L \o Header(s)
  <2>1. r = s
    BY <1>6, RefusedFields
  <2>2. /\ f \in Translators /\ ~f.isRefusal /\ f.hasStartedItem /\ f.fullOutputText = <<FallbackText(s)>>
        /\ f.fullThoughtText = s.fullThoughtText /\ f.activeFnCalls = s.activeFnCalls
        /\ f.hasStartedReasoning = s.hasStartedReasoning /\ f.hasEndedReasoning = s.hasEndedReasoning
    <3>1. Silent(s) /\ ~s.isRefusal /\ f = Shielded(s)
      BY <1>6, <2>1
    <3>2. /\ f \in Translators /\ f.isRefusal = s.isRefusal
          /\ f.hasStartedItem = (s.hasStartedItem \/ (Responses(s) /\ Silent(s) /\ ~s.isRefusal))
          /\ f.fullThoughtText = s.fullThoughtText /\ f.activeFnCalls = s.activeFnCalls
          /\ f.hasStartedReasoning = s.hasStartedReasoning /\ f.hasEndedReasoning = s.hasEndedReasoning
      <4> DEFINE t == Shielded(s)
      <4>1. /\ t \in Translators
            /\ t.hasStartedItem = (s.hasStartedItem \/ (Responses(s) /\ Silent(s) /\ ~s.isRefusal))
            /\ t.isRefusal = s.isRefusal
            /\ t.api = s.api /\ t.hasStartedReasoning = s.hasStartedReasoning
            /\ t.hasEndedReasoning = s.hasEndedReasoning
            /\ t.fullThoughtText = s.fullThoughtText /\ t.activeFnCalls = s.activeFnCalls
        BY ShieldedFields
      <4>2. f = t
        BY <3>1
      <4> HIDE DEF t
      <4> QED
        BY <4>1, <4>2
    <3>3. f.fullOutputText = <<FallbackText(s)>>
      BY <3>1, ShieldSays
    <3> QED
      BY <3>1, <3>2, <3>3
  <2>3. /\ FallbackText(s) \in Nat /\ s.textOutputIndex \in Nat
        /\ <<FallbackText(s)>> # <<>> /\ <<FallbackText(s)>> \in Seq(Bits)
    BY FallbackIsPiece DEF Translators
  <2>4. /\ a \in Events /\ a.type = "output_item.added" /\ a.item = Message
        /\ d \in Events /\ d.type = "output_text.delta" /\ d.item = Message
        /\ d.text = <<FallbackText(s)>> /\ d.text # <<>>
        /\ part \in Events /\ part.type = "content_part.added"
    BY <2>3, ItemNames, BitsOfPieces DEF Event, Events, EventTypes, NoIndex
  <2>5. RefusalEvents(s, r) = <<>> /\ ShieldEvents(r, f) = Header(s) \o <<a, part>> \o <<d>>
    BY <1>2, <1>6, <2>1, <2>2, <2>3 DEF RefusalEvents, ShieldEvents, Silent
  <2> HIDE DEF a, d, part
  <2>6. L \o RefusalEvents(s, r) \o ShieldEvents(r, f) = Append(Append(Append(K, a), part), d)
    <3>1. L \o RefusalEvents(s, r) = L
      BY <1>1, <2>5, Tails
    <3> QED
      <4>1. Header(s) \in Seq(Events)
        BY HeaderKind
      <4>2. L \o (Header(s) \o <<a, part>> \o <<d>>) = Append(Append(Append(L \o Header(s), a), part), d)
        <5>1. L \in Seq(Events) /\ a \in Events /\ part \in Events /\ d \in Events
          BY <1>1, <2>4
        <5> DEFINE ab == <<a, part>>
                   H == Header(s)
                   LH == L \o H
        <5>2. ab \in Seq(Events)
          BY <5>1
        <5>3. H \in Seq(Events) /\ LH \in Seq(Events)
          BY <4>1, <5>1, ConcatProperties
        <5> HIDE DEF H, LH
        <5>4. LH \o ab = Append(Append(LH, a), part)
          BY <5>1, <5>3
        <5> HIDE DEF ab
        <5>5. L \o (H \o ab \o <<d>>) = Append((L \o H) \o ab, d)
          BY <5>1, <5>2, <5>3, HeaderAndMore, SMTT(60)
        <5>6. L \o (H \o ab \o <<d>>) = Append(Append(Append(LH, a), part), d)
          BY <5>4, <5>5 DEF LH
        <5> QED
          BY <5>6 DEF ab, H, LH
      <4> QED
        BY <2>5, <3>1, <4>2
  <2>7. Reads(K, Opened(s), Closed(s), FALSE, Said(s))
    BY <1>1, HeaderReads
  <2> HIDE DEF K
  <2>8. MessageContent(f) = d.text /\ d.text \in Seq(Nat) /\ f.fullOutputText # <<>>
    BY <2>2, <2>3, <2>4, BitsOfPieces DEF MessageContent
  <2>9. /\ Opened(f) = Opened(s) \cup {Message} /\ Closed(f) = Closed(s)
        /\ \A item \in Names : Said(f)[item] = Saying(Said(s), Message, d.text)[item]
        /\ Message \notin Opened(s) /\ MessageIsSaid(f)
    BY <1>4, <1>6, <2>2, <2>8
  <2>10. /\ Reads(Append(Append(Append(K, a), part), d), Opened(s) \cup {Message}, Closed(s), FALSE,
                  Saying(Said(s), Message, d.text))
         /\ Shown(Append(Append(Append(K, a), part), d))
    BY <2>4, <2>7, <2>9, LateMessage
  <2>11. Reads(Append(Append(Append(K, a), part), d), Opened(f), Closed(f), FALSE, Said(f))
    BY <2>9, <2>10 DEF Reads
  <2> QED
    BY <2>6, <2>9, <2>10, <2>11
<1> QED
  BY <1>3, <1>5, <1>6

(* The message item, when it ends: nothing if it was never announced. *)
LEMMA MessageDoneReads ==
  ASSUME NEW L, NEW announced, NEW done, NEW text, Reads(L, announced, done, FALSE, text),
         NEW s \in Translators, MessageIsSaid(s), s.hasStartedItem => Message \in announced,
         Message \notin done, MessageContent(s) = text[Message]
  PROVE  \E over : /\ Reads(L \o MessageDone(s), announced,
                            done \cup (IF s.hasStartedItem THEN {Message} ELSE {}), over, text)
                   /\ Shown(L) => Shown(L \o MessageDone(s))
<1> DEFINE i == s.textOutputIndex
           a == Event("output_text.done", Message, i, s.fullOutputText)
           b == Event("content_part.done", Message, i, s.fullOutputText)
           e == Event("output_item.done", Message, i, MessageContent(s))
<1>1. L \in Seq(Events)
  BY DEF Reads, Kept
<1>2. i \in Nat /\ s.fullOutputText \in Seq(Nat) /\ MessageContent(s) \in Seq(Nat)
  <2>1. i \in Nat /\ s.fullOutputText \in Seq(Nat)
    BY DEF Translators
  <2>2. <<Refusal>> \in Seq(Nat)
    BY StreamAssumption, BitsOfPieces DEF Refusal
  <2> QED
    BY <2>1, <2>2 DEF MessageContent
<1> HIDE DEF i
<1>3. /\ a \in Events /\ a.type = "output_text.done" /\ a.item = Message /\ a.text = s.fullOutputText
      /\ b \in Events /\ b.type = "content_part.done" /\ b.item = Message /\ b.text = s.fullOutputText
      /\ e \in Events /\ e.type = "output_item.done" /\ e.item = Message /\ e.text = text[Message]
  BY <1>2, ItemNames, BitsOfPieces DEF Event, Events, EventTypes
<1>4. MessageDone(s) = IF ~s.hasStartedItem THEN <<>>
                       ELSE IF s.isRefusal THEN <<>> \o <<e>> ELSE <<a, b>> \o <<e>>
  BY DEF MessageDone, MessageIsSaid, i
<1> HIDE DEF a, b, e
<1>5. CASE ~s.hasStartedItem
  <2>1. L \o MessageDone(s) = L
    BY <1>1, <1>4, <1>5, Tails
  <2> QED
    BY <1>5, <2>1
<1>6. CASE s.hasStartedItem /\ s.isRefusal
  <2>1. L \o MessageDone(s) = Append(L, e)
    <3>1. <<>> \o <<e>> = <<e>>
      BY <1>3
    <3> QED
      BY <1>1, <1>3, <1>4, <1>6, <3>1, Tails
  <2>2. /\ Reads(Append(L, e), announced, done \cup {Message}, TRUE, text)
        /\ Shown(L) => Shown(Append(L, e))
    BY <1>3, <1>6, ReadMessageDone
  <2> QED
    BY <1>6, <2>1, <2>2
<1>7. CASE s.hasStartedItem /\ ~s.isRefusal
  <2> DEFINE La == Append(L, a)
             Lb == Append(La, b)
  <2>1. L \o MessageDone(s) = Append(Lb, e)
    <3> DEFINE ab == <<a, b>>
    <3>1. ab \in Seq(Events) /\ <<e>> \in Seq(Events)
      BY <1>3
    <3>2. L \o ab = Lb
      BY <1>1, <1>3
    <3> HIDE DEF ab, Lb
    <3>3. L \o (ab \o <<e>>) = (L \o ab) \o <<e>>
      BY <1>1, <3>1, EventsAssociate
    <3>4. L \o ab \in Seq(Events)
      BY <1>1, <3>1, ConcatProperties
    <3>5. L \o (ab \o <<e>>) = Append(Lb, e)
      BY <1>3, <3>2, <3>3, <3>4, Tails
    <3> QED
      BY <1>4, <1>7, <3>5 DEF ab
  <2>2. s.fullOutputText = text[Message]
    BY <1>7 DEF MessageContent
  <2>3. Reads(La, announced, done, TRUE, text) /\ (Shown(L) => Shown(La))
    BY <1>3, <2>2, ReadWhole
  <2> HIDE DEF La
  <2>4. Reads(Lb, announced, done, TRUE, text) /\ (Shown(La) => Shown(Lb))
    BY <1>3, <2>2, <2>3, ReadWhole
  <2> HIDE DEF Lb
  <2>5. /\ Reads(Append(Lb, e), announced, done \cup {Message}, TRUE, text)
        /\ Shown(Lb) => Shown(Append(Lb, e))
    BY <1>3, <1>7, <2>4, ReadMessageDone
  <2> QED
    BY <1>7, <2>1, <2>3, <2>4, <2>5
<1> QED
  BY <1>5, <1>6, <1>7

(* What StreamClosed says of the events of a finished response. *)
Closes(L) ==
  LET listed == Last(L).text
  IN  /\ {i \in DOMAIN L : L[i].type \in {"response.completed", "response.incomplete"}} = {Len(L)}
      /\ \A item \in Added(L) : Of(L, "output_item.done", item) # {}
      /\ {listed[i][1] : i \in DOMAIN listed} = Added(L)
      /\ \A i \in DOMAIN listed : listed[i][2] = Assembled(L, Deltas, listed[i][1])

(* The terminal event, when every announced item has been done. *)
LEMMA TerminalCloses ==
  ASSUME NEW s \in Translators, Responses(s), MessageIsSaid(s),
         NEW L, NEW over, Reads(L, Opened(s), Opened(s), over, Said(s))
  PROVE  LET M == L \o Terminal(s)
         IN  Kept(M) /\ Closes(M) /\ (Shown(L) => Shown(M))
<1> DEFINE e == Event(TerminalEvent(s), NoItem, NoIndex, ResponseOutput(s))
           listed == ResponseOutput(s)
           M == Append(L, e)
<1>1. L \in Seq(Events)
  BY DEF Reads, Kept
<1>2. /\ listed \in Seq(Bits)
      /\ {listed[i][1] : i \in DOMAIN listed} = Opened(s)
      /\ \A i \in DOMAIN listed : listed[i][1] \in Names /\ listed[i][2] = Said(s)[listed[i][1]]
  BY OutputSays
<1> HIDE DEF listed
<1>3. TerminalEvent(s) \in TerminalTypes
  BY DEF TerminalEvent, TerminalTypes
<1>4. e \in Events /\ e.type \in TerminalTypes /\ e.text = listed
  BY <1>2, <1>3, ItemNames DEF Event, Events, EventTypes, TerminalTypes, NoIndex, listed
<1>5. Terminal(s) = <<e>>
  BY DEF Terminal
<1> HIDE DEF e
<1>6. L \o Terminal(s) = M
  BY <1>1, <1>4, <1>5, Tails
<1>7. /\ Kept(M) /\ Added(M) = Opened(s) /\ DoneItems(M) = Opened(s)
      /\ Terminals(M) = {Len(M)} /\ Last(M) = e
      /\ \A item \in Names : Assembled(M, Deltas, item) = Said(s)[item]
      /\ Shown(L) => Shown(M)
  BY <1>4, ReadTerminal
<1> HIDE DEF M
<1>8. {i \in DOMAIN M : M[i].type \in {"response.completed", "response.incomplete"}} = {Len(M)}
  BY <1>7 DEF Terminals, TerminalTypes
<1>9. \A item \in Added(M) : Of(M, "output_item.done", item) # {}
  BY <1>7 DEF DoneItems, Of
<1>10. \A i \in DOMAIN listed : listed[i][2] = Assembled(M, Deltas, listed[i][1])
  BY <1>2, <1>7
<1>11. Closes(M)
  BY <1>2, <1>4, <1>7, <1>8, <1>9, <1>10 DEF Closes
<1> QED
  BY <1>6, <1>7, <1>11

LEMMA EndingKind ==
  ASSUME NEW s \in Translators
  PROVE  ReasoningDone(s) \in Seq(Events) /\ MessageDone(s) \in Seq(Events)
<1> DEFINE i == s.textOutputIndex
           a == Event("output_text.done", Message, i, s.fullOutputText)
           b == Event("content_part.done", Message, i, s.fullOutputText)
           d == Event("output_item.done", Message, i, MessageContent(s))
           r == Event("output_item.done", Reasoning, s.reasoningOutputIndex, s.fullThoughtText)
<1>1. /\ i \in Nat /\ s.reasoningOutputIndex \in Nat
      /\ s.fullOutputText \in Seq(Nat) /\ s.fullThoughtText \in Seq(Nat)
  BY DEF Translators
<1>2. MessageContent(s) \in Seq(Nat)
  <2>1. <<Refusal>> \in Seq(Nat)
    BY StreamAssumption, BitsOfPieces DEF Refusal
  <2> QED
    BY <1>1, <2>1 DEF MessageContent
<1> HIDE DEF i
<1>3. a \in Events /\ b \in Events /\ d \in Events /\ r \in Events
  BY <1>1, <1>2, ItemNames, BitsOfPieces DEF Event, Events, EventTypes
<1>4. ReasoningDone(s) = IF Ending(s) THEN <<r>> ELSE <<>>
  BY DEF ReasoningDone
<1>5. MessageDone(s) = IF s.fullOutputText = <<>> /\ ~s.hasStartedItem THEN <<>>
                       ELSE (IF s.isRefusal THEN <<>> ELSE <<a, b>>) \o <<d>>
  BY DEF MessageDone, i
<1> HIDE DEF a, b, d, r
<1>6. <<>> \in Seq(Events) /\ <<r>> \in Seq(Events) /\ <<a, b>> \in Seq(Events) /\ <<d>> \in Seq(Events)
  BY <1>3, EmptySeq
<1>7. <<>> \o <<d>> \in Seq(Events) /\ <<a, b>> \o <<d>> \in Seq(Events)
  BY <1>6, ConcatProperties
<1> QED
  BY <1>4, <1>5, <1>6, <1>7

(* A response ends: whatever the model said or kept to itself, every item  *)
(* is done and the terminal event lists them all.                          *)
LEMMA ResponseFinished ==
  ASSUME st \in Translators, Responses(st), ~st.isRefusal, Followed(st, sse),
         Silent(st) \/ Shown(sse), FinishStream
  PROVE  Kept(sse') /\ Shown(sse') /\ Closes(sse')
<1> DEFINE r == Refused(st)
           f == Shielded(r)
           e == ReasoningEnded(f)
           M == sse \o RefusalEvents(st, r) \o ShieldEvents(r, f)
           D == ReasoningDone(f)
           N == M \o D
           O == N \o MessageDone(e)
<1>1. sse' = M \o (D \o MessageDone(e)) \o Terminal(e)
  BY DEF FinishStream
<1>2. Reads(M, Opened(f), Closed(f), FALSE, Said(f)) /\ Shown(M) /\ MessageIsSaid(f)
  BY LateAnswers
<1>3. /\ f \in Translators /\ Responses(f) /\ (f.hasEndedReasoning => f.hasStartedReasoning)
  <2>1. /\ r \in Translators /\ r.api = st.api /\ r.hasStartedReasoning = st.hasStartedReasoning
        /\ r.hasEndedReasoning = st.hasEndedReasoning
    BY RefusedFields
  <2> HIDE DEF r
  <2>2. /\ f \in Translators /\ f.api = r.api /\ f.hasStartedReasoning = r.hasStartedReasoning
        /\ f.hasEndedReasoning = r.hasEndedReasoning
    BY <2>1, ShieldedFields
  <2> HIDE DEF f
  <2> QED
    BY <2>1, <2>2 DEF Followed, Responses
<1> HIDE DEF M, r, f
<1>4. /\ e \in Translators /\ e.hasEndedReasoning = (f.hasEndedReasoning \/ Ending(f))
      /\ e.api = f.api /\ e.hasStartedReasoning = f.hasStartedReasoning
      /\ e.hasStartedItem = f.hasStartedItem /\ e.fullOutputText = f.fullOutputText
      /\ e.fullThoughtText = f.fullThoughtText /\ e.activeFnCalls = f.activeFnCalls
      /\ e.isRefusal = f.isRefusal
  BY <1>3, EndedFields
<1> HIDE DEF e
<1>5. /\ Opened(e) = Opened(f) /\ MessageContent(e) = MessageContent(f) /\ MessageIsSaid(e)
      /\ \A item \in Names : Said(e)[item] = Said(f)[item]
  <2>1. Calls(e) = Calls(f)
    BY <1>4 DEF Calls
  <2>2. MessageContent(e) = MessageContent(f)
    BY <1>4 DEF MessageContent
  <2> QED
    BY <1>2, <1>4, <2>1, <2>2 DEF Opened, Said, MessageIsSaid
<1> DEFINE done == Closed(f) \cup (IF Ending(f) THEN {Reasoning} ELSE {})
           all == done \cup (IF e.hasStartedItem THEN {Message} ELSE {})
<1>6. Reads(N, Opened(f), done, FALSE, Said(f)) /\ (Shown(M) => Shown(N))
  <2>1. Ending(f) => Reasoning \in Opened(f) /\ Reasoning \notin Closed(f)
    BY <1>3, CallsFacts DEF Ending, Opened, Closed
  <2> QED
    BY <1>2, <1>3, <2>1, ReasoningDoneReads
<1>7. PICK over : Reads(O, Opened(f), all, over, Said(f)) /\ (Shown(N) => Shown(O))
  <2>1. e.hasStartedItem => Message \in Opened(f)
    BY <1>4 DEF Opened
  <2>2. Message \notin done
    BY <1>3, CallsFacts, ItemNames DEF Closed
  <2>3. MessageContent(e) = Said(f)[Message]
    BY <1>5, ItemNames DEF Said
  <2> HIDE DEF N, done
  <2> QED
    BY <1>4, <1>5, <1>6, <2>1, <2>2, <2>3, MessageDoneReads
<1>8. all = Opened(e)
  <2>1. Ending(f) <=> f.hasStartedReasoning /\ ~f.hasEndedReasoning
    BY <1>3 DEF Ending
  <2>2. done = (IF f.hasStartedReasoning THEN {Reasoning} ELSE {}) \cup Calls(f)
    BY <1>3, <2>1 DEF Closed
  <2> HIDE DEF done
  <2> QED
    BY <1>4, <1>5, <2>2 DEF Opened
<1> HIDE DEF done, all
<1>9. sse' = O \o Terminal(e)
  <2>1. M \in Seq(Events)
    BY <1>2 DEF Reads, Kept
  <2>2. D \in Seq(Events) /\ MessageDone(e) \in Seq(Events)
    BY <1>3, <1>4, EndingKind
  <2> HIDE DEF D
  <2>3. M \o (D \o MessageDone(e)) = (M \o D) \o MessageDone(e)
    BY <2>1, <2>2, EventsAssociate
  <2> QED
    BY <1>1, <2>3
<1> HIDE DEF O
<1>10. Reads(O, Opened(e), Opened(e), over, Said(e))
  BY <1>5, <1>7, <1>8 DEF Reads
<1>11. Responses(e)
  BY <1>3, <1>4 DEF Responses
<1>12. Kept(O \o Terminal(e)) /\ Closes(O \o Terminal(e)) /\ (Shown(O) => Shown(O \o Terminal(e)))
  BY <1>4, <1>5, <1>10, <1>11, TerminalCloses
<1> QED
  BY <1>2, <1>6, <1>7, <1>9, <1>12

(* The same for chat: what the end adds to an answer nobody gave. *)
LEMMA LateChat ==
  ASSUME NEW s \in Translators, NEW L, ~Responses(s), ~s.isRefusal, ChatFollowed(s, L),
         Silent(s) \/ Shown(L), NEW r, r = Refused(s), NEW f, f = Shielded(r)
  PROVE  LET M == L \o RefusalEvents(s, r) \o ShieldEvents(r, f)
         IN  /\ ChatReads(M, f.fullOutputText, s.fullThoughtText, s.activeFnCalls, s.chatToolIdx)
             /\ Shown(M)
             /\ Of(M, "chat.refusal", Message) # {} <=> Silent(s) /\ s.blockReason
             /\ f.fullOutputText = IF Silent(s) /\ ~s.blockReason THEN <<FallbackText(s)>> ELSE s.fullOutputText
<1>1. /\ ChatReads(L, s.fullOutputText, s.fullThoughtText, s.activeFnCalls, s.chatToolIdx)
      /\ Of(L, "chat.refusal", Message) = {}
  BY DEF ChatFollowed
<1>2. L \in Seq(Events)
  BY <1>1 DEF ChatReads, Kept
<1>3. CASE ~Silent(s)
  <2>1. r = s /\ f = s
    BY <1>3 DEF Refused, Shielded
  <2>2. L \o RefusalEvents(s, r) \o ShieldEvents(r, f) = L
    <3>1. RefusalEvents(s, r) = <<>> /\ ShieldEvents(r, f) = <<>>
      BY <2>1 DEF RefusalEvents, ShieldEvents
    <3> QED
      BY <1>2, <3>1, Tails
  <2> QED
    BY <1>1, <1>3, <2>1, <2>2
<1>4. CASE Silent(s) /\ s.blockReason
  <2> DEFINE e == Event("chat.refusal", Message, NoIndex, <<Refusal>>)
  <2>1. r \in Translators /\ r.isRefusal /\ r.fullOutputText = s.fullOutputText
    BY <1>4, RefusedFields
  <2>2. f = r
    BY <2>1, ShieldedFields
  <2>3. <<Refusal>> \in Seq(Bits) /\ <<Refusal>> # <<>>
    BY StreamAssumption, BitsOfPieces DEF Refusal
  <2>4. e \in Events /\ e.type = "chat.refusal" /\ e.item = Message /\ e.text # <<>>
    BY <2>3, ItemNames DEF Event, Events, EventTypes, NoIndex
  <2>5. RefusalEvents(s, r) = <<e>> /\ ShieldEvents(r, f) = <<>>
    BY <2>1, <2>2 DEF RefusalEvents, ShieldEvents
  <2> HIDE DEF e
  <2>6. L \o RefusalEvents(s, r) \o ShieldEvents(r, f) = Append(L, e)
    <3>1. Append(L, e) \in Seq(Events)
      BY <1>2, <2>4, AppendProperties
    <3> QED
      BY <1>2, <2>4, <2>5, <3>1, Tails
  <2>7. Shows(e)
    BY <2>4, ItemNames DEF Shows, ShownTypes
  <2>8. /\ ChatReads(Append(L, e), s.fullOutputText, s.fullThoughtText, s.activeFnCalls, s.chatToolIdx)
        /\ Of(Append(L, e), "chat.refusal", Message) # {}
        /\ Shown(L) \/ Shows(e) => Shown(Append(L, e))
    BY <1>1, <2>4, ChatRefuses
  <2> QED
    BY <1>4, <2>1, <2>2, <2>6, <2>7, <2>8
<1>5. CASE Silent(s) /\ ~s.blockReason
  <2> DEFINE e == Event("chat.content", Message, NoIndex, <<FallbackText(s)>>)
  <2>1. r = s
    BY <1>5, RefusedFields
  <2>2. f.fullOutputText = <<FallbackText(s)>>
    <3>1. Silent(s) /\ ~s.isRefusal /\ f = Shielded(s)
      BY <1>5, <2>1
    <3> QED
      BY <3>1, ShieldSays
  <2>3. /\ <<FallbackText(s)>> \in Seq(Bits) /\ <<FallbackText(s)>> \in Seq(Nat)
        /\ <<FallbackText(s)>> # <<>>
    BY FallbackIsPiece
  <2>4. e \in Events /\ e.type = "chat.content" /\ e.item = Message /\ e.text = <<FallbackText(s)>>
    BY <2>3, ItemNames DEF Event, Events, EventTypes, NoIndex
  <2>5. RefusalEvents(s, r) = <<>> /\ ShieldEvents(r, f) = <<e>>
    BY <1>5, <2>1, <2>2, <2>3 DEF RefusalEvents, ShieldEvents, Silent
  <2> HIDE DEF e
  <2>6. L \o RefusalEvents(s, r) \o ShieldEvents(r, f) = Append(L, e)
    BY <1>2, <2>4, <2>5, Tails
  <2>7. Shows(e)
    BY <2>3, <2>4, ItemNames DEF Shows, ShownTypes
  <2>8. /\ ChatReads(Append(L, e), s.fullOutputText \o e.text, s.fullThoughtText,
                     s.activeFnCalls, s.chatToolIdx)
        /\ Of(Append(L, e), "chat.refusal", Message) = {}
        /\ Shown(L) \/ Shows(e) => Shown(Append(L, e))
    BY <1>1, <2>4, ChatSays
  <2>9. s.fullOutputText \o e.text = <<FallbackText(s)>>
    <3>1. s.fullOutputText = <<>>
      BY <1>5 DEF Silent
    <3> QED
      BY <2>3, <2>4, <3>1, ConcatEmptySeq
  <2> QED
    BY <1>5, <2>2, <2>6, <2>7, <2>8, <2>9
<1> QED
  BY <1>3, <1>4, <1>5

(* The three events that end a chat stream. *)
LEMMA ChatTerminal ==
  ASSUME NEW s \in Translators, ~Responses(s), NEW L, NEW content, NEW thoughts, NEW calls, NEW n,
         ChatReads(L, content, thoughts, calls, n)
  PROVE  LET M == L \o Terminal(s)
         IN  /\ ChatReads(M, content, thoughts, calls, n)
             /\ Of(L, "chat.refusal", Message) = {} <=> Of(M, "chat.refusal", Message) = {}
             /\ Shown(L) => Shown(M)
             /\ M[Len(M) - 2].text[1]
                  = ChatFinishReason(s.lastFinishReason, s.activeFnCalls, s.blockReason)
<1> DEFINE reason == ChatFinishReason(s.lastFinishReason, s.activeFnCalls, s.blockReason)
           a == Event("chat.finish", NoItem, NoIndex, <<reason>>)
           b == Event("chat.usage", NoItem, NoIndex, <<>>)
           d == Event("[DONE]", NoItem, NoIndex, <<>>)
           La == Append(L, a)
           Lb == Append(La, b)
           M == Append(Lb, d)
<1>1. L \in Seq(Events)
  BY DEF ChatReads, Kept
<1>2. reason \in FinishReasons
  BY DEF ChatFinishReason, FinishReasons
<1> HIDE DEF reason
<1>3. <<reason>> \in Seq(Bits) /\ <<>> \in Seq(Bits)
  BY <1>2 DEF Bits
<1>4. /\ a \in Events /\ a.type \in ChatEnds /\ a.text = <<reason>>
      /\ b \in Events /\ b.type \in ChatEnds
      /\ d \in Events /\ d.type \in ChatEnds
  BY <1>3, ItemNames DEF Event, Events, EventTypes, NoIndex, ChatEnds
<1>5. Terminal(s) = <<a, b, d>>
  BY DEF Terminal, reason
<1> HIDE DEF a, b, d
<1>6. L \o Terminal(s) = M
  BY <1>1, <1>4, <1>5
<1>7. M[Len(M) - 2] = a
  <2>1. /\ La \in Seq(Events) /\ Len(La) = Len(L) + 1 /\ La[Len(L) + 1] = a /\ Len(L) \in Nat
    BY <1>1, <1>4, AppendProperties, LenProperties
  <2> HIDE DEF La
  <2>2. /\ Lb \in Seq(Events) /\ Len(Lb) = Len(La) + 1
        /\ \A i \in 1..Len(La) : Lb[i] = La[i]
    BY <1>4, <2>1, AppendProperties
  <2> HIDE DEF Lb
  <2>3. /\ Len(M) = Len(Lb) + 1 /\ \A i \in 1..Len(Lb) : M[i] = Lb[i]
    BY <1>4, <2>2, AppendProperties
  <2> HIDE DEF M
  <2>4. Len(M) - 2 = Len(L) + 1 /\ Len(L) + 1 \in 1..Len(La) /\ Len(L) + 1 \in 1..Len(Lb)
    BY <2>1, <2>2, <2>3
  <2> QED
    BY <2>1, <2>2, <2>3, <2>4
<1>8. /\ ChatReads(La, content, thoughts, calls, n) /\ (Shown(L) => Shown(La))
      /\ Of(L, "chat.refusal", Message) = {} <=> Of(La, "chat.refusal", Message) = {}
  BY <1>4, ChatStops
<1> HIDE DEF La
<1>9. /\ ChatReads(Lb, content, thoughts, calls, n) /\ (Shown(La) => Shown(Lb))
      /\ Of(La, "chat.refusal", Message) = {} <=> Of(Lb, "chat.refusal", Message) = {}
  BY <1>4, <1>8, ChatStops
<1> HIDE DEF Lb
<1>10. /\ ChatReads(M, content, thoughts, calls, n) /\ (Shown(Lb) => Shown(M))
       /\ Of(Lb, "chat.refusal", Message) = {} <=> Of(M, "chat.refusal", Message) = {}
  BY <1>4, <1>9, ChatStops
<1> HIDE DEF M
<1>11. M[Len(M) - 2].text[1] = reason
  BY <1>4, <1>7
<1> QED
  BY <1>6, <1>8, <1>9, <1>10, <1>11 DEF reason

(* A chat stream ends. *)
ChatSaid(content, refused, L) ==
  /\ ChatReads(L, content, st.fullThoughtText, st.activeFnCalls, st.chatToolIdx)
  /\ Of(L, "chat.refusal", Message) # {} <=> refused
  /\ L[Len(L) - 2].text[1] = ChatFinishReason(st.lastFinishReason, st.activeFnCalls, st.blockReason)

LEMMA ChatFinished ==
  ASSUME st \in Translators, ~Responses(st), ~st.isRefusal, ChatFollowed(st, sse),
         Silent(st) \/ Shown(sse), FinishStream
  PROVE  /\ Shown(sse')
         /\ ChatSaid(IF Silent(st) /\ ~st.blockReason THEN <<FallbackText(st)>> ELSE st.fullOutputText,
                     Silent(st) /\ st.blockReason, sse')
<1> DEFINE r == Refused(st)
           f == Shielded(r)
           e == ReasoningEnded(f)
           M == sse \o RefusalEvents(st, r) \o ShieldEvents(r, f)
           content == IF Silent(st) /\ ~st.blockReason THEN <<FallbackText(st)>> ELSE st.fullOutputText
<1>1. sse' = M \o <<>> \o Terminal(e)
  BY DEF FinishStream
<1>2. /\ ChatReads(M, content, st.fullThoughtText, st.activeFnCalls, st.chatToolIdx)
      /\ Shown(M)
      /\ Of(M, "chat.refusal", Message) # {} <=> Silent(st) /\ st.blockReason
  BY LateChat
<1>3. M \in Seq(Events)
  BY <1>2 DEF ChatReads, Kept
<1> HIDE DEF M, content
<1>4. /\ e \in Translators /\ e.api = st.api /\ e.lastFinishReason = st.lastFinishReason
      /\ e.activeFnCalls = st.activeFnCalls /\ e.blockReason = st.blockReason
  <2>1. /\ r \in Translators /\ r.api = st.api /\ r.lastFinishReason = st.lastFinishReason
        /\ r.activeFnCalls = st.activeFnCalls /\ r.blockReason = st.blockReason
    BY RefusedFields
  <2> HIDE DEF r
  <2>2. /\ f \in Translators /\ f.api = r.api /\ f.lastFinishReason = r.lastFinishReason
        /\ f.activeFnCalls = r.activeFnCalls /\ f.blockReason = r.blockReason
    BY <2>1, ShieldedFields
  <2> HIDE DEF f
  <2>3. /\ e \in Translators /\ e.api = f.api /\ e.lastFinishReason = f.lastFinishReason
        /\ e.activeFnCalls = f.activeFnCalls /\ e.blockReason = f.blockReason
    BY <2>2, EndedFields
  <2> HIDE DEF e
  <2> QED
    BY <2>1, <2>2, <2>3
<1> HIDE DEF e
<1>5. sse' = M \o Terminal(e)
  BY <1>1, <1>3, Tails
<1>6. ~Responses(e)
  BY <1>4 DEF Responses
<1> DEFINE N == M \o Terminal(e)
<1>7. /\ ChatReads(N, content, st.fullThoughtText, st.activeFnCalls, st.chatToolIdx)
      /\ Of(M, "chat.refusal", Message) = {} <=> Of(N, "chat.refusal", Message) = {}
      /\ Shown(M) => Shown(N)
      /\ N[Len(N) - 2].text[1]
           = ChatFinishReason(e.lastFinishReason, e.activeFnCalls, e.blockReason)
  BY <1>2, <1>4, <1>6, ChatTerminal
<1> HIDE DEF N
<1>8. N = sse'
  BY <1>5 DEF N
<1> QED
  BY <1>2, <1>4, <1>7, <1>8 DEF ChatSaid, content
-----------------------------------------------------------------------------
(* The invariant.  Its parts: the kinds of values the variables hold; what *)
(* the translator has collected is what Gemini sent; while the stream runs *)
(* the client has read what the translator's flags and texts say; and once *)
(* it is finished, what the client read is complete.                       *)
StreamTypes ==
  /\ st \in Translators /\ st.api \in APIs
  /\ received \in Seq(Received) /\ Len(received) <= MaxParts
  /\ st.textSig \in 0..MaxParts
  /\ stored \subseteq (({Message} \cup {Call(k) : k \in 1..MaxParts}) \X (1..MaxParts))
  /\ saved \in Seq(Parts)
  /\ status \in {"running", "completed", "truncated", "error"}

Collected ==
  /\ st.fullThoughtText = PiecesOf({"thought"})
  /\ st.activeFnCalls = PiecesOf({"call"})
  /\ TurnOK(st.modelParts, received)

Told ==
  /\ ~st.isRefusal
  /\ st.fullOutputText = PiecesOf({"text"})
  /\ Silent(st) \/ Shown(sse)
  /\ Responses(st) => Followed(st, sse)
  /\ ~Responses(st) => ChatFollowed(st, sse)

Answer ==
  IF PiecesOf({"text"}) = <<>> /\ PiecesOf({"call"}) = <<>> /\ ~st.blockReason
  THEN <<FallbackText(st)>> ELSE PiecesOf({"text"})

Refuses == st.blockReason /\ PiecesOf({"text"}) = <<>> /\ PiecesOf({"call"}) = <<>>

Complete ==
  /\ Shown(sse)
  /\ Responses(st) => Closes(sse)
  /\ ~Responses(st) => ChatSaid(Answer, Refuses, sse)

StreamInv ==
  /\ StreamTypes
  /\ Collected
  /\ Kept(sse)
  /\ status = "running" => Told
  /\ Finished => Complete

(* Kept is what either client's reading rests on. *)
LEMMA FollowedKept ==
  ASSUME NEW s, NEW L, Followed(s, L) \/ ChatFollowed(s, L)
  PROVE  Kept(L)
BY DEF Followed, ChatFollowed, Reads, ChatReads

LEMMA StreamInitial == Init => StreamInv
<1> SUFFICES ASSUME Init PROVE StreamInv
  OBVIOUS
<1>1. /\ st.api \in APIs /\ st.api \in {"responses", "chat"}
      /\ st.fullOutputText = <<>> /\ st.fullThoughtText = <<>> /\ st.activeFnCalls = <<>>
      /\ st.modelParts = <<>> /\ st.chatToolIdx = 0 /\ st.textSig = NoSig
      /\ ~st.hasStartedReasoning /\ ~st.hasEndedReasoning /\ ~st.hasStartedItem /\ ~st.isRefusal
  BY StreamAssumption DEF Init
<1>2. st \in Translators
  <2> DEFINE Before ==
        [api : APIs, hasEmittedHeader : {FALSE}, hasStartedReasoning : {FALSE},
         hasEndedReasoning : {FALSE}, hasStartedItem : {FALSE},
         reasoningOutputIndex : {0}, textOutputIndex : {0}, nextOutputIndex : {0}, chatToolIdx : {0},
         fullOutputText : {<<>>}, fullThoughtText : {<<>>}, activeFnCalls : {<<>>}, modelParts : {<<>>},
         thoughtSig : {NoSig}, textSig : {NoSig},
         blockReason : {FALSE}, isRefusal : {FALSE}, lastFinishReason : {""}]
  <2>1. st \in Before
    BY DEF Init
  <2>2. /\ APIs \subseteq {"responses", "chat"} /\ {FALSE} \subseteq BOOLEAN
        /\ {0} \subseteq Nat /\ {NoSig} \subseteq Nat
        /\ {<<>>} \subseteq Seq(Nat) /\ {<<>>} \subseteq Seq(Parts) /\ {""} \subseteq Reasons \cup {""}
    BY StreamAssumption, EmptySeq DEF NoSig
  <2>3. Before \subseteq Translators
    BY <2>2, ZenonT(60) DEF Translators
  <2> QED
    BY <2>1, <2>3
<1>3. sse = <<>> /\ received = <<>> /\ stored = {} /\ saved = <<>> /\ status = "running"
  BY DEF Init
<1>4. StreamTypes
  <2>1. /\ <<>> \in Seq(Received) /\ Len(<<>>) = 0 /\ <<>> \in Seq(Parts)
    BY EmptySeq
  <2>2. 0 <= MaxParts /\ 0 \in 0..MaxParts
    BY StreamAssumption
  <2> QED
    BY <1>1, <1>2, <1>3, <2>1, <2>2 DEF StreamTypes, NoSig
<1>5. \A kinds : Pieces(<<>>, kinds) = <<>> /\ PiecesOf(kinds) = <<>>
  BY <1>3, FlattenEmpty DEF Pieces, PiecesOf
<1>6. TurnOK(<<>>, <<>>)
  <2>1. FlatMap(TextOf, <<>>) = <<>>
    BY FlattenEmpty DEF FlatMap
  <2>2. Len(<<>>) = 0 /\ 1..0 = {} /\ 1..(0 - 1) = {}
    OBVIOUS
  <2> QED
    BY <1>5, <2>1, <2>2 DEF TurnOK
<1>7. Collected
  BY <1>1, <1>3, <1>5, <1>6 DEF Collected
<1>8. /\ Kept(<<>>) /\ Added(<<>>) = {} /\ DoneItems(<<>>) = {} /\ ~Over(<<>>)
      /\ Terminals(<<>>) = {} /\ ToolCalls(<<>>) = {} /\ Of(<<>>, "chat.refusal", Message) = {}
  BY KeptNothing
<1>9. /\ \A types, item : Assembled(<<>>, types, item) = <<>>
      /\ CallsAssembled(<<>>) = <<>> /\ Cardinality({}) = 0
  BY AssembledKind, CallsAssembledMore, FS_EmptySet
<1>10. Calls(st) = {} /\ Opened(st) = {} /\ Closed(st) = {}
  <2>1. Calls(st) = {}
    BY <1>1 DEF Calls, Range
  <2> QED
    BY <1>1, <2>1 DEF Opened, Closed
<1>11. \A item \in Names : Said(st)[item] = <<>>
  BY <1>1, <1>10 DEF Said, MessageContent
<1>12. Followed(st, sse)
  <2>1. Reads(<<>>, Opened(st), Closed(st), FALSE, Said(st))
    BY <1>8, <1>9, <1>10, <1>11 DEF Reads
  <2> QED
    BY <1>1, <1>3, <2>1 DEF Followed
<1>13. ChatFollowed(st, sse)
  BY <1>1, <1>3, <1>8, <1>9 DEF ChatFollowed, ChatReads
<1>14. Told
  BY <1>1, <1>5, <1>12, <1>13 DEF Told, Silent
<1> QED
  BY <1>3, <1>4, <1>7, <1>8, <1>14 DEF StreamInv, Finished

(* What every part brings, whatever is done with it. *)
LEMMA NextPiece ==
  ASSUME StreamTypes, Collected, Streaming, NEW kind \in {"thought", "text", "call", "empty"},
         NEW signed \in BOOLEAN, Part(kind, signed),
         NEW k, k = Len(received) + 1, NEW sig, sig = IF signed THEN k ELSE NoSig
  PROVE  /\ k \in 1..MaxParts /\ k \in Nat /\ sig \in Nat /\ sig \in 0..MaxParts
         /\ sig # NoSig => sig \in 1..MaxParts
         /\ received' = Append(received, [kind |-> kind, signed |-> signed])
         /\ [kind |-> kind, signed |-> signed] \in Received
         /\ received' \in Seq(Received) /\ Len(received') <= MaxParts
         /\ \A x \in {"thought", "text", "call"} :
              /\ PiecesOf({x}) \in Seq(Nat)
              /\ PiecesOf({x})' = IF kind = x THEN Append(PiecesOf({x}), k) ELSE PiecesOf({x})
         /\ k \notin Range(st.activeFnCalls)
<1> DEFINE p == [kind |-> kind, signed |-> signed]
<1>1. p \in Received /\ p.kind = kind /\ received' = Append(received, p) /\ received \in Seq(Received)
  BY DEF Received, Part, StreamTypes
<1> HIDE DEF p
<1>2. Len(received) \in Nat /\ Len(received) < MaxParts /\ MaxParts \in Nat
  BY <1>1, LenProperties, StreamAssumption DEF Streaming
<1>3. /\ k \in 1..MaxParts /\ k \in Nat /\ sig \in Nat /\ sig \in 0..MaxParts
      /\ sig # NoSig => sig \in 1..MaxParts
  BY <1>2 DEF NoSig
<1>4. received' \in Seq(Received) /\ Len(received') <= MaxParts
  BY <1>1, <1>2, MoreReceived
<1>5. ASSUME NEW x \in {"thought", "text", "call"}
      PROVE  /\ PiecesOf({x}) \in Seq(Nat)
             /\ Range(PiecesOf({x})) \subseteq 1..Len(received)
             /\ PiecesOf({x})' = IF kind = x THEN Append(PiecesOf({x}), k) ELSE PiecesOf({x})
  <2>1. /\ PiecesOf({x}) \in Seq(Nat) /\ Range(PiecesOf({x})) \subseteq 1..Len(received)
        /\ PiecesOf({x})' = IF p.kind \in {x} THEN Append(PiecesOf({x}), Len(received) + 1)
                            ELSE PiecesOf({x})
    BY <1>1, PiecesStep
  <2> QED
    BY <1>1, <2>1
<1>6. k \notin Range(st.activeFnCalls)
  <2>1. Range(st.activeFnCalls) \subseteq 1..Len(received)
    BY <1>5 DEF Collected
  <2> QED
    BY <1>2, <2>1
<1> QED
  BY <1>1, <1>3, <1>4, <1>5, <1>6 DEF p
LEMMA NeverTheSame ==
  ASSUME NEW s \in Seq(Nat), NEW k \in Nat
  PROVE  Append(s, k) # s
<1>1. Len(Append(s, k)) = Len(s) + 1 /\ Len(s) \in Nat
  BY AppendProperties, LenProperties
<1> QED
  BY <1>1

(* What makes the invariant hold after a part, however it is handled. *)
LEMMA PartKeeps ==
  ASSUME StreamInv, status = "running", status' = status, saved' = saved,
         st' \in Translators, st'.api = st.api, ~st'.isRefusal, st'.textSig \in 0..MaxParts,
         received' \in Seq(Received), Len(received') <= MaxParts,
         stored' \subseteq (({Message} \cup {Call(k) : k \in 1..MaxParts}) \X (1..MaxParts)),
         Collected', st'.fullOutputText = PiecesOf({"text"})',
         Silent(st') \/ Shown(sse'),
         Responses(st) => Followed(st', sse'), ~Responses(st) => ChatFollowed(st', sse')
  PROVE  StreamInv'
<1>1. status = "running" /\ StreamTypes
  BY DEF StreamInv
<1>2. StreamTypes'
  BY <1>1 DEF StreamTypes
<1>3. Responses(st') <=> Responses(st)
  BY DEF Responses
<1>4. Kept(sse')
  BY FollowedKept
<1>5. Told'
  BY <1>3 DEF Told
<1>6. ~Finished'
  BY <1>1 DEF Finished
<1> QED
  BY <1>2, <1>4, <1>5, <1>6 DEF StreamInv

LEMMA ThoughtKeeps ==
  ASSUME StreamInv, NEW signed \in BOOLEAN, Thought(signed)
  PROVE  StreamInv'
<1> DEFINE k == Len(received) + 1
           sig == IF signed THEN k ELSE NoSig
           p == [kind |-> "thought", signed |-> signed]
<1>1. /\ StreamTypes /\ Collected /\ Told /\ Streaming /\ status = "running"
      /\ Part("thought", signed) /\ HandleThought(k, sig)
      /\ stored' = stored /\ saved' = saved /\ status' = status
  BY DEF StreamInv, Thought, Streaming
<1>2. st \in Translators /\ st.textSig \in 0..MaxParts /\ received \in Seq(Received) /\ st.modelParts \in Seq(Parts)
  BY <1>1 DEF StreamTypes, Translators
<1>3. /\ k \in Nat /\ sig \in Nat
      /\ received' = Append(received, p) /\ p \in Received
      /\ received' \in Seq(Received) /\ Len(received') <= MaxParts
      /\ PiecesOf({"thought"})' = Append(PiecesOf({"thought"}), k)
      /\ PiecesOf({"text"})' = PiecesOf({"text"}) /\ PiecesOf({"call"})' = PiecesOf({"call"})
  BY <1>1, NextPiece
<1>4. TurnOK(AppendModelText(st.modelParts, "thought", k, sig), received')
  <2>1. p.kind = "thought" /\ p.kind \in {"thought", "text"} /\ p.signed = signed
    OBVIOUS
  <2>2. TurnOK(st.modelParts, received)
    BY <1>1 DEF Collected
  <2>3. sig = IF p.signed THEN k ELSE NoSig
    BY <2>1
  <2> HIDE DEF p, sig
  <2>4. TurnOK(AppendModelText(st.modelParts, "thought", k, sig), Append(received, p))
    BY <1>2, <1>3, <2>1, <2>2, <2>3, TurnAppended
  <2> QED
    BY <1>3, <2>4
<1> HIDE DEF p, k, sig
<1>5. /\ st' \in Translators
      /\ st'.fullThoughtText = Append(st.fullThoughtText, k)
      /\ st'.modelParts = AppendModelText(st.modelParts, "thought", k, sig)
      /\ st'.api = st.api /\ st'.fullOutputText = st.fullOutputText
      /\ st'.activeFnCalls = st.activeFnCalls /\ st'.isRefusal = st.isRefusal
      /\ st'.textSig = st.textSig
  BY <1>1, <1>2, <1>3, ThoughtFields
<1>6. Collected'
  BY <1>1, <1>3, <1>4, <1>5 DEF Collected
<1>7. ~st.isRefusal /\ st.fullOutputText = PiecesOf({"text"}) /\ (Silent(st) \/ Shown(sse))
  BY <1>1 DEF Told
<1>8. Responses(st) => Followed(st', sse') /\ (Shown(sse) => Shown(sse'))
  BY <1>1, <1>2, <1>3, <1>7, ThoughtFollowed DEF Told
<1>9. ~Responses(st) => ChatFollowed(st', sse') /\ (Shown(sse) => Shown(sse'))
  BY <1>1, <1>2, <1>3, PartChatFollowed DEF Told
<1>10. Silent(st') \/ Shown(sse')
  BY <1>5, <1>7, <1>8, <1>9 DEF Silent
<1>11. stored' \subseteq (({Message} \cup {Call(m) : m \in 1..MaxParts}) \X (1..MaxParts))
  BY <1>1 DEF StreamTypes
<1> QED
  BY <1>1, <1>2, <1>3, <1>5, <1>6, <1>7, <1>8, <1>9, <1>10, <1>11, PartKeeps

LEMMA TextKeeps ==
  ASSUME StreamInv, NEW signed \in BOOLEAN, Text(signed)
  PROVE  StreamInv'
<1> DEFINE k == Len(received) + 1
           sig == IF signed THEN k ELSE NoSig
           p == [kind |-> "text", signed |-> signed]
<1>1. /\ StreamTypes /\ Collected /\ Told /\ Streaming /\ status = "running"
      /\ Part("text", signed) /\ HandleText(k, sig)
      /\ stored' = stored /\ saved' = saved /\ status' = status
  BY DEF StreamInv, Text, Streaming
<1>2. st \in Translators /\ st.textSig \in 0..MaxParts /\ received \in Seq(Received) /\ st.modelParts \in Seq(Parts)
  BY <1>1 DEF StreamTypes, Translators
<1>3. /\ k \in Nat /\ sig \in Nat /\ sig \in 0..MaxParts
      /\ received' = Append(received, p) /\ p \in Received
      /\ received' \in Seq(Received) /\ Len(received') <= MaxParts
      /\ PiecesOf({"text"})' = Append(PiecesOf({"text"}), k)
      /\ PiecesOf({"thought"})' = PiecesOf({"thought"}) /\ PiecesOf({"call"})' = PiecesOf({"call"})
  BY <1>1, NextPiece
<1>4. TurnOK(AppendModelText(st.modelParts, "text", k, sig), received')
  <2>1. p.kind = "text" /\ p.kind \in {"thought", "text"} /\ p.signed = signed
    OBVIOUS
  <2>2. TurnOK(st.modelParts, received)
    BY <1>1 DEF Collected
  <2>3. sig = IF p.signed THEN k ELSE NoSig
    BY <2>1
  <2> HIDE DEF p, sig
  <2>4. TurnOK(AppendModelText(st.modelParts, "text", k, sig), Append(received, p))
    BY <1>2, <1>3, <2>1, <2>2, <2>3, TurnAppended
  <2> QED
    BY <1>3, <2>4
<1> HIDE DEF p, k, sig
<1>5. /\ st' \in Translators
      /\ st'.fullOutputText = Append(st.fullOutputText, k)
      /\ st'.modelParts = AppendModelText(st.modelParts, "text", k, sig)
      /\ st'.api = st.api /\ st'.fullThoughtText = st.fullThoughtText
      /\ st'.activeFnCalls = st.activeFnCalls /\ st'.isRefusal = st.isRefusal
      /\ st'.textSig = Latest(st.textSig, sig)
  BY <1>1, <1>2, <1>3, TextFields
<1>6. Collected'
  BY <1>1, <1>3, <1>4, <1>5 DEF Collected
<1>7. ~st.isRefusal /\ st.fullOutputText = PiecesOf({"text"})
  BY <1>1 DEF Told
<1>8. Responses(st) => Followed(st', sse') /\ Shown(sse')
  BY <1>1, <1>2, <1>3, <1>7, TextFollowed DEF Told
<1>9. ~Responses(st) => ChatFollowed(st', sse') /\ Shown(sse')
  <2>1. ASSUME ~Responses(st)
        PROVE  ChatFollowed(st', sse') /\ (Shown(sse) \/ ~HandleThought(k, sig) => Shown(sse'))
    BY <1>1, <1>2, <1>3, <2>1, PartChatFollowed DEF Told
  <2>2. ~HandleThought(k, sig)
    <3> SUFFICES ASSUME HandleThought(k, sig) PROVE FALSE
      OBVIOUS
    <3>1. st'.fullOutputText = st.fullOutputText
      BY <1>2, <1>3, ThoughtFields
    <3>2. Append(st.fullOutputText, k) # st.fullOutputText
      BY <1>2, <1>3, NeverTheSame DEF Translators
    <3> QED
      BY <1>5, <3>1, <3>2
  <2> QED
    BY <2>1, <2>2
<1>10. st'.textSig \in 0..MaxParts
  BY <1>2, <1>3, <1>5 DEF Latest
<1>11. stored' \subseteq (({Message} \cup {Call(m) : m \in 1..MaxParts}) \X (1..MaxParts))
  BY <1>1 DEF StreamTypes
<1>12. st'.fullOutputText = PiecesOf({"text"})'
  BY <1>3, <1>5, <1>7
<1> QED
  BY <1>1, <1>3, <1>5, <1>6, <1>7, <1>8, <1>9, <1>10, <1>11, <1>12, PartKeeps

LEMMA CallKeeps ==
  ASSUME StreamInv, NEW signed \in BOOLEAN, FunctionCall(signed)
  PROVE  StreamInv'
<1> DEFINE k == Len(received) + 1
           sig == IF signed THEN k ELSE NoSig
           p == [kind |-> "call", signed |-> signed]
           part == [kind |-> "call", text |-> <<k>>, sig |-> sig]
<1>1. /\ StreamTypes /\ Collected /\ Told /\ Streaming /\ status = "running"
      /\ Part("call", signed) /\ HandleCall(k, sig)
      /\ saved' = saved /\ status' = status
  BY DEF StreamInv, FunctionCall, Streaming
<1>2. st \in Translators /\ st.textSig \in 0..MaxParts /\ received \in Seq(Received) /\ st.modelParts \in Seq(Parts)
  BY <1>1 DEF StreamTypes, Translators
<1>3. /\ k \in Nat /\ k \in 1..MaxParts /\ sig \in Nat /\ (sig # NoSig => sig \in 1..MaxParts)
      /\ received' = Append(received, p) /\ p \in Received
      /\ received' \in Seq(Received) /\ Len(received') <= MaxParts
      /\ PiecesOf({"call"})' = Append(PiecesOf({"call"}), k)
      /\ PiecesOf({"thought"})' = PiecesOf({"thought"}) /\ PiecesOf({"text"})' = PiecesOf({"text"})
      /\ k \notin Range(st.activeFnCalls)
  BY <1>1, NextPiece
<1>4. TurnOK(Append(st.modelParts, part), received')
  <2>1. /\ p.kind = "call" /\ p.kind \in Spoken /\ p.signed = signed
        /\ part \in Parts /\ part.kind = p.kind /\ part.text = <<Len(received) + 1>>
        /\ part.sig = IF p.signed THEN Len(received) + 1 ELSE NoSig
    BY <1>3, BitsOfPieces DEF Parts, Spoken
  <2>2. TurnOK(st.modelParts, received)
    BY <1>1 DEF Collected
  <2>3. Len(st.modelParts) > 0 => Apart(st.modelParts[Len(st.modelParts)], part)
    <3>1. part.kind = "call"
      OBVIOUS
    <3> HIDE DEF part
    <3> SUFFICES ASSUME st.modelParts[Len(st.modelParts)].kind # "call"
                 PROVE  Apart(st.modelParts[Len(st.modelParts)], part)
      BY DEF Apart
    <3> QED
      BY <3>1 DEF Apart
  <2> HIDE DEF p, part, k, sig
  <2>4. TurnOK(Append(st.modelParts, part), Append(received, p))
    BY <1>2, <1>3, <2>1, <2>2, <2>3, TurnBegins
  <2> QED
    BY <1>3, <2>4
<1> HIDE DEF p, k, sig
<1>5. /\ st' \in Translators
      /\ st'.activeFnCalls = Append(st.activeFnCalls, k)
      /\ st'.modelParts = Append(st.modelParts, part)
      /\ st'.api = st.api /\ st'.fullThoughtText = st.fullThoughtText
      /\ st'.fullOutputText = st.fullOutputText /\ st'.isRefusal = st.isRefusal
      /\ st'.textSig = st.textSig
  BY <1>1, <1>2, <1>3, CallFields
<1> HIDE DEF part
<1>6. Collected'
  BY <1>1, <1>3, <1>4, <1>5 DEF Collected
<1>7. ~st.isRefusal /\ st.fullOutputText = PiecesOf({"text"})
  BY <1>1 DEF Told
<1>8. Responses(st) => Followed(st', sse') /\ Shown(sse')
  BY <1>1, <1>2, <1>3, <1>7, CallFollowed DEF Told
<1>9. ~Responses(st) => ChatFollowed(st', sse') /\ Shown(sse')
  <2>1. ASSUME ~Responses(st)
        PROVE  ChatFollowed(st', sse') /\ (Shown(sse) \/ ~HandleThought(k, sig) => Shown(sse'))
    BY <1>1, <1>2, <1>3, <2>1, PartChatFollowed DEF Told
  <2>2. ~HandleThought(k, sig)
    <3> SUFFICES ASSUME HandleThought(k, sig) PROVE FALSE
      OBVIOUS
    <3>1. st'.activeFnCalls = st.activeFnCalls
      BY <1>2, <1>3, ThoughtFields
    <3>2. Append(st.activeFnCalls, k) # st.activeFnCalls
      BY <1>2, <1>3, NeverTheSame DEF Translators
    <3> QED
      BY <1>5, <3>1, <3>2
  <2> QED
    BY <2>1, <2>2
<1>10. stored' \subseteq (({Message} \cup {Call(m) : m \in 1..MaxParts}) \X (1..MaxParts))
  <2>1. stored \subseteq (({Message} \cup {Call(m) : m \in 1..MaxParts}) \X (1..MaxParts))
    BY <1>1 DEF StreamTypes
  <2>2. stored' = IF sig = NoSig THEN stored ELSE stored \cup {<<Call(k), sig>>}
    BY <1>1 DEF HandleCall
  <2> QED
    BY <1>3, <2>1, <2>2
<1> QED
  BY <1>1, <1>2, <1>3, <1>5, <1>6, <1>7, <1>8, <1>9, <1>10, PartKeeps
LEMMA EmptyKeeps ==
  ASSUME StreamInv, NEW signed \in BOOLEAN, EmptyPart(signed)
  PROVE  StreamInv'
<1> DEFINE p == [kind |-> "empty", signed |-> signed]
<1>1. /\ StreamTypes /\ Collected /\ Told /\ Streaming /\ status = "running"
      /\ Part("empty", signed) /\ st' = st /\ sse' = sse
      /\ stored' = stored /\ saved' = saved /\ status' = status
  BY DEF StreamInv, EmptyPart, Streaming
<1>2. st \in Translators /\ st.textSig \in 0..MaxParts /\ received \in Seq(Received) /\ st.modelParts \in Seq(Parts)
  BY <1>1 DEF StreamTypes, Translators
<1>3. /\ received' = Append(received, p) /\ p \in Received
      /\ received' \in Seq(Received) /\ Len(received') <= MaxParts
      /\ \A x \in {"thought", "text", "call"} : PiecesOf({x})' = PiecesOf({x})
  BY <1>1, NextPiece
<1>4. TurnOK(st.modelParts, received')
  <2>1. p.kind \notin Spoken /\ TurnOK(st.modelParts, received)
    BY <1>1 DEF Spoken, Collected
  <2> HIDE DEF p
  <2> QED
    BY <1>2, <1>3, <2>1, TurnStays
<1> HIDE DEF p
<1>5. Collected'
  BY <1>1, <1>3, <1>4 DEF Collected
<1>6. /\ ~st.isRefusal /\ st.fullOutputText = PiecesOf({"text"})' /\ (Silent(st) \/ Shown(sse))
      /\ Responses(st) => Followed(st, sse)
      /\ ~Responses(st) => ChatFollowed(st, sse)
  BY <1>1, <1>3 DEF Told
<1>7. stored' \subseteq (({Message} \cup {Call(m) : m \in 1..MaxParts}) \X (1..MaxParts))
  BY <1>1 DEF StreamTypes
<1> QED
  BY <1>1, <1>2, <1>3, <1>5, <1>6, <1>7, PartKeeps

(* What a client has read does not depend on the rest of the translator.   *)
LEMMA SameClient ==
  ASSUME NEW s, NEW t,
         t.isRefusal = s.isRefusal, t.hasStartedReasoning = s.hasStartedReasoning,
         t.hasEndedReasoning = s.hasEndedReasoning, t.hasStartedItem = s.hasStartedItem,
         t.fullOutputText = s.fullOutputText, t.fullThoughtText = s.fullThoughtText,
         t.activeFnCalls = s.activeFnCalls, t.chatToolIdx = s.chatToolIdx
  PROVE  /\ \A L : Followed(s, L) => Followed(t, L)
         /\ \A L : ChatFollowed(s, L) => ChatFollowed(t, L)
         /\ Silent(t) <=> Silent(s)
<1>1. Calls(t) = Calls(s) /\ MessageContent(t) = MessageContent(s)
  BY DEF Calls, MessageContent
<1>2. Opened(t) = Opened(s) /\ Closed(t) = Closed(s) /\ Said(t) = Said(s)
  BY <1>1 DEF Opened, Closed, Said
<1> QED
  BY <1>2 DEF Followed, ChatFollowed, Silent

(* A block reason or a finish reason. *)
LEMMA ReasonKeeps ==
  ASSUME StreamInv, PromptFeedback \/ \E reason \in Reasons : FinishReason(reason)
  PROVE  StreamInv'
<1>1. /\ StreamTypes /\ Collected /\ Told /\ status = "running"
      /\ sse' = sse /\ received' = received
      /\ stored' = stored /\ saved' = saved /\ status' = status
  BY DEF StreamInv, PromptFeedback, FinishReason
<1>2. st \in Translators /\ st.textSig \in 0..MaxParts /\ received \in Seq(Received) /\ Len(received) <= MaxParts
  BY <1>1 DEF StreamTypes
<1>3. /\ st' \in Translators /\ st'.api = st.api /\ st'.textSig = st.textSig
      /\ st'.isRefusal = st.isRefusal /\ st'.hasStartedReasoning = st.hasStartedReasoning
      /\ st'.hasEndedReasoning = st.hasEndedReasoning /\ st'.hasStartedItem = st.hasStartedItem
      /\ st'.fullOutputText = st.fullOutputText /\ st'.fullThoughtText = st.fullThoughtText
      /\ st'.activeFnCalls = st.activeFnCalls /\ st'.chatToolIdx = st.chatToolIdx
      /\ st'.modelParts = st.modelParts
  <2>1. CASE PromptFeedback
    BY <1>2, <2>1 DEF PromptFeedback, Translators
  <2>2. CASE \E reason \in Reasons : FinishReason(reason)
    <3>1. PICK reason \in Reasons : st' = [st EXCEPT !.lastFinishReason = reason]
      BY <2>2 DEF FinishReason
    <3> QED
      BY <1>2, <3>1 DEF Translators
  <2> QED
    BY <2>1, <2>2
<1>4. \A kinds : PiecesOf(kinds)' = PiecesOf(kinds)
  BY <1>1 DEF PiecesOf
<1>5. Collected'
  BY <1>1, <1>3, <1>4 DEF Collected
<1>6. /\ ~st.isRefusal /\ st.fullOutputText = PiecesOf({"text"}) /\ (Silent(st) \/ Shown(sse))
      /\ Responses(st) => Followed(st, sse)
      /\ ~Responses(st) => ChatFollowed(st, sse)
  BY <1>1 DEF Told
<1>7. /\ Responses(st) => Followed(st', sse')
      /\ ~Responses(st) => ChatFollowed(st', sse')
      /\ Silent(st') \/ Shown(sse')
  BY <1>1, <1>3, <1>6, SameClient
<1>8. stored' \subseteq (({Message} \cup {Call(m) : m \in 1..MaxParts}) \X (1..MaxParts))
  BY <1>1 DEF StreamTypes
<1> QED
  BY <1>1, <1>2, <1>3, <1>4, <1>5, <1>6, <1>7, <1>8, PartKeeps

LEMMA FinishFields ==
  ASSUME st \in Translators, FinishStream
  PROVE  /\ st' \in Translators /\ st'.api = st.api /\ st'.textSig = st.textSig
         /\ st'.fullThoughtText = st.fullThoughtText /\ st'.activeFnCalls = st.activeFnCalls
         /\ st'.modelParts = st.modelParts /\ st'.chatToolIdx = st.chatToolIdx
         /\ st'.blockReason = st.blockReason /\ st'.lastFinishReason = st.lastFinishReason
<1> DEFINE r == Refused(st)
           f == Shielded(r)
           e == ReasoningEnded(f)
<1>1. st' = e
  BY DEF FinishStream
<1>2. /\ r \in Translators /\ r.api = st.api /\ r.textSig = st.textSig
      /\ r.fullThoughtText = st.fullThoughtText /\ r.activeFnCalls = st.activeFnCalls
      /\ r.modelParts = st.modelParts /\ r.chatToolIdx = st.chatToolIdx
      /\ r.blockReason = st.blockReason /\ r.lastFinishReason = st.lastFinishReason
  BY RefusedFields
<1> HIDE DEF r
<1>3. /\ f \in Translators /\ f.api = r.api /\ f.textSig = r.textSig
      /\ f.fullThoughtText = r.fullThoughtText /\ f.activeFnCalls = r.activeFnCalls
      /\ f.modelParts = r.modelParts /\ f.chatToolIdx = r.chatToolIdx
      /\ f.blockReason = r.blockReason /\ f.lastFinishReason = r.lastFinishReason
  BY <1>2, ShieldedFields
<1> HIDE DEF f
<1>4. /\ e \in Translators /\ e.api = f.api /\ e.textSig = f.textSig
      /\ e.fullThoughtText = f.fullThoughtText /\ e.activeFnCalls = f.activeFnCalls
      /\ e.modelParts = f.modelParts /\ e.chatToolIdx = f.chatToolIdx
      /\ e.blockReason = f.blockReason /\ e.lastFinishReason = f.lastFinishReason
  BY <1>3, EndedFields
<1> HIDE DEF e
<1> QED
  BY <1>1, <1>2, <1>3, <1>4

LEMMA FinishKeeps ==
  ASSUME StreamInv, FinishStream
  PROVE  StreamInv'
<1>1. /\ StreamTypes /\ Collected /\ Told /\ status = "running"
      /\ received' = received
      /\ stored' = IF Responses(st) /\ st.textSig # NoSig
                   THEN stored \cup {<<Message, st.textSig>>} ELSE stored
      /\ saved' = IF Responses(st) THEN st.modelParts ELSE saved
      /\ status' \in {"truncated", "completed"}
  BY DEF StreamInv, FinishStream
<1>2. st \in Translators
  BY <1>1 DEF StreamTypes
<1>3. /\ st' \in Translators /\ st'.api = st.api /\ st'.textSig = st.textSig
      /\ st'.fullThoughtText = st.fullThoughtText /\ st'.activeFnCalls = st.activeFnCalls
      /\ st'.modelParts = st.modelParts /\ st'.chatToolIdx = st.chatToolIdx
      /\ st'.blockReason = st.blockReason /\ st'.lastFinishReason = st.lastFinishReason
  BY <1>2, FinishFields
<1>4. \A kinds : PiecesOf(kinds)' = PiecesOf(kinds)
  BY <1>1 DEF PiecesOf
<1>5. StreamTypes'
  <2>1. stored' \subseteq (({Message} \cup {Call(m) : m \in 1..MaxParts}) \X (1..MaxParts))
    <3>1. st.textSig # NoSig => st.textSig \in 1..MaxParts
      BY <1>1, StreamAssumption DEF StreamTypes, NoSig
    <3> QED
      BY <1>1, <3>1 DEF StreamTypes
  <2>2. saved' \in Seq(Parts)
    BY <1>1, <1>2 DEF StreamTypes, Translators
  <2> QED
    BY <1>1, <1>3, <2>1, <2>2 DEF StreamTypes
<1>6. Collected'
  BY <1>1, <1>3, <1>4 DEF Collected
<1>7. ~st.isRefusal /\ (Silent(st) \/ Shown(sse)) /\ st.fullOutputText = PiecesOf({"text"})
  BY <1>1 DEF Told
<1>8. CASE Responses(st)
  <2>1. Kept(sse') /\ Shown(sse') /\ Closes(sse')
    BY <1>1, <1>2, <1>7, <1>8, ResponseFinished DEF Told
  <2>2. Complete'
    BY <1>3, <1>8, <2>1 DEF Complete, Responses
  <2> QED
    BY <1>1, <1>5, <1>6, <2>1, <2>2 DEF StreamInv
<1>9. CASE ~Responses(st)
  <2> DEFINE content == IF Silent(st) /\ ~st.blockReason THEN <<FallbackText(st)>> ELSE st.fullOutputText
  <2> DEFINE refused == Silent(st) /\ st.blockReason
  <2>1. Shown(sse') /\ ChatSaid(content, refused, sse')
    BY <1>1, <1>2, <1>7, <1>9, ChatFinished DEF Told
  <2>2. Answer' = content
    <3>1. FallbackText(st)' = FallbackText(st)
      BY <1>3 DEF FallbackText
    <3> QED
      BY <1>1, <1>3, <1>4, <1>7, <3>1 DEF Answer, Silent, Collected
  <2>6. Refuses' <=> refused
    BY <1>1, <1>3, <1>4, <1>7 DEF Refuses, Silent, Collected
  <2> HIDE DEF content, refused
  <2>3. ChatSaid(Answer, Refuses, sse)'
    BY <1>3, <2>1, <2>2, <2>6 DEF ChatSaid
  <2>4. Kept(sse')
    BY <2>1 DEF ChatSaid, ChatReads
  <2>5. Complete'
    BY <1>3, <1>9, <2>1, <2>3 DEF Complete, Responses
  <2> QED
    BY <1>1, <1>5, <1>6, <2>4, <2>5 DEF StreamInv
<1> QED
  BY <1>8, <1>9

LEMMA ErrorKeeps ==
  ASSUME StreamInv, StreamError
  PROVE  StreamInv'
<1> DEFINE e == Event("error", NoItem, NoIndex, <<>>)
<1>1. /\ StreamTypes /\ Collected /\ Kept(sse)
      /\ sse' = Append(sse, e) /\ status' = "error"
      /\ st' = st /\ received' = received /\ stored' = stored /\ saved' = saved
  BY DEF StreamInv, StreamError
<1>2. e \in Events /\ e.type = "error"
  BY ItemNames, BitsOfPieces DEF Event, Events, EventTypes, NoIndex
<1> HIDE DEF e
<1>3. Fits(sse, e)
  BY <1>2 DEF Fits, Deltas, MessageDones
<1>4. Kept(sse')
  BY <1>1, <1>3, KeptMore
<1>5. StreamTypes'
  BY <1>1 DEF StreamTypes
<1>6. Collected'
  BY <1>1 DEF Collected, PiecesOf
<1> QED
  BY <1>1, <1>4, <1>5, <1>6 DEF StreamInv, Finished

LEMMA StreamStutters ==
  ASSUME StreamInv, UNCHANGED vars
  PROVE  StreamInv'
<1>1. /\ st' = st /\ sse' = sse /\ received' = received
      /\ stored' = stored /\ saved' = saved /\ status' = status
  BY DEF vars
<1>2. \A kinds : PiecesOf(kinds)' = PiecesOf(kinds)
  BY <1>1 DEF PiecesOf
<1>3. StreamTypes'
  BY <1>1 DEF StreamInv, StreamTypes
<1>4. Collected'
  BY <1>1, <1>2 DEF StreamInv, Collected
<1>5. Told => Told'
  BY <1>1, <1>2 DEF Told
<1>6. Complete => Complete'
  BY <1>1, <1>2 DEF Complete, ChatSaid, Answer, Refuses
<1> QED
  BY <1>1, <1>3, <1>4, <1>5, <1>6 DEF StreamInv, Finished

LEMMA StreamStep == StreamInv /\ [Next]_vars => StreamInv'
BY ThoughtKeeps, TextKeeps, CallKeeps, EmptyKeeps, ReasonKeeps, FinishKeeps, ErrorKeeps,
   StreamStutters DEF Next

(* The inductive invariant holds of every stream. *)
THEOREM StreamInvariance == Spec => []StreamInv
BY StreamInitial, StreamStep, PTL DEF Spec
-----------------------------------------------------------------------------
(* What holds of every stream, for any number of parts in any order.       *)

(* Every item is announced once, before anything is said about it, and     *)
(* done once; what the done events of the message say is what its deltas   *)
(* said; tool calls are numbered from zero without gaps: the flags         *)
(* hasStartedReasoning, hasEndedReasoning, hasStartedItem and the counter  *)
(* chatToolIdx agree with what was sent, broken streams included.          *)
THEOREM StreamsAreWellFormed == Spec => []WellFormed
<1>1. StreamInv => WellFormed
  <2> SUFFICES ASSUME StreamInv PROVE WellFormed
    OBVIOUS
  <2>1. StreamTypes /\ Kept(sse)
    BY DEF StreamInv
  <2>2. \A i \in DOMAIN sse : sse[i].index \in Nat
    <3>1. \A i \in DOMAIN sse : sse[i] \in Events
      BY <2>1, LenProperties, ElementOfSeq DEF Kept
    <3> QED
      BY <3>1 DEF Events
  <2>3. \A i \in DOMAIN saved : saved[i].kind \in {"thought", "text", "call"}
    <3>1. \A i \in DOMAIN saved : saved[i] \in Parts
      BY <2>1, LenProperties, ElementOfSeq DEF StreamTypes
    <3> QED
      BY <3>1 DEF Parts
  <2>4. TypeOK
    BY <2>1, <2>2, <2>3 DEF TypeOK, StreamTypes
  <2> QED
    BY <2>1, <2>4 DEF WellFormed, Kept
<1> QED
  BY <1>1, StreamInvariance, PTL

(* The empty-answer shield of FinishStream: whatever Gemini sent, a        *)
(* finished stream has given the client a text, a refusal or a call.       *)
THEOREM NoFinishedStreamIsEmpty == Spec => []NeverEmpty
<1>1. StreamInv => NeverEmpty
  <2>1. StreamInv /\ Finished => Shown(sse)
    BY DEF StreamInv, Complete
  <2>2. Shown(sse) => \E i \in DOMAIN sse :
                        /\ sse[i].type \in ShownTypes
                        /\ sse[i].item # Reasoning /\ sse[i].text # <<>>
    BY DEF Shown, Shows
  <2> QED
    BY <2>1, <2>2 DEF NeverEmpty, ShownTypes
<1> QED
  BY <1>1, StreamInvariance, PTL

(* A finished response: one terminal event, the last; every announced item *)
(* done; the response object of buildResponseObject lists the announced    *)
(* items, each with all that its deltas said.                              *)
THEOREM ResponsesAreClosed == Spec => []StreamClosed
<1>1. StreamInv => StreamClosed
  <2> SUFFICES ASSUME StreamInv, Finished, st.api = "responses" PROVE Closes(sse)
    BY DEF StreamClosed, Closes
  <2> QED
    BY DEF StreamInv, Complete, Responses
<1> QED
  BY <1>1, StreamInvariance, PTL

(* The turn kept for previous_response_id is what Gemini said: all of it,  *)
(* in order, merged by appendModelText only where pieces of one kind       *)
(* follow each other, each part with its last signature.                   *)
THEOREM TurnsAreFaithful == Spec => []TurnFaithful
<1>1. StreamInv => TurnFaithful
  <2> DEFINE parts == st.modelParts
  <2> SUFFICES ASSUME StreamInv PROVE TurnFaithful
    OBVIOUS
  <2>1. parts \in Seq(Parts) /\ TurnOK(parts, received)
    BY DEF StreamInv, StreamTypes, Translators, Collected
  <2> HIDE DEF parts
  <2>2. \A i \in DOMAIN parts : i \in 1..Len(parts) /\ parts[i] \in Parts
    BY <2>1, LenProperties, ElementOfSeq
  <2>3. FlattenSeq([i \in DOMAIN parts |-> parts[i].text]) = PiecesOf({"thought", "text", "call"})
    <3>1. [i \in DOMAIN parts |-> TextOf[parts[i]]] = [i \in DOMAIN parts |-> parts[i].text]
      BY <2>2 DEF TextOf
    <3>2. FlatMap(TextOf, parts) = FlattenSeq([i \in DOMAIN parts |-> parts[i].text])
      BY <3>1 DEF FlatMap
    <3>3. Pieces(received, Spoken) = PiecesOf({"thought", "text", "call"})
      BY DEF Pieces, PiecesOf, Spoken
    <3> QED
      BY <2>1, <3>2, <3>3 DEF TurnOK
  <2>4. ASSUME NEW i \in DOMAIN parts
        PROVE  LET part == parts[i]
                   signed == {k \in ToSet(part.text) : received[k].signed}
               IN  /\ \A k \in ToSet(part.text) : received[k].kind = part.kind
                   /\ part.kind = "call" => Len(part.text) = 1
                   /\ part.sig = IF signed = {} THEN NoSig ELSE Max(signed)
    <3> DEFINE part == parts[i]
    <3>1. PartOK(part, received)
      BY <2>1, <2>2, <2>4 DEF TurnOK
    <3> HIDE DEF part
    <3>2. ToSet(part.text) = Range(part.text)
      BY DEF ToSet, Range
    <3>3. {k \in ToSet(part.text) : received[k].signed} = Signed(part, received)
      BY <3>2 DEF Signed
    <3>4. /\ \A k \in ToSet(part.text) : received[k].kind = part.kind
          /\ part.kind = "call" => Len(part.text) = 1
      BY <3>1, <3>2 DEF PartOK
    <3>5. part.sig = IF Signed(part, received) = {} THEN NoSig ELSE Max(Signed(part, received))
      BY <3>1 DEF PartOK
    <3> QED
      BY <3>3, <3>4, <3>5 DEF part
  <2>5. \A i \in 1..(Len(parts) - 1) : parts[i].kind = "call" \/ parts[i].kind # parts[i + 1].kind
    BY <2>1 DEF TurnOK, Apart
  <2> QED
    BY <2>3, <2>4, <2>5 DEF TurnFaithful, parts
<1> QED
  BY <1>1, StreamInvariance, PTL

(* handleChatCompletions with stream:false and the streaming path answer   *)
(* the same: thoughts, calls, finish reason, and text, but for the words   *)
(* of the notice when there was nothing at all.  The stream refuses when   *)
(* the message carries a refusal and nothing else.                         *)
THEOREM JsonAndStreamAgree == Spec => []JsonAgrees
<1>1. StreamInv => JsonAgrees
  <2> SUFFICES ASSUME StreamInv, Finished, st.api = "chat" PROVE JsonAgrees
    BY DEF JsonAgrees
  <2>1. ChatSaid(Answer, Refuses, sse) /\ Collected /\ st \in Translators
    BY DEF StreamInv, Complete, Responses, StreamTypes
  <2>2. /\ ChatReads(sse, Answer, st.fullThoughtText, st.activeFnCalls, st.chatToolIdx)
        /\ Of(sse, "chat.refusal", Message) # {} <=> Refuses
        /\ sse[Len(sse) - 2].text[1]
             = ChatFinishReason(st.lastFinishReason, PiecesOf({"call"}), st.blockReason)
        /\ st.fullThoughtText = PiecesOf({"thought"}) /\ st.activeFnCalls = PiecesOf({"call"})
    BY <2>1 DEF ChatSaid, Collected
  <2>3. /\ Assembled(sse, {"chat.content"}, Message) = Answer
        /\ Assembled(sse, {"chat.reasoning_content"}, Reasoning) = PiecesOf({"thought"})
        /\ CallsAssembled(sse) = PiecesOf({"call"})
    BY <2>2 DEF ChatReads
  <2> DEFINE texts == PiecesOf({"text"})
             calls == PiecesOf({"call"})
             thoughts == PiecesOf({"thought"})
             noticed == texts = <<>> /\ calls = <<>> /\ ~st.blockReason
  <2>4. /\ JsonMessage.content = IF noticed THEN FallbackOfJson ELSE texts
        /\ JsonMessage.reasoning = thoughts
        /\ JsonMessage.calls = calls /\ JsonMessage.refusal = st.blockReason
        /\ JsonMessage.finish = ChatFinishReason(st.lastFinishReason, calls, st.blockReason)
    BY DEF JsonMessage
  <2>5. Answer = IF noticed THEN <<FallbackText(st)>> ELSE texts
    BY DEF Answer
  <2>6. \/ thoughts # <<>> /\ <<FallbackText(st)>> = FallbackOfJson
        \/ /\ thoughts = <<>> /\ FallbackOfJson = <<NothingOfJson>>
           /\ <<FallbackText(st)>> \in {<<EndedBy>>, <<Nothing>>}
    BY <2>2 DEF FallbackText, FallbackOfJson
  <2>7. FallbackOfJson # <<>>
    BY DEF FallbackOfJson
  <2>8. Refuses <=> st.blockReason /\ texts = <<>> /\ calls = <<>>
    BY DEF Refuses
  <2> HIDE DEF JsonMessage, texts, calls, thoughts
  <2>9. \/ JsonMessage.content = Answer
        \/ /\ JsonMessage.content = <<NothingOfJson>> /\ Answer \in {<<EndedBy>>, <<Nothing>>}
           /\ thoughts = <<>> /\ calls = <<>>
    BY <2>4, <2>5, <2>6
  <2>10. Refuses <=> JsonMessage.refusal /\ JsonMessage.content = <<>> /\ JsonMessage.calls = <<>>
    BY <2>4, <2>7, <2>8
  <2> QED
    BY <2>2, <2>3, <2>4, <2>9, <2>10 DEF JsonAgrees, calls, thoughts
<1> QED
  BY <1>1, StreamInvariance, PTL
=============================================================================
