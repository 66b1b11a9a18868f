-------------------------- MODULE StreamTranslator --------------------------
(***************************************************************************)
(* One answer of the gateway: the translation of a Gemini stream into      *)
(* OpenAI events (src/stream_translator.go) and the handlers around it     *)
(* (handleResponses and handleChatCompletions in src/main.go).             *)
(*                                                                         *)
(* Gemini sends parts: pieces of thought, pieces of text, function calls,  *)
(* each with or without a signature; and, at any point, a block reason or  *)
(* a finish reason.  A chunk carries several of these; nothing that        *)
(* handles a part reads the reasons, so each is a step of its own here.    *)
(* The stream then ends (FinishStream) or breaks (the error branch).       *)
(*                                                                         *)
(* The piece a part carries is its number in the stream, its signature the *)
(* same number, so texts are sequences of numbers and concatenation keeps  *)
(* track of who contributed what.                                          *)
(***************************************************************************)
EXTENDS Naturals, Sequences, FiniteSets, SequencesExt

CONSTANTS
  APIs,        \* which endpoints are asked: "responses" and "chat"
  Reasons,     \* Gemini's finish reasons
  MaxParts     \* bound on the parts of one stream

Filtered == {"SAFETY", "RECITATION", "BLOCKLIST", "PROHIBITED_CONTENT", "SPII", "IMAGE_SAFETY"}

ASSUME StreamAssumption ==
  /\ APIs \subseteq {"responses", "chat"}
  /\ Reasons \subseteq Filtered \cup {"STOP", "MAX_TOKENS", "OTHER"}
  /\ MaxParts \in Nat

NoSig    == 0
Refusal  == MaxParts + 1      \* the refusal message

(* What an answer without text, call or refusal says instead.  The two     *)
(* implementations share the first wording only.                           *)
ThoughtOnly   == MaxParts + 2 \* the model has thought and said nothing
EndedBy       == MaxParts + 3 \* the stream: Google's finish reason, quoted
Nothing       == MaxParts + 4 \* the stream: no output at all
NothingOfJson == MaxParts + 5 \* stream:false: no output at all

Reasoning == <<"reasoning", 0>>
Message   == <<"message", 0>>
Call(n)   == <<"function_call", n>>
NoItem    == <<"none", 0>>
NoIndex   == 999              \* an event without output_index

VARIABLES
  st,          \* the StreamTranslator
  sse,         \* the events sent to the client, in order
  received,    \* the parts Gemini has sent so far
  stored,      \* what GlobalThoughtStore.Store was called with
  saved,       \* what saveResponseState put into the response store
  status       \* reqInfo.Status

vars == <<st, sse, received, stored, saved, status>>

Event(type, item, index, text) ==
  [type |-> type, item |-> item, index |-> index, text |-> text]

Init ==
  /\ st \in [api : APIs,
             hasEmittedHeader : {FALSE}, hasStartedReasoning : {FALSE},
             hasEndedReasoning : {FALSE}, hasStartedItem : {FALSE},
             reasoningOutputIndex : {0}, textOutputIndex : {0},
             nextOutputIndex : {0}, chatToolIdx : {0},
             fullOutputText : {<<>>}, fullThoughtText : {<<>>},
             activeFnCalls : {<<>>}, modelParts : {<<>>},
             thoughtSig : {NoSig}, textSig : {NoSig},
             blockReason : {FALSE}, isRefusal : {FALSE}, lastFinishReason : {""}]
  /\ sse = <<>>
  /\ received = <<>>
  /\ stored = {}
  /\ saved = <<>>
  /\ status = "running"
-----------------------------------------------------------------------------
(* The pieces the handlers are made of.  Each takes the translator and     *)
(* returns what becomes of it, or the events it sends.                     *)

Responses(s) == s.api = "responses"

(* response.created, once. *)
Header(s) ==
  IF s.hasEmittedHeader THEN <<>> ELSE <<Event("response.created", NoItem, NoIndex, <<>>)>>

Ending(s) == Responses(s) /\ s.hasStartedReasoning /\ ~s.hasEndedReasoning

(* ensureReasoningEnded: the reasoning item is closed once, with the       *)
(* thoughts that have arrived by then.                                     *)
ReasoningDone(s) ==
  IF Ending(s)
  THEN <<Event("output_item.done", Reasoning, s.reasoningOutputIndex, s.fullThoughtText)>>
  ELSE <<>>

ReasoningEnded(s) == [s EXCEPT !.hasEndedReasoning = @ \/ Ending(s)]

(* Mutant: the piece joins the last part of its kind, wherever it is. *)
AppendModelTextAnywhere(parts, kind, piece, sig) ==
  LET same == {i \in DOMAIN parts : parts[i].kind = kind}
  IN  IF same # {}
      THEN [parts EXCEPT ![Max(same)].text = Append(@, piece),
                         ![Max(same)].sig  = IF sig = NoSig THEN @ ELSE sig]
      ELSE Append(parts, [kind |-> kind, text |-> <<piece>>, sig |-> sig])

(* appendModelText: a piece joins the last part of the turn when that is   *)
(* of the same kind, and hands it its signature.                           *)
AppendModelText(parts, kind, piece, sig) ==
  LET n == Len(parts)
  IN  IF n > 0 /\ parts[n].kind = kind
      THEN [parts EXCEPT ![n].text = Append(@, piece),
                         ![n].sig  = IF sig = NoSig THEN @ ELSE sig]
      ELSE Append(parts, [kind |-> kind, text |-> <<piece>>, sig |-> sig])

Latest(old, sig) == IF sig = NoSig THEN old ELSE sig

(* The message item is announced, once, at the next free index. *)
MessageStarted(s) ==
  IF s.hasStartedItem THEN s
  ELSE [s EXCEPT !.hasStartedItem = TRUE,
                 !.textOutputIndex = s.nextOutputIndex,
                 !.nextOutputIndex = @ + 1]

MessageAdded(s, started) ==
  IF s.hasStartedItem THEN <<>>
  ELSE <<Event("output_item.added", Message, started.textOutputIndex, <<>>)>>

(* messageItemContent *)
MessageContent(s) == IF s.isRefusal THEN <<Refusal>> ELSE s.fullOutputText
-----------------------------------------------------------------------------
(* HandleGeminiChunk: a thought with text. *)
HandleThought(k, sig) ==
  LET t == [st EXCEPT !.fullThoughtText = Append(@, k),
                      !.thoughtSig = Latest(@, sig),
                      !.modelParts = AppendModelText(@, "thought", k, sig)]
      fresh == ~t.hasStartedReasoning
      u == [t EXCEPT !.hasEmittedHeader = TRUE,
                     !.hasStartedReasoning = TRUE,
                     !.reasoningOutputIndex = IF fresh THEN t.nextOutputIndex ELSE @,
                     !.nextOutputIndex = IF fresh THEN @ + 1 ELSE @]
  IN  IF Responses(st)
      THEN /\ st' = u
           /\ sse' = sse \o Header(t)
                \o (IF fresh
                    THEN <<Event("output_item.added", Reasoning, u.reasoningOutputIndex, <<>>)>>
                    ELSE <<>>)
                \o <<Event("reasoning_text.delta", Reasoning, u.reasoningOutputIndex, <<k>>)>>
      ELSE /\ st' = t
           /\ sse' = Append(sse, Event("chat.reasoning_content", Reasoning, NoIndex, <<k>>))

(* Mutant: a later piece of text announces the message again. *)
HandleTextReannouncing(k, sig) ==
  LET t == [st EXCEPT !.fullOutputText = Append(@, k), !.hasEmittedHeader = TRUE,
                      !.modelParts = AppendModelText(@, "text", k, sig)]
  IN  /\ st' = [MessageStarted(t) EXCEPT !.hasStartedItem = FALSE]
      /\ sse' = sse \o Header(t) \o MessageAdded(t, MessageStarted(t))
                    \o <<Event("output_text.delta", Message, t.textOutputIndex, <<k>>)>>

(* A text. *)
HandleText(k, sig) ==
  LET t == [ReasoningEnded(st) EXCEPT !.fullOutputText = Append(@, k),
                                      !.textSig = Latest(@, sig),
                                      !.modelParts = AppendModelText(@, "text", k, sig)]
      u == [MessageStarted(t) EXCEPT !.hasEmittedHeader = TRUE]
  IN  IF Responses(st)
      THEN /\ st' = u
           /\ sse' = sse \o ReasoningDone(st) \o Header(t) \o MessageAdded(t, u)
                \o (IF t.hasStartedItem THEN <<>>
                    ELSE <<Event("content_part.added", Message, u.textOutputIndex, <<>>)>>)
                \o <<Event("output_text.delta", Message, u.textOutputIndex, <<k>>)>>
      ELSE /\ st' = t
           /\ sse' = Append(sse, Event("chat.content", Message, NoIndex, <<k>>))

(* A function call.  Its signature is stored under its id; the header is   *)
(* not sent.                                                               *)
HandleCall(k, sig) ==
  LET t == [ReasoningEnded(st) EXCEPT
              !.modelParts = Append(@, [kind |-> "call", text |-> <<k>>, sig |-> sig]),
              !.activeFnCalls = Append(@, k)]
      i == st.nextOutputIndex
  IN  /\ stored' = IF sig = NoSig THEN stored ELSE stored \cup {<<Call(k), sig>>}
      /\ IF Responses(st)
         THEN /\ st' = [t EXCEPT !.nextOutputIndex = @ + 1]
              /\ sse' = sse \o ReasoningDone(st)
                   \o <<Event("output_item.added", Call(k), i, <<>>),
                        Event("function_call_arguments.delta", Call(k), i, <<k>>),
                        Event("function_call_arguments.done", Call(k), i, <<k>>),
                        Event("output_item.done", Call(k), i, <<k>>)>>
         ELSE /\ st' = [t EXCEPT !.chatToolIdx = @ + 1]
              /\ sse' = Append(sse, Event("chat.tool_calls", Call(k), st.chatToolIdx, <<k>>))
-----------------------------------------------------------------------------
(* FinishStream, step by step. *)

Silent(s) == s.fullOutputText = <<>> /\ s.activeFnCalls = <<>>

(* Blocked without an answer: the message carries a refusal. *)
Refused(s) ==
  IF Silent(s) /\ s.blockReason
  THEN LET r == [s EXCEPT !.isRefusal = TRUE]
       IN  IF Responses(s) THEN [MessageStarted(r) EXCEPT !.hasEmittedHeader = TRUE] ELSE r
  ELSE s

RefusalEvents(s, r) ==
  IF ~r.isRefusal THEN <<>>
  ELSE IF Responses(s)
  THEN Header(s) \o MessageAdded(s, r)
         \o <<Event("refusal.delta", Message, r.textOutputIndex, <<Refusal>>)>>
  ELSE <<Event("chat.refusal", Message, NoIndex, <<Refusal>>)>>

(* The wording of the shield.  (A thought of white space alone, which the  *)
(* code counts as none here, is left aside.)                               *)
FallbackText(s) ==
  IF s.fullThoughtText # <<>> THEN ThoughtOnly
  ELSE IF s.lastFinishReason \notin {"", "STOP"} THEN EndedBy
  ELSE Nothing

(* Mutant: the shield only covers answers without thoughts. *)
ShieldedUnlessThought(s) ==
  IF Silent(s) /\ ~s.isRefusal /\ s.fullThoughtText = <<>>
  THEN LET f == [s EXCEPT !.fullOutputText = <<FallbackText(s)>>]
       IN  IF Responses(s) THEN [f EXCEPT !.hasEmittedHeader = TRUE, !.hasStartedItem = TRUE] ELSE f
  ELSE s

(* The empty-answer shield.  The message it announces takes no index of    *)
(* its own: textOutputIndex is still what it was.                          *)
Shielded(s) ==
  IF Silent(s) /\ ~s.isRefusal
  THEN LET f == [s EXCEPT !.fullOutputText = <<FallbackText(s)>>]
       IN  IF Responses(s) THEN [f EXCEPT !.hasEmittedHeader = TRUE, !.hasStartedItem = TRUE] ELSE f
  ELSE s

ShieldEvents(s, f) ==
  IF f.fullOutputText = s.fullOutputText THEN <<>>
  ELSE IF Responses(s)
  THEN Header(s)
         \o (IF s.hasStartedItem THEN <<>>
             ELSE <<Event("output_item.added", Message, NoIndex, <<>>),
                    Event("content_part.added", Message, s.textOutputIndex, <<>>)>>)
         \o <<Event("output_text.delta", Message, NoIndex, <<FallbackText(s)>>)>>
  ELSE <<Event("chat.content", Message, NoIndex, <<FallbackText(s)>>)>>

MessageDone(s) ==
  IF s.fullOutputText = <<>> /\ ~s.hasStartedItem THEN <<>>
  ELSE (IF s.isRefusal THEN <<>>
        ELSE <<Event("output_text.done", Message, s.textOutputIndex, s.fullOutputText),
               Event("content_part.done", Message, s.textOutputIndex, s.fullOutputText)>>)
       \o <<Event("output_item.done", Message, s.textOutputIndex, MessageContent(s))>>

(* Mutant: the message is listed only when it has text. *)
ResponseOutputTextOnly(s) ==
  (IF s.hasStartedReasoning THEN <<<<Reasoning, s.fullThoughtText>>>> ELSE <<>>)
  \o (IF s.fullOutputText # <<>> THEN <<<<Message, MessageContent(s)>>>> ELSE <<>>)
  \o [i \in DOMAIN s.activeFnCalls |-> <<Call(s.activeFnCalls[i]), <<s.activeFnCalls[i]>>>>]

(* buildResponseObject: the items of the final response object. *)
ResponseOutput(s) ==
  (IF s.hasStartedReasoning THEN <<<<Reasoning, s.fullThoughtText>>>> ELSE <<>>)
  \o (IF s.fullOutputText # <<>> \/ s.isRefusal THEN <<<<Message, MessageContent(s)>>>> ELSE <<>>)
  \o [i \in DOMAIN s.activeFnCalls |-> <<Call(s.activeFnCalls[i]), <<s.activeFnCalls[i]>>>>]

TerminalEvent(s) ==
  IF s.lastFinishReason = "MAX_TOKENS" \/ s.blockReason
  THEN "response.incomplete" ELSE "response.completed"

(* mapChatFinishReason, and the override that follows it. *)
ChatFinishReason(reason, calls, blocked) ==
  IF blocked THEN "content_filter"
  ELSE IF calls # <<>> THEN "tool_calls"
  ELSE IF reason = "MAX_TOKENS" THEN "length"
  ELSE IF reason \in Filtered THEN "content_filter"
  ELSE "stop"

(* What the end of the stream sends: the terminal event with the response  *)
(* object; for chat, the finish chunk, the usage chunk and [DONE].         *)
Terminal(s) ==
  IF Responses(s)
  THEN <<Event(TerminalEvent(s), NoItem, NoIndex, ResponseOutput(s))>>
  ELSE <<Event("chat.finish", NoItem, NoIndex,
               <<ChatFinishReason(s.lastFinishReason, s.activeFnCalls, s.blockReason)>>),
         Event("chat.usage", NoItem, NoIndex, <<>>),
         Event("[DONE]", NoItem, NoIndex, <<>>)>>
-----------------------------------------------------------------------------
(* One more part from Gemini. *)
Streaming == status = "running" /\ Len(received) < MaxParts

Part(kind, signed) ==
  received' = Append(received, [kind |-> kind, signed |-> signed])

Thought(signed) ==
  /\ Streaming
  /\ Part("thought", signed)
  /\ HandleThought(Len(received) + 1, IF signed THEN Len(received) + 1 ELSE NoSig)
  /\ UNCHANGED <<stored, saved, status>>

Text(signed) ==
  /\ Streaming
  /\ Part("text", signed)
  /\ HandleText(Len(received) + 1, IF signed THEN Len(received) + 1 ELSE NoSig)
  /\ UNCHANGED <<stored, saved, status>>

FunctionCall(signed) ==
  /\ Streaming
  /\ Part("call", signed)
  /\ HandleCall(Len(received) + 1, IF signed THEN Len(received) + 1 ELSE NoSig)
  /\ UNCHANGED <<saved, status>>

(* A part without text and without a call, signed or not: nothing happens, *)
(* and the signature it may carry is gone.                                 *)
EmptyPart(signed) ==
  /\ Streaming
  /\ Part("empty", signed)
  /\ UNCHANGED <<st, sse, stored, saved, status>>

PromptFeedback ==
  /\ status = "running"
  /\ st' = [st EXCEPT !.blockReason = TRUE]
  /\ UNCHANGED <<sse, received, stored, saved, status>>

FinishReason(reason) ==
  /\ status = "running"
  /\ st' = [st EXCEPT !.lastFinishReason = reason]
  /\ UNCHANGED <<sse, received, stored, saved, status>>

(* Gemini's stream ends: FinishStream, then saveResponseState (for the     *)
(* responses endpoint, when the model said anything) and the last status.  *)
FinishStream ==
  LET r == Refused(st)
      f == Shielded(r)
      e == ReasoningEnded(f)
  IN  /\ status = "running"
      /\ st' = e
      /\ sse' = sse \o RefusalEvents(st, r) \o ShieldEvents(r, f)
                    \o (IF Responses(st) THEN ReasoningDone(f) \o MessageDone(e) ELSE <<>>)
                    \o Terminal(e)
      /\ stored' = IF Responses(st) /\ st.textSig # NoSig
                   THEN stored \cup {<<Message, st.textSig>>} ELSE stored
      /\ saved' = IF Responses(st) THEN st.modelParts ELSE saved
      /\ status' = IF st.lastFinishReason = "" THEN "truncated" ELSE "completed"
      /\ UNCHANGED received

(* Gemini's stream breaks, or never starts: one error event, and that is   *)
(* all; nothing is closed and nothing is saved.                            *)
StreamError ==
  /\ status = "running"
  /\ sse' = Append(sse, Event("error", NoItem, NoIndex, <<>>))
  /\ status' = "error"
  /\ UNCHANGED <<st, received, stored, saved>>

Next ==
  \/ \E signed \in BOOLEAN :
       Thought(signed) \/ Text(signed) \/ FunctionCall(signed) \/ EmptyPart(signed)
  \/ PromptFeedback
  \/ \E reason \in Reasons : FinishReason(reason)
  \/ FinishStream
  \/ StreamError

Spec == Init /\ [][Next]_vars
-----------------------------------------------------------------------------
(* The chat handler for requests with stream:false collects the same parts *)
(* with code of its own and answers with one message.                      *)
PiecesOf(kinds) ==
  FlattenSeq([k \in DOMAIN received |-> IF received[k].kind \in kinds THEN <<k>> ELSE <<>>])

FallbackOfJson ==
  IF PiecesOf({"thought"}) # <<>> THEN <<ThoughtOnly>> ELSE <<NothingOfJson>>

(* Mutant: the shield also covers a blocked answer. *)
JsonMessageShieldingBlocked ==
  LET text == PiecesOf({"text"})
      calls == PiecesOf({"call"})
  IN  [content   |-> IF text = <<>> /\ calls = <<>> THEN FallbackOfJson ELSE text,
       reasoning |-> PiecesOf({"thought"}),
       calls     |-> calls,
       refusal   |-> st.blockReason,
       finish    |-> ChatFinishReason(st.lastFinishReason, calls, st.blockReason)]

(* Unlike the stream's, its refusal does not ask whether anything was said *)
(* before the block.                                                       *)
JsonMessage ==
  LET text == PiecesOf({"text"})
      calls == PiecesOf({"call"})
  IN  [content   |-> IF text = <<>> /\ calls = <<>> /\ ~st.blockReason THEN FallbackOfJson ELSE text,
       reasoning |-> PiecesOf({"thought"}),
       calls     |-> calls,
       refusal   |-> st.blockReason,
       finish    |-> ChatFinishReason(st.lastFinishReason, calls, st.blockReason)]
-----------------------------------------------------------------------------
(* How a client reads events. *)
Of(events, type, item) == {i \in DOMAIN events : events[i].type = type /\ events[i].item = item}

Added(events) == {events[i].item : i \in {j \in DOMAIN events : events[j].type = "output_item.added"}}

Deltas == {"reasoning_text.delta", "output_text.delta", "refusal.delta",
           "function_call_arguments.delta"}

(* The pieces of all events of these types, put together in order. *)
Assembled(events, types, item) ==
  FlattenSeq([i \in DOMAIN events |->
    IF events[i].type \in types /\ events[i].item = item THEN events[i].text ELSE <<>>])

(* The tool calls of a chat stream. *)
ToolCalls(events) == {i \in DOMAIN events : events[i].type = "chat.tool_calls"}

CallsAssembled(events) ==
  FlattenSeq([i \in DOMAIN events |-> IF i \in ToolCalls(events) THEN events[i].text ELSE <<>>])

Finished == status \in {"completed", "truncated"}

TypeOK ==
  /\ st.api \in APIs
  /\ \A i \in DOMAIN sse : sse[i].index \in Nat
  /\ Len(received) <= MaxParts
  /\ stored \subseteq (({Message} \cup {Call(k) : k \in 1..MaxParts}) \X (1..MaxParts))
  /\ \A i \in DOMAIN saved : saved[i].kind \in {"thought", "text", "call"}
  /\ status \in {"running", "completed", "truncated", "error"}

(* Whatever order the parts arrive in, an item is announced at most once,  *)
(* before its first delta and before its done event, and is done at most   *)
(* once: the flags that guard these events agree with what was sent.       *)
ItemsPaired(events) ==
  /\ \A item \in Added(events) :
       /\ \A i, j \in Of(events, "output_item.added", item) : i = j
       /\ \A i, j \in Of(events, "output_item.done", item) : i = j
  /\ \A i \in DOMAIN events :
       events[i].type \in Deltas \cup {"output_item.done"} =>
         \E j \in Of(events, "output_item.added", events[i].item) : j < i

(* A finished response leaves nothing open: the terminal event is the last *)
(* one and the only one, each announced item is done, and the response     *)
(* object lists exactly the announced items, each with everything its      *)
(* deltas carried, the thoughts that came after the reasoning item was     *)
(* closed included.                                                        *)
StreamClosed ==
  Finished /\ st.api = "responses" =>
    LET listed == Last(sse).text
    IN  /\ {i \in DOMAIN sse : sse[i].type \in {"response.completed", "response.incomplete"}} = {Len(sse)}
        /\ \A item \in Added(sse) : Of(sse, "output_item.done", item) # {}
        /\ {listed[i][1] : i \in DOMAIN listed} = Added(sse)
        /\ \A i \in DOMAIN listed : listed[i][2] = Assembled(sse, Deltas, listed[i][1])

(* The done events of the message carry what its deltas carried, so a      *)
(* client may use either (the "crucial fix" in FinishStream).              *)
MessageDoneIsWhole(events) ==
  \A type \in {"output_text.done", "content_part.done", "output_item.done"} :
    \A i \in Of(events, type, Message) : events[i].text = Assembled(events, Deltas, Message)

(* The tool calls of a chat stream have indexes 0, 1, 2, ... in the order  *)
(* they are sent: no two parallel calls share a slot.                      *)
ToolIndexesCount(events) ==
  \A i \in ToolCalls(events) :
    events[i].index = Cardinality({j \in ToolCalls(events) : j < i})

(* The type invariant and what the flags and counters of the translator    *)
(* promise of the single events, for finished and broken streams alike.    *)
WellFormed == TypeOK /\ ItemsPaired(sse) /\ MessageDoneIsWhole(sse) /\ ToolIndexesCount(sse)

(* The empty-answer shield: a finished stream always leaves the client     *)
(* with a text, a refusal or a function call.                              *)
NeverEmpty ==
  Finished => \E i \in DOMAIN sse :
                /\ sse[i].type \in {"output_text.delta", "refusal.delta", "chat.content",
                                    "chat.refusal", "chat.tool_calls", "output_item.done"}
                /\ sse[i].item # Reasoning
                /\ sse[i].text # <<>>

(* The turn that is saved for previous_response_id is the one Gemini sent: *)
(* the same pieces in the same order, pieces of one kind that follow each  *)
(* other in one part, a call always a part of its own, each part with the  *)
(* last signature among its pieces.                                        *)
TurnFaithful ==
  LET pieces == FlattenSeq([i \in DOMAIN st.modelParts |-> st.modelParts[i].text])
  IN  /\ pieces = PiecesOf({"thought", "text", "call"})
      /\ \A i \in DOMAIN st.modelParts :
           LET part == st.modelParts[i]
               signed == {k \in ToSet(part.text) : received[k].signed}
           IN  /\ \A k \in ToSet(part.text) : received[k].kind = part.kind
               /\ part.kind = "call" => Len(part.text) = 1
               /\ part.sig = IF signed = {} THEN NoSig ELSE Max(signed)
      /\ \A i \in 1..(Len(st.modelParts) - 1) :
           st.modelParts[i].kind = "call" \/ st.modelParts[i].kind # st.modelParts[i + 1].kind

(* With stream:false, chat answers with the message a streaming client     *)
(* would have assembled: same thoughts, calls and finish reason, and the   *)
(* same text, except that an answer with neither text nor call nor thought *)
(* gets a notice from both in different words.  The stream refuses when    *)
(* the message does and has nothing else to say; after a text or a call    *)
(* the message still carries a refusal and the stream does not.            *)
JsonAgrees ==
  Finished /\ st.api = "chat" =>
    LET m == JsonMessage
        content == Assembled(sse, {"chat.content"}, Message)
        refused == Of(sse, "chat.refusal", Message) # {}
    IN  /\ \/ m.content = content
           \/ /\ m.content = <<NothingOfJson>> /\ content \in {<<EndedBy>>, <<Nothing>>}
              /\ m.reasoning = <<>> /\ m.calls = <<>>
        /\ m.reasoning = Assembled(sse, {"chat.reasoning_content"}, Reasoning)
        /\ m.calls     = CallsAssembled(sse)
        /\ m.finish    = sse[Len(sse) - 2].text[1]
        /\ refused <=> m.refusal /\ m.content = <<>> /\ m.calls = <<>>
=============================================================================
