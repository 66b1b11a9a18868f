---------------------------- MODULE Conversation ----------------------------
(***************************************************************************)
(* Conversations over /v1/responses: how the gateway turns a request into  *)
(* the turns it sends to Google (ConvertOpenAiRequestToGemini), and how it *)
(* keeps what was asked and answered for a request that names it in        *)
(* previous_response_id (saveResponseState, ResponseStore).                *)
(*                                                                         *)
(* A client goes on from an answer in one of two ways: it replays its own  *)
(* transcript, the items it sent and received, or it names the answer and  *)
(* sends the new items only.  Several requests may be open, go on from the *)
(* same answer, or name one that was deleted, pushed out or lost in a      *)
(* restart.                                                                *)
(*                                                                         *)
(* What is said is abstracted to who says it: <<r, i>> is piece i of the   *)
(* answer to request r (and the output of the tool it calls), <<r, 0>> is  *)
(* the text the client sends with r.  A request is named by the id of the  *)
(* response to it.                                                         *)
(***************************************************************************)
EXTENDS ResponseStore, SequencesExt

CONSTANTS
  Answers,   \* model turns: sequences of Pieces
  None       \* no response id

Pieces == [kind : {"thought", "text", "call"}, signed : BOOLEAN]

ASSUME AnswersAssumption == \A answer \in Answers : answer \in Seq(Pieces)

VARIABLES
  turn,        \* the requests and their answers
  signatures   \* pieces whose signature GlobalThoughtStore holds

vars == <<store, turn, signatures>>

Part(kind, says, signed) == [kind |-> kind, says |-> says, signed |-> signed, named |-> TRUE]
Turn(role, parts) == [role |-> role, parts |-> parts]
Item(type, says, signed) == [type |-> type, says |-> says, signed |-> signed]

Unused == [phase |-> "none"]
Failed == [phase |-> "failed"]

Init == StoreInit /\ turn = [r \in Ids |-> Unused] /\ signatures = {}

(* Answered: the client has the answer, whether or not it is saved yet; a  *)
(* request is done when its save is behind it, was not needed, or is lost. *)
Answered(r) == turn[r].phase \in {"answered", "done"}
Begun(r) == turn[r].phase = "open" \/ Answered(r)
-----------------------------------------------------------------------------
(* What the client receives and what it sends.                             *)

ItemsOf(r, answer, kind, type) ==
  FlattenSeq([i \in DOMAIN answer |->
    IF answer[i].kind = kind THEN <<Item(type, <<r, i>>, answer[i].signed)>> ELSE <<>>])

(* The answer without text or call is shielded: the client gets a message  *)
(* the model never wrote.                                                  *)
Shield(r, answer) ==
  IF \E i \in DOMAIN answer : answer[i].kind # "thought" THEN <<>>
  ELSE <<Item("assistant", <<r, Len(answer) + 1>>, FALSE)>>

(* The output items of a response object. *)
OutputItems(r, answer) ==
  ItemsOf(r, answer, "thought", "reasoning")
    \o ItemsOf(r, answer, "text", "assistant") \o Shield(r, answer)
    \o ItemsOf(r, answer, "call", "function_call")

(* A client answers the calls of the response it goes on from; without     *)
(* calls, it says something or sends no items at all.                      *)
FreshItems(r, p) ==
  LET calls == ItemsOf(p, turn[p].answer, "call", "function_call_output")
  IN IF calls # <<>> THEN {calls} ELSE {<<Item("user", <<r, 0>>, FALSE)>>, <<>>}

(* A conversation begins with what the client says, or with no items; a    *)
(* transcript that begins with the model is a replay of the latter.        *)
FirstItems(r) == {<<Item("user", <<r, 0>>, FALSE)>>, <<>>}
-----------------------------------------------------------------------------
(* ConvertOpenAiRequestToGemini: the turn made of each item, if any.       *)

(* Mutant: an output is a functionResponse whether or not its call is a    *)
(* functionCall.                                                           *)
OutputKindAlwaysResult(says) == "result"

(* The result of a call without signature is sent as text, as the call is. *)
OutputKind(says) == IF says \in signatures THEN "result" ELSE "text"

(* The name of the tool is looked up among the calls in the same request.  *)
OutputPart(sent, says) ==
  [Part(OutputKind(says), says, FALSE)
     EXCEPT !.named = \E i \in DOMAIN sent : sent[i].type = "function_call" /\ sent[i].says = says]

(* Mutant: a reasoning item says nothing to the model. *)
ReasoningDropped(item) == <<>>

(* A thought goes back to the model with its signature, or not at all. *)
ReasoningTurns(item) ==
  IF item.signed THEN <<Turn("model", <<Part("thought", item.says, TRUE)>>)>> ELSE <<>>

TurnsOf(sent, item) ==
  CASE item.type = "user" -> <<Turn("user", <<Part("text", item.says, FALSE)>>)>>
    [] item.type = "reasoning" -> ReasoningTurns(item)
    [] item.type = "assistant" ->
         <<Turn("model", <<Part("text", item.says, item.says \in signatures)>>)>>
    [] item.type = "function_call" ->
         <<Turn("model", <<IF item.says \in signatures THEN Part("call", item.says, TRUE)
                           ELSE Part("text", item.says, FALSE)>>)>>
    [] item.type = "function_call_output" -> <<Turn("user", <<OutputPart(sent, item.says)>>)>>

Converted(sent) == FlattenSeq([i \in DOMAIN sent |-> TurnsOf(sent, sent[i])])

HasKind(t, kind) == \E i \in DOMAIN t.parts : t.parts[i].kind = kind

(* Mutant: a turn with a call is never merged with the next. *)
MergeableUnlessCall(a, b) == a.role = b.role /\ ~HasKind(a, "call")

(* Turns of one role are merged, but never a call with a result. *)
Mergeable(a, b) ==
  /\ a.role = b.role
  /\ ~(HasKind(a, "call") /\ HasKind(b, "result"))
  /\ ~(HasKind(a, "result") /\ HasKind(b, "call"))

Joined(merged, t) ==
  IF merged # <<>> /\ Mergeable(Last(merged), t)
  THEN Append(Front(merged), Turn(t.role, Last(merged).parts \o t.parts))
  ELSE Append(merged, t)

Merged(turns) == FoldLeft(Joined, <<>>, turns)

Hello == Turn("user", <<Part("text", <<None, 1>>, FALSE)>>)
Continue == Turn("user", <<Part("text", <<None, 2>>, FALSE)>>)

(* The fail-safe guards: a request starts and ends with a user turn.       *)
Guarded(turns) ==
  LET opened == IF turns = <<>> \/ Head(turns).role = "model" THEN <<Hello>> \o turns ELSE turns
  IN IF Last(opened).role = "model" THEN Append(opened, Continue) ELSE opened

(* What a replayed transcript is sent as. *)
Replayed(sent) == Guarded(Merged(Converted(sent)))

(* Mutant: the new turns come before the stored ones. *)
ContinuedBackwards(p, fresh) == Guarded(Merged(Converted(fresh) \o Lookup(p)))

(* The stored turns come first, byte for byte, then the new ones. *)
Continued(p, fresh) == Guarded(Merged(Lookup(p) \o Converted(fresh)))
-----------------------------------------------------------------------------
(* Requests.                                                               *)

(* how: whether the request names an answer and whether it was found; sent *)
(* is the client's transcript; whole says that nothing happened on the way *)
(* that only one of the two ways of going on knows of.                     *)
Open(r, p, how, sent, payload, whole) ==
  turn' = [turn EXCEPT ![r] =
             [phase |-> "open", parent |-> p, chained |-> how # "replay", found |-> how = "found",
              sent |-> sent, payload |-> payload, answer |-> <<>>, whole |-> whole]]

(* Plain: thought, text and calls in this order, as the response object    *)
(* lists them, thoughts and calls all signed.                              *)
Rank(kind) == CASE kind = "thought" -> 1 [] kind = "text" -> 2 [] kind = "call" -> 3

Plain(answer) ==
  /\ \A i, j \in DOMAIN answer : i < j => Rank(answer[i].kind) <= Rank(answer[j].kind)
  /\ \A i \in DOMAIN answer : answer[i].kind # "text" => answer[i].signed
  /\ \E i \in DOMAIN answer : answer[i].kind # "thought"

Transcript(p) == turn[p].sent \o OutputItems(p, turn[p].answer)

First(r, fresh) ==
  /\ turn[r] = Unused
  /\ fresh \in FirstItems(r)
  /\ Open(r, None, "replay", fresh, Replayed(fresh), fresh # <<>>)
  /\ UNCHANGED <<store, signatures>>

(* The client sends its whole transcript. *)
Replay(r, p, fresh) ==
  /\ turn[r] = Unused /\ Answered(p) /\ fresh \in FreshItems(r, p)
  /\ LET sent == Transcript(p) \o fresh
     IN Open(r, p, "replay", sent, Replayed(sent),
             turn[p].whole /\ Plain(turn[p].answer) /\ fresh # <<>>)
  /\ UNCHANGED <<store, signatures>>

(* The client names the answer it goes on from.  When the store has no     *)
(* such answer, only the new items are sent.                               *)
Chain(r, p, fresh) ==
  /\ turn[r] = Unused /\ Answered(p) /\ fresh \in FreshItems(r, p)
  /\ LET found == p \in items
     IN /\ IF found THEN Get(p) ELSE GetMissing(p)
        /\ Open(r, p, IF found THEN "found" ELSE "missing", Transcript(p) \o fresh,
                IF found THEN Continued(p, fresh) ELSE Replayed(fresh),
                found /\ turn[p].whole /\ Plain(turn[p].answer) /\ fresh # <<>>)
  /\ UNCHANGED signatures

ModelParts(r, answer) ==
  [i \in DOMAIN answer |-> Part(answer[i].kind, <<r, i>>, answer[i].signed)]

(* The stream ends well: FinishStream puts the signatures of text and      *)
(* calls in the thought store and sends response.completed.                *)
Finish(r, answer) ==
  /\ turn[r].phase = "open"
  /\ turn' = [turn EXCEPT ![r].phase = "answered", ![r].answer = answer]
  /\ signatures' = signatures \cup
       {<<r, i>> : i \in {j \in DOMAIN answer : answer[j].signed /\ answer[j].kind # "thought"}}
  /\ UNCHANGED store

(* Only then the handler saves the turns with the answer in the response   *)
(* store, unless the model said nothing.  Without stream the client gets   *)
(* the answer after the save: it does nothing between the two steps.       *)
SaveResponseState(r) ==
  /\ turn[r].phase = "answered"
  /\ turn' = [turn EXCEPT ![r].phase = "done"]
  /\ IF turn[r].answer = <<>> THEN UNCHANGED store
     ELSE Save(r, Append(turn[r].payload, Turn("model", ModelParts(r, turn[r].answer))))
  /\ UNCHANGED signatures

(* The stream fails: nothing is saved that a client could name later. *)
Fail(r) ==
  /\ turn[r].phase = "open"
  /\ turn' = [turn EXCEPT ![r] = Failed]
  /\ UNCHANGED <<store, signatures>>

(* GET and DELETE of /v1/responses/{id}. *)
Read(r) == Answered(r) /\ (IF r \in items THEN Get(r) ELSE GetMissing(r)) /\ UNCHANGED <<turn, signatures>>
Forget(r) == Delete(r) /\ UNCHANGED <<turn, signatures>>

(* A restart empties the response store, ends what is open, loses the save *)
(* that an answer still waits for, and the signatures that were not written*)
(* to the file yet (see ThoughtStore).                                     *)
Restart ==
  /\ StoreRestart
  /\ turn' = [r \in Ids |->
       IF turn[r].phase = "open" THEN Failed
       ELSE IF turn[r].phase = "answered" THEN [turn[r] EXCEPT !.phase = "done"]
       ELSE turn[r]]
  /\ signatures' \in SUBSET signatures

Next ==
  \/ \E r \in Ids :
       \/ \E fresh \in FirstItems(r) : First(r, fresh)
       \/ \E answer \in Answers : Finish(r, answer)
       \/ SaveResponseState(r) \/ Fail(r) \/ Read(r) \/ Forget(r)
  \/ \E r \in Ids : \E p \in {q \in Ids : Answered(q)} : \E fresh \in FreshItems(r, p) :
       Replay(r, p, fresh) \/ Chain(r, p, fresh)
  \/ Restart

Spec == Init /\ [][Next]_vars
-----------------------------------------------------------------------------
PartsOf(turns) == FlattenSeq([i \in DOMAIN turns |-> turns[i].parts])
Nameless(parts) == [i \in DOMAIN parts |-> [parts[i] EXCEPT !.named = TRUE]]

(* Google refuses a request that does not start and end with a user turn,  *)
(* or with two turns of one role in a row: the guards and the merging of   *)
(* ConvertOpenAiRequestToGemini see to it for every history, replayed,     *)
(* stored or forgotten.                                                    *)
TurnsAlternate ==
  \A r \in Ids : Begun(r) =>
    LET turns == turn[r].payload
    IN /\ Head(turns).role = "user" /\ Last(turns).role = "user"
       /\ \A i \in 1..(Len(turns) - 1) : turns[i].role # turns[i + 1].role

(* The promise of saveResponseState, for Google's prefix cache: the turns  *)
(* sent for a request that names an answer begin with all that was sent    *)
(* for that answer and the answer itself, part for part, whatever was      *)
(* asked, read, deleted or pushed out between the two.                     *)
PrefixKept ==
  \A r \in Ids : Begun(r) /\ turn[r].chained /\ turn[r].found =>
    LET p == turn[r].parent
    IN IsPrefix(PartsOf(turn[p].payload) \o ModelParts(p, turn[p].answer), PartsOf(turn[r].payload))

(* Naming the answer and replaying the transcript are the same request:    *)
(* as long as the answers on the way were plain and no guard had to add a  *)
(* turn, Google is sent the same parts, but for the names of the tools.    *)
(* It relates the two ways a thought, a text signature, a call and its     *)
(* result travel: through the response store, or through the client and    *)
(* the thought store.                                                      *)
ReplayAgrees ==
  \A r \in Ids : Begun(r) /\ turn[r].phase = "open" /\ turn[r].chained /\ turn[r].whole =>
    Nameless(PartsOf(turn[r].payload)) = Nameless(PartsOf(Replayed(turn[r].sent)))

(* In a replayed transcript a call is sent as functionCall exactly when    *)
(* its output is sent as functionResponse, whichever signatures a restart  *)
(* lost: never a result of a call that was turned into text.               *)
ResultsMatchCalls ==
  \A r \in Ids : Begun(r) /\ ~turn[r].chained =>
    LET parts == PartsOf(turn[r].payload)
        Sent(kind) == {parts[i].says : i \in {j \in DOMAIN parts : parts[j].kind = kind}}
        Outputs == {turn[r].sent[i].says :
                     i \in {j \in DOMAIN turn[r].sent : turn[r].sent[j].type = "function_call_output"}}
    IN Sent("result") = Sent("call") \cap Outputs

(* The comment on ResponseState: a request that names an answer reuses its *)
(* Contents; chains are lost to the limit of the store and to a restart,   *)
(* and the log of the conversion adds DELETE.  So an answer that is not    *)
(* found was never worth saving, as it has no parts, or its save is over   *)
(* (or was lost with the process), and it went one of these ways.          *)
NotFoundMeansGone ==
  [][\A r \in Ids :
       turn[r] = Unused /\ turn'[r].phase = "open" /\ turn'[r].chained /\ ~turn'[r].found
         => LET p == turn'[r].parent IN turn[p].answer = <<>> \/ turn[p].phase = "done"]_vars
=============================================================================
