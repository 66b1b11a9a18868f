--------------------------- MODULE ConversationMC ---------------------------
(* Small conversations: a text answer with and without signature, calls    *)
(* in parallel (only the first signed) and after a thought and a text, and *)
(* an answer with nothing in it.                                           *)
EXTENDS Conversation, TLC

Says(kind, signed) == [kind |-> kind, signed |-> signed]

MCAnswers ==
  { <<>>,
    <<Says("thought", FALSE), Says("text", FALSE)>>,
    <<Says("thought", TRUE), Says("text", TRUE), Says("call", TRUE)>>,
    <<Says("call", TRUE), Says("call", FALSE)>> }

Symmetry == Permutations(Ids)
=============================================================================
