------------------------- MODULE MCConversationHistory -------------------------
(* Three turns, two of them at a time, so that a tail can outgrow what is     *)
(* fetched; the items a prompt comes with have ties and differ in size.       *)
EXTENDS ConversationHistory

MCItem(score, tokens) == [score |-> score, tokens |-> tokens]
MCContexts == {<<>>, <<MCItem(2, 1), MCItem(1, 2)>>, <<MCItem(1, 2), MCItem(1, 1), MCItem(2, 1)>>}
================================================================================
