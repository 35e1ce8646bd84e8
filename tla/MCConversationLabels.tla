------------------------- MODULE MCConversationLabels -------------------------
(* Three tasks, two conversations, and an LLM that may name two alike: by the *)
(* same topic, or by one that the redaction makes the same.                   *)
EXTENDS ConversationLabels

Shown == <<1>>
WithCredential == <<2>>
TwoTopics == {Shown, WithCredential}

Scrubbed == [title \in Candidates |-> IF Head(title) = 2 THEN Shown \o Tail(title) ELSE title]
===============================================================================
