--------------------------- MODULE MCDraftConversation ---------------------------
EXTENDS DraftConversation, TLC
\* A revision and a rejection.
KindRR == [q \in Edits |-> IF q = "e2" THEN "rejection" ELSE "revision"]
OneKey == [q \in Edits |-> "k"]
=============================================================================
