---------------------------- MODULE MCBaselineApproval ----------------------------
(* Small instances of BaselineApproval for TLC. *)
EXTENDS BaselineApproval

CONSTANTS c1, c2, a1, a2, a3, d1, d2, d3

\* Two candidates of one draft in one conversation.
TwoCandidates   == [a \in Asks |-> IF a = a2 THEN c2 ELSE c1]
OneCandidate    == [a \in Asks |-> c1]
CandidateDraft  == [c \in Candidates |-> "p"]
AskConversation == [a \in Asks |-> "conv"]
OwnEffect       == [a \in Asks |-> a]
\* a3 is a1 sent again under the same key.
RetryEffect     == [a \in Asks |-> IF a = a3 THEN a1 ELSE a]

\* d1 and d3 are about a1, d2 about a2.
DecisionAsk  == [d \in Decisions |-> IF d = d2 THEN a2 ELSE a1]
AllApprove   == [d \in Decisions |-> "approve"]
OneRejects   == [d \in Decisions |-> IF d = d1 THEN "reject" ELSE "approve"]
SameKey      == [d \in Decisions |-> "k"]
Version1     == {1}
Version12    == {1, 2}
=============================================================================
