----------------------------- MODULE Questions -----------------------------
(***************************************************************************)
(* A pure algorithm under test: a behaviour begins with one question of a  *)
(* bounded set, and its only step is the algorithm's answer.               *)
(***************************************************************************)
CONSTANT Missing      \* an absent value

VARIABLES asked, answer, answered

questionVars == <<asked, answer, answered>>

Unanswered == answer = [kind |-> "none"] /\ answered = FALSE

\* The answer to a question of one kind.
Answers(kind, value) ==
    /\ ~answered /\ asked.kind = kind
    /\ answer' = value /\ answered' = TRUE
    /\ UNCHANGED asked

Answered(kind) == answered /\ asked.kind = kind
=============================================================================
