------------------------------ MODULE BaselineLedger ------------------------------
(***************************************************************************)
(* What baseline governance promises: the site's baseline moves only by    *)
(* consuming a pending approval, and only one that was asked for against   *)
(* the very baseline it replaces; an approval is decided once.             *)
(***************************************************************************)
EXTENDS Naturals

CONSTANTS Asks, CandidateOf, NoBaseline

VARIABLES
    current,    \* the promoted schedule version
    version,    \* how many promotions there have been
    verdict,    \* the state of each approval
    against     \* the version each approval was asked against

Init ==
    /\ current = NoBaseline
    /\ version = 0
    /\ verdict = [a \in Asks |-> "none"]
    /\ against = [a \in Asks |-> 0]

Ask(a) ==
    /\ verdict[a] = "none"
    /\ verdict' = [verdict EXCEPT ![a] = "pending"]
    /\ \E n \in 0..version : against' = [against EXCEPT ![a] = n]
    /\ UNCHANGED <<current, version>>

Promote(a) ==
    /\ verdict[a] = "pending"
    /\ against[a] = version
    /\ verdict' = [verdict EXCEPT ![a] = "consumed"]
    /\ current' = CandidateOf[a]
    /\ version' = version + 1
    /\ UNCHANGED against

Close(a) ==
    /\ verdict[a] = "pending"
    /\ \E end \in {"rejected", "expired", "stale"} :
           verdict' = [verdict EXCEPT ![a] = end]
    /\ UNCHANGED <<current, version, against>>

Next == \E a \in Asks : Ask(a) \/ Promote(a) \/ Close(a)

LedgerSpec == Init /\ [][Next]_<<current, version, verdict, against>>
=============================================================================
