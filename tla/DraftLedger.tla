------------------------------- MODULE DraftLedger -------------------------------
(***************************************************************************)
(* What a conversation promises about its drafts, whoever writes them: one *)
(* draft is open at a time, versions are only appended, and a draft ends   *)
(* once.  A turn that discards and drafts again replaces the open draft in *)
(* one step.                                                               *)
(***************************************************************************)
EXTENDS Naturals

CONSTANT MaxDrafts

VARIABLES state, length

Ids   == 1..MaxDrafts
Open  == {p \in Ids : state[p] = "active"}
Ends  == {"rejected", "applied"}

LedgerInit ==
    /\ state = [p \in Ids |-> "absent"]
    /\ length = [p \in Ids |-> 0]

Create(p) ==
    /\ Open = {}
    /\ state[p] = "absent"
    /\ state' = [state EXCEPT ![p] = "active"]
    /\ length' = [length EXCEPT ![p] = 1]

Extend(p) ==
    /\ p \in Open
    /\ length' = [length EXCEPT ![p] = @ + 1]
    /\ UNCHANGED state

End(p, s) ==
    /\ p \in Open
    /\ state' = [state EXCEPT ![p] = s]
    /\ UNCHANGED length

Replace(p, k) ==
    /\ p \in Open
    /\ state[k] = "absent"
    /\ state' = [state EXCEPT ![p] = "rejected", ![k] = "active"]
    /\ length' = [length EXCEPT ![k] = 1]

LedgerNext ==
    \/ \E p \in Ids : Create(p) \/ Extend(p)
    \/ \E p \in Ids : \E s \in Ends : End(p, s)
    \/ \E p, k \in Ids : Replace(p, k)

LedgerSpec == LedgerInit /\ [][LedgerNext]_<<state, length>>
=============================================================================
