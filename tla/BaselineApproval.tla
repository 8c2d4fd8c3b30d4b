----------------------------- MODULE BaselineApproval -----------------------------
(***************************************************************************)
(* Approval requests and decisions of one site over one store, with the    *)
(* runs, clocks, memberships and drafts that change around them.           *)
(***************************************************************************)
EXTENDS DecideApproval

vars == <<approvalVars, askVars, decisionVars>>

Init == StoreInit /\ AskInit /\ DecisionInit

Next ==
    \/ Around /\ UNCHANGED <<askVars, decisionVars>>
    \/ \E a \in Asks :
          /\ \/ \E e \in Schedule : AskRead(a, e)
             \/ AskStep(a)
             \/ AskDies(a)
          /\ UNCHANGED decisionVars
    \/ \E d \in Decisions :
          \/ \E v \in Versions : DecideRead(d, v)
          \/ DecisionStep(d)
          \/ ResumedTurnLost(d)
          \/ DecisionDies(d)

Spec == Init /\ [][Next]_vars

\* A transaction that can go on does; new requests and the world owe nothing.
Fairness ==
    /\ \A a \in Asks : WF_vars(AskStep(a) /\ UNCHANGED decisionVars)
    /\ \A d \in Decisions : WF_vars(DecisionStep(d))

FairSpec == Spec /\ Fairness
Refusals == {"candidate_not_promotable", "approval_already_pending",
             "stale_baseline_version"}
-----------------------------------------------------------------------------
(* Properties.                                                               *)

\* Type invariant.
TypeOK == StoreType /\ AskType /\ DecisionType

Promotions == {i \in 1..Len(audit) : audit[i].outcome = "consumed"}

\* The audit log explains the baseline: each promotion it records replaced the
\* result of the promotion before it, the last one is the current baseline, and
\* there are as many as the resource version says, whatever decisions raced,
\* lost or died (consume, promote and the audit row commit together).
BaselineExplained ==
    /\ baseline.version = Cardinality(Promotions)
    /\ Promotions = {} => baseline.schedule = NoBaseline
    /\ \A j \in Promotions :
           LET earlier == {i \in Promotions : i < j} IN
           /\ audit[j].after = CandidateOf[audit[j].ask]
           /\ earlier = {} => audit[j].before = NoBaseline
           /\ \A i \in earlier : (\A k \in earlier : k <= i) =>
                  audit[j].before = audit[i].after
           /\ (\A k \in Promotions : k <= j) => audit[j].after = baseline.schedule

\* A log's rows about one binding, by position, tell its state: first that it was
\* asked, then what was decided, each once.
Tells(rows, state) ==
    /\ {rows[i] : i \in DOMAIN rows} = IF state = "none" THEN {} ELSE {"pending", state}
    /\ \A i, j \in DOMAIN rows : i < j => rows[i] = "pending" /\ rows[j] # "pending"

AuditOf(a) ==
    [i \in {i \in 1..Len(audit) : audit[i].ask = a /\ audit[i].outcome # "denied"}
        |-> audit[i].outcome]
ShownOf(a) ==
    LET shown == timeline[ConversationOf[a]] IN
    [i \in {i \in 1..Len(shown) : shown[i].ask = a} |-> shown[i].state]

\* The successful audit rows of an ask and its activities on the timeline tell
\* the same story as its row: asked once, decided at most once, and as the row
\* says (uq_audit_event_success_effect is never violated).
RecordsAgree ==
    \A a \in Asks :
        Tells(AuditOf(a), binding[a].state) /\ Tells(ShownOf(a), binding[a].state)

\* At most one decision is pending for a candidate and at most one binding was
\* ever made for an effect key, although both are checked by unlocked reads.
OneBinding ==
    \A a, b \in Asks :
        /\ binding[a].state = "pending" /\ binding[b].state = "pending"
             /\ CandidateOf[a] = CandidateOf[b] => a = b
        /\ binding[a].state # "none" /\ binding[b].state # "none"
             /\ EffectOf[a] = EffectOf[b] => a = b

\* An agent run waits exactly while its binding is pending, and is cancelled for
\* the reason its binding ended: the compare-and-set failures of pause, resume
\* and cancel (agent_run_not_cancellable) cannot happen.
AgentFollowsBinding ==
    \A a \in AgentAsks :
        /\ agent[a].status = "approval_required" <=> binding[a].state = "pending"
        /\ binding[a].state \in {"rejected", "expired", "stale"} =>
               agent[a] = [status |-> "agent_cancelled", reason |-> binding[a].state]
        /\ agent[a].reason # "none" => agent[a].reason = binding[a].state
        /\ answer[a] \in Refusals /\ askPc[a] = "done" =>
               agent[a].status = "agent_cancelled"

\* A decider is told what happened: an outcome that is the binding's own, or that
\* somebody else decided it; a lost baseline race leaves the binding undecided
\* by that decision.
RepliesTrue ==
    \A d \in Decisions :
        LET state == binding[AskOf[d]].state IN
        /\ reply[d] \in Decided => reply[d] = state
        /\ reply[d] = "approval_not_pending" => state \in Decided
        /\ idem[Slot(d)].outcome # "none" => idem[Slot(d)].outcome = state

\* Promotion and draft end together: a promoted candidate's draft is not left
\* active, and a draft is applied only by a promotion of one of its candidates.
DraftFollowsPromotion ==
    \A p \in Drafts :
        LET promoted == {a \in Asks : DraftOf[CandidateOf[a]] = p
                                      /\ binding[a].state = "consumed"}
        IN  /\ promoted # {} => draft[p] # "active"
            /\ draft[p] = "applied" => promoted # {}

\* Every request is answered, a finite number of them being sent: there is always
\* again a moment when nobody waits, so no order of row locks leaves asks and
\* decisions waiting for each other for ever.
EveryoneAnswered ==
    []<>(/\ \A a \in Asks : askPc[a] \in {"new", "done"}
         /\ \A d \in Decisions : decPc[d] \in {"new", "done"})

Ledger == INSTANCE BaselineLedger WITH
    current <- baseline.schedule,
    version <- baseline.version,
    verdict <- [a \in Asks |-> binding[a].state],
    against <- [a \in Asks |-> binding[a].base.version]

\* The system implements the baseline ledger: no interleaving of requests,
\* decisions, retries and deaths promotes a candidate over a baseline its
\* approval was not asked against, or decides an approval twice.
ImplementsLedger == Ledger!LedgerSpec

-----------------------------------------------------------------------------
(* The inductive invariant behind the safety properties.                     *)

\* What an ask's position says: it has no binding before its commit, it read no
\* baseline newer than the current one, and one that has inserted is alone.
AskControl ==
    \A a \in Asks :
        /\ bound[a].version <= baseline.version
        /\ binding[a].state = "none" => binding[a].base = NoPointer
        /\ binding[a].state # "none" => askPc[a] = "done" /\ answer[a] = "created"
        /\ askPc[a] \in {"new", "read", "checked", "inserted"} => answer[a] = "none"
        /\ askPc[a] = "refused" => a \in AgentAsks /\ answer[a] \in Refusals
        /\ askPc[a] = "inserted" =>
               /\ ~Collides(a)
               /\ \A b \in Asks : askPc[b] = "inserted"
                                  /\ CandidateOf[b] = CandidateOf[a] => b = a
        /\ a \in AgentAsks /\ askPc[a] # "done" =>
               agent[a] = [status |-> "agent_running", reason |-> "none"]

\* What a decision's position says of its binding and of the row locks.
DecisionControl ==
    \A d \in Decisions :
        LET a == AskOf[d] IN
        /\ decPc[d] # "new" => binding[a].state # "none"
        /\ decPc[d] \in {"new", "read", "admitted", "validated", "consumed", "promoted"} =>
               reply[d] = "none"
        /\ decPc[d] = "validated" => outcome[d] \in Decided
        /\ decPc[d] \in {"consumed", "promoted"} =>
               closing[a] = d /\ binding[a].state = "pending"
        /\ decPc[d] = "promoted" => moving = d /\ PointerMatches(a)
        /\ decPc[d] = "resuming" => a \in AgentAsks /\ binding[a].state = "consumed"
        /\ idem[Slot(d)] # NoRow => binding[a].state \in Decided
                                    /\ idem[Slot(d)].outcome = binding[a].state

\* The inductive invariant: each safety property proved is one of its conjuncts.
GovernanceInvariant ==
    /\ TypeOK
    /\ AskControl
    /\ DecisionControl
    /\ OneBinding
    /\ AgentFollowsBinding
    /\ RepliesTrue
    /\ DraftFollowsPromotion

\* The comment in _finish: without the handler a refused request "left the run
\* stuck at agent_running -- which claim_queued_run can never reclaim"; with it
\* "the turn lands on AD-7's own edge (terminal and truthful)".
RefusedTurnEnds ==
    \A a \in AgentAsks :
        askPc[a] = "done" /\ answer[a] # "lost" /\ binding[a].state = "none" =>
            agent[a].status = "agent_cancelled"
=============================================================================
