----------------------------- MODULE RequestApproval -----------------------------
(***************************************************************************)
(* TX1, request_approval.py, from its two callers: POST /approvals (a      *)
(* planner) and the end of an agent turn that suspended on the baseline    *)
(* capability (_finish in conversations.py).                               *)
(*                                                                         *)
(* TX1 reads without locks, inserts the binding, which takes a KEY SHARE   *)
(* lock on the conversation row through its foreign key, and then locks    *)
(* that row FOR UPDATE to append the activity.  Two transactions that have *)
(* both inserted wait for each other, and PostgreSQL aborts one of them.   *)
(***************************************************************************)
EXTENDS ApprovalStore

CONSTANT MaxFaults      \* requests and decisions that may die between two steps
ASSUME FaultsAssumption == MaxFaults \in Nat

VARIABLES
    askPc,      \* where each ask's transaction is
    expects,    \* expected_baseline_schedule_version it carries
    bound,      \* the baseline row it read
    answer,     \* what its caller was answered
    closing,    \* the decision that holds the row lock of a binding
    faults      \* faults so far

askVars == <<askPc, expects, bound, answer, closing, faults>>

Answers == {"none", "created", "replayed", "key_conflict", "candidate_not_promotable",
            "approval_already_pending", "stale_baseline_version", "escaped", "lost"}

AskPlaces == {"new", "read", "checked", "inserted", "refused", "done"}

AskType ==
    /\ askPc \in [Asks -> AskPlaces]
    /\ expects \in [Asks -> Schedule]
    /\ bound \in [Asks -> Pointer]
    /\ answer \in [Asks -> Answers]
    /\ faults \in 0..MaxFaults

AskInit ==
    /\ askPc = [a \in Asks |-> "new"]
    /\ expects = [a \in Asks |-> NoBaseline]
    /\ bound = [a \in Asks |-> NoPointer]
    /\ answer = [a \in Asks |-> "none"]
    /\ closing = [a \in Asks |-> NoOne]
    /\ faults = 0
-----------------------------------------------------------------------------
\* Uncommitted inserts of other asks, which hold the conversation's key share.
Sharing(c, a) == {b \in Asks \ {a} : askPc[b] = "inserted" /\ ConversationOf[b] = c}

AskEnds(a, value) ==
    /\ askPc' = [askPc EXCEPT ![a] = "done"]
    /\ answer' = [answer EXCEPT ![a] = value]

\* ApprovalRequestError: a planner is answered; an agent's run is finalized.
AskRefused(a, value) ==
    /\ askPc' = [askPc EXCEPT ![a] = IF a \in AgentAsks THEN "refused" ELSE "done"]
    /\ answer' = [answer EXCEPT ![a] = value]

AskGoes(a, to) == askPc' = [askPc EXCEPT ![a] = to] /\ UNCHANGED answer

\* The idempotency row of a planner's key (stored in TX1 itself, so there is one
\* exactly when the key has a binding), then the checks of the candidate.  A
\* planner's session needs the membership; a suspended turn has passed that point.
AskRead(a, e) ==
    /\ askPc[a] = "new"
    /\ a \in AgentAsks \/ ~revoked
    /\ expects' = [expects EXCEPT ![a] = e]
    /\ IF a \notin AgentAsks /\ SameEffect(a) # {}
       THEN AskEnds(a, IF \E b \in SameEffect(a) : expects[b] = e
                       THEN "replayed" ELSE "key_conflict")
       ELSE IF CandidateOf[a] \notin completed
       THEN AskRefused(a, "candidate_not_promotable")
       ELSE IF PendingFor(CandidateOf[a]) # {}
       THEN AskRefused(a, "approval_already_pending")
       ELSE AskGoes(a, "read")
    /\ UNCHANGED <<approvalVars, bound, closing, faults>>

\* The baseline the binding will name must be the one the caller expects.
AskBaseline(a) ==
    /\ askPc[a] = "read"
    /\ bound' = [bound EXCEPT ![a] = baseline]
    /\ IF baseline.schedule = expects[a]
       THEN AskGoes(a, "checked")
       ELSE AskRefused(a, "stale_baseline_version")
    /\ UNCHANGED <<approvalVars, expects, closing, faults>>

\* Mutant: no unique index.
CollidesNever(a) == FALSE

\* The unique indexes on pending bindings and on effect keys.
Collides(a) == PendingFor(CandidateOf[a]) \cup SameEffect(a) # {}

\* create_pending.  The index waits for a transaction that is inserting a row
\* with the same key, or closing one.
AskInsert(a) ==
    /\ askPc[a] = "checked"
    /\ \A b \in Asks \ {a} :
           CandidateOf[b] = CandidateOf[a] =>
               askPc[b] # "inserted" /\ closing[b] = NoOne
    /\ ~Collides(a)
    /\ AskGoes(a, "inserted")
    /\ UNCHANGED <<approvalVars, expects, bound, closing, faults>>

\* IntegrityError: the planner's route answers a conflict; the agent's lets it
\* escape, and nothing finalizes the run.
AskCollides(a) ==
    /\ askPc[a] = "checked"
    /\ \A b \in Asks \ {a} :
           CandidateOf[b] = CandidateOf[a] =>
               askPc[b] # "inserted" /\ closing[b] = NoOne
    /\ Collides(a)
    /\ AskEnds(a, IF a \in AgentAsks THEN "escaped" ELSE "approval_already_pending")
    /\ UNCHANGED <<approvalVars, expects, bound, closing, faults>>

\* Audit row, activity, the agent run's pause, and the commit.
AskCommit(a) ==
    /\ askPc[a] = "inserted"
    /\ Sharing(ConversationOf[a], a) = {}
    /\ CreatePending(a, bound[a])
    /\ AppendAudit(a, "pending", bound[a].schedule, NoBaseline)
    /\ AppendActivity(a, "pending")
    /\ SetAgent(a, "approval_required", "none")
    /\ AskEnds(a, "created")
    /\ UNCHANGED <<completed, baseline, overdue, revoked, draft>>
    /\ UNCHANGED <<expects, bound, closing, faults>>

\* The lock upgrade deadlocks with another TX1 of the conversation and this one
\* is the victim; no handler catches the driver's error.
AskDeadlocks(a) ==
    /\ askPc[a] = "inserted"
    /\ Sharing(ConversationOf[a], a) # {}
    /\ AskEnds(a, "escaped")
    /\ UNCHANGED <<approvalVars, expects, bound, closing, faults>>

\* Mutant: the route does not catch ApprovalAlreadyPendingError.
AskCancelledUnlessPending(a) ==
    /\ askPc[a] = "refused" /\ answer[a] # "approval_already_pending"
    /\ Sharing(ConversationOf[a], a) = {}
    /\ SetAgent(a, "agent_cancelled", "none")
    /\ AskGoes(a, "done")
    /\ UNCHANGED <<completed, baseline, binding, overdue, revoked, draft, audit, timeline>>
    /\ UNCHANGED <<expects, bound, closing, faults>>

\* A refused agent request: finalize_agent_run ends the turn as cancelled, with
\* no status_reason because there is no binding.
AskCancelled(a) ==
    /\ askPc[a] = "refused"
    /\ Sharing(ConversationOf[a], a) = {}
    /\ SetAgent(a, "agent_cancelled", "none")
    /\ AskGoes(a, "done")
    /\ UNCHANGED <<completed, baseline, binding, overdue, revoked, draft, audit, timeline>>
    /\ UNCHANGED <<expects, bound, closing, faults>>

\* The process dies: the transaction rolls back, nobody is answered.
AskDies(a) ==
    /\ askPc[a] \in {"read", "checked", "inserted", "refused"}
    /\ faults < MaxFaults
    /\ faults' = faults + 1
    /\ AskEnds(a, "lost")
    /\ UNCHANGED <<approvalVars, expects, bound, closing>>

AskStep(a) ==
    \/ AskBaseline(a)
    \/ AskInsert(a)
    \/ AskCollides(a)
    \/ AskCommit(a)
    \/ AskDeadlocks(a)
    \/ AskCancelled(a)
=============================================================================
