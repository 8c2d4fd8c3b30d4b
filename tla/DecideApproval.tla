------------------------------ MODULE DecideApproval ------------------------------
(***************************************************************************)
(* POST /approvals/{id}/decision: decide_approval.py, promote_baseline.py  *)
(* and the route that renders them.                                        *)
(*                                                                         *)
(* A decision reads the binding and revalidates it without locks, and then *)
(* either promotes (TX2: consume the binding, move the baseline, audit,    *)
(* resume the agent run, end the draft) or terminalizes (TX3).  Refusals   *)
(* that wrote nothing are audited and COMMIT; the ones met after a write   *)
(* escape the endpoint, and the request's transaction rolls back.          *)
(***************************************************************************)
EXTENDS RequestApproval

CONSTANTS
    Decisions,  \* decision requests
    AskOf,      \* the binding each one names
    Verdict,    \* "approve" or "reject"
    KeyOf,      \* its Idempotency-Key
    Versions    \* the resource versions a decider may present

ASSUME DecisionAssumption ==
    /\ AskOf \in [Decisions -> Asks]
    /\ Verdict \in [Decisions -> {"approve", "reject"}]
    /\ KeyOf \in [Decisions -> STRING]
    /\ Versions \subseteq Nat
    /\ NoOne \notin Decisions

VARIABLES
    decPc,      \* where each decision is
    presents,   \* expected_resource_version it carries
    late,       \* the binding had expired when the request arrived (its clock)
    outcome,    \* what revalidation and the verdict call for
    reply,      \* what the decider was answered
    idem,       \* command_idempotency rows of the decide operation
    moving      \* the decision that holds the site_baseline row lock

decisionVars == <<decPc, presents, late, outcome, reply, idem, moving>>

Slot(d) == <<AskOf[d], KeyOf[d]>>
Slots   == {Slot(d) : d \in Decisions}
\* The body hash covers the verdict and the presented version.
Body(d, v) == <<Verdict[d], v>>
NoRow   == [body |-> <<"none", 0>>, outcome |-> "none"]
Replies == {"none", "key_conflict", "approval_not_pending", "stale_resource_version",
            "stale_baseline_version", "lost"} \cup Decided

DecisionPlaces == {"new", "read", "admitted", "validated", "consumed", "promoted",
                   "resuming", "done"}
Row == [body: {"none", "approve", "reject"} \X Nat, outcome: {"none"} \cup Decided]

DecisionType ==
    /\ decPc \in [Decisions -> DecisionPlaces]
    /\ presents \in [Decisions -> Nat]
    /\ late \in [Decisions -> BOOLEAN]
    /\ outcome \in [Decisions -> {"none"} \cup Decided]
    /\ reply \in [Decisions -> Replies]
    /\ idem \in [Slots -> Row]
    /\ moving \in Decisions \cup {NoOne}
    /\ closing \in [Asks -> Decisions \cup {NoOne}]

DecisionInit ==
    /\ decPc = [d \in Decisions |-> "new"]
    /\ presents = [d \in Decisions |-> 0]
    /\ late = [d \in Decisions |-> FALSE]
    /\ outcome = [d \in Decisions |-> "none"]
    /\ reply = [d \in Decisions |-> "none"]
    /\ idem = [s \in Slots |-> NoRow]
    /\ moving = NoOne
-----------------------------------------------------------------------------
Goes(d, to) == decPc' = [decPc EXCEPT ![d] = to] /\ UNCHANGED reply

Replied(d, value, to) ==
    /\ decPc' = [decPc EXCEPT ![d] = to]
    /\ reply' = [reply EXCEPT ![d] = value]

\* A refusal that wrote nothing: the denial is audited and commits.
Deny(d, code) ==
    /\ AppendAudit(AskOf[d], "denied", binding[AskOf[d]].base.schedule, NoBaseline)
    /\ Replied(d, code, "done")
    /\ UNCHANGED <<completed, baseline, binding, overdue, revoked, agent, draft, timeline>>

\* _store_idempotent_result, ON CONFLICT DO NOTHING.
StoreOutcome(d, value) ==
    idem' = [idem EXCEPT ![Slot(d)] =
                IF @ = NoRow THEN [body |-> Body(d, presents[d]), outcome |-> value]
                ELSE @]

\* The answer of a stored row: its problem, else the binding as it stands now.
Replayed(d) ==
    LET stored == idem[Slot(d)].outcome IN
    IF stored \in {"expired", "stale"} THEN stored ELSE binding[AskOf[d]].state

\* The clock is read as the request arrives; a stored row answers a repeated body.
DecideRead(d, v) ==
    /\ decPc[d] = "new"
    /\ binding[AskOf[d]].state # "none"
    /\ presents' = [presents EXCEPT ![d] = v]
    /\ late' = [late EXCEPT ![d] = AskOf[d] \in overdue]
    /\ IF idem[Slot(d)] = NoRow THEN Goes(d, "read")
       ELSE IF idem[Slot(d)].body = Body(d, v)
       THEN Replied(d, Replayed(d), "done")
       ELSE Replied(d, "key_conflict", "done")
    /\ UNCHANGED <<approvalVars, askVars, outcome, idem, moving>>

\* The admission check.  A pending binding is at version 1.
Admit(d) ==
    /\ decPc[d] = "read"
    /\ IF binding[AskOf[d]].state # "pending" THEN Deny(d, "approval_not_pending")
       ELSE IF presents[d] # 1 THEN Deny(d, "stale_resource_version")
       ELSE Goes(d, "admitted") /\ UNCHANGED approvalVars
    /\ UNCHANGED <<askVars, presents, late, outcome, idem, moving>>

\* The business half of revalidate_binding.
Current(a) == ~revoked /\ baseline = binding[a].base

\* revalidate_binding: expiry first, then one stale arm, then the verdict.
Revalidate(d) ==
    /\ decPc[d] = "admitted"
    /\ outcome' = [outcome EXCEPT ![d] =
           IF late[d] THEN "expired"
           ELSE IF ~Current(AskOf[d]) THEN "stale"
           ELSE IF Verdict[d] = "approve" THEN "consumed" ELSE "rejected"]
    /\ Goes(d, "validated")
    /\ UNCHANGED <<approvalVars, askVars, presents, late, idem, moving>>

\* TX2, first write: the binding's row lock, then the compare-and-set.
Consume(d) ==
    LET a == AskOf[d] IN
    /\ decPc[d] = "validated"
    /\ outcome[d] = "consumed"
    /\ closing[a] = NoOne
    /\ IF binding[a].state = "pending"
       THEN Goes(d, "consumed") /\ closing' = [closing EXCEPT ![a] = d]
       ELSE Replied(d, "approval_not_pending", "done") /\ UNCHANGED closing
    /\ UNCHANGED <<approvalVars, askPc, expects, bound, answer, faults>>
    /\ UNCHANGED <<presents, late, outcome, idem, moving>>

\* Mutant: the pointer moves whatever version it has.
PointerMatchesAny(a) == TRUE

\* The compare-and-set of the site's baseline row.
PointerMatches(a) == baseline.version = binding[a].base.version

\* Mutant: the route catches the lost race and returns, so the consumption commits.
PromoteLostCommits(d) ==
    LET a == AskOf[d] IN
    /\ decPc[d] = "consumed"
    /\ moving = NoOne
    /\ IF PointerMatches(a)
       THEN /\ Goes(d, "promoted") /\ moving' = d
            /\ UNCHANGED <<closing, binding>>
       ELSE /\ Replied(d, "stale_baseline_version", "done")
            /\ closing' = [closing EXCEPT ![a] = NoOne]
            /\ CloseBinding(a, "consumed")
            /\ UNCHANGED moving
    /\ UNCHANGED <<completed, baseline, overdue, revoked, agent, draft, audit, timeline>>
    /\ UNCHANGED <<askPc, expects, bound, answer, faults, presents, late, outcome, idem>>

\* TX2, second write: the baseline row's lock, then its compare-and-set; losing
\* it rolls the consumption back.
Promote(d) ==
    LET a == AskOf[d] IN
    /\ decPc[d] = "consumed"
    /\ moving = NoOne
    /\ IF PointerMatches(a)
       THEN Goes(d, "promoted") /\ moving' = d /\ UNCHANGED closing
       ELSE /\ Replied(d, "stale_baseline_version", "done")
            /\ closing' = [closing EXCEPT ![a] = NoOne]
            /\ UNCHANGED moving
    /\ UNCHANGED <<approvalVars, askPc, expects, bound, answer, faults>>
    /\ UNCHANGED <<presents, late, outcome, idem>>

\* TX2, the rest and the commit.  The agent run is awaiting the approval
\* (AgentFollowsBinding), so resume_agent_run_for_approval does not refuse.
CommitPromotion(d) ==
    LET a == AskOf[d] IN
    /\ decPc[d] = "promoted"
    /\ Sharing(ConversationOf[a], a) = {}
    /\ CloseBinding(a, "consumed")
    /\ MoveBaseline(CandidateOf[a])
    /\ AppendAudit(a, "consumed", binding[a].base.schedule, CandidateOf[a])
    /\ SetAgent(a, "agent_running", "none")
    /\ AppendActivity(a, "consumed")
    /\ MarkApplied(CandidateOf[a])
    /\ StoreOutcome(d, "consumed")
    /\ Replied(d, "consumed", IF a \in AgentAsks THEN "resuming" ELSE "done")
    /\ closing' = [closing EXCEPT ![a] = NoOne]
    /\ moving' = NoOne
    /\ UNCHANGED <<completed, overdue, revoked>>
    /\ UNCHANGED <<askPc, expects, bound, answer, faults, presents, late, outcome>>

\* The compare-and-set of terminalize.
TerminalizeMatches(a) == binding[a].state = "pending"

\* TX3: terminalize, cancel the agent run, audit, activity.
Terminalize(d) ==
    LET a == AskOf[d] IN
    /\ decPc[d] = "validated"
    /\ outcome[d] # "consumed"
    /\ closing[a] = NoOne
    /\ Sharing(ConversationOf[a], a) = {}
    /\ TerminalizeMatches(a)
    /\ CloseBinding(a, outcome[d])
    /\ SetAgent(a, "agent_cancelled", outcome[d])
    /\ AppendAudit(a, outcome[d], binding[a].base.schedule, NoBaseline)
    /\ AppendActivity(a, outcome[d])
    /\ StoreOutcome(d, outcome[d])
    /\ Replied(d, outcome[d], "done")
    /\ UNCHANGED <<completed, baseline, overdue, revoked, draft, askVars>>
    /\ UNCHANGED <<presents, late, outcome, moving>>

\* TX3 lost its compare-and-set: nothing was written, the denial is audited.
TerminalizeLost(d) ==
    /\ decPc[d] = "validated"
    /\ outcome[d] # "consumed"
    /\ closing[AskOf[d]] = NoOne
    /\ ~TerminalizeMatches(AskOf[d])
    /\ Deny(d, "approval_not_pending")
    /\ UNCHANGED <<askVars, presents, late, outcome, idem, moving>>

\* _drive_resumed_turn, after the commit: the turn is finalized.
ResumedTurnEnds(d) ==
    /\ decPc[d] = "resuming"
    /\ ~revoked
    /\ Sharing(ConversationOf[AskOf[d]], AskOf[d]) = {}
    /\ \E status \in {"agent_completed", "agent_failed", "agent_timed_out"} :
           SetAgent(AskOf[d], status, "none")
    /\ Goes(d, "done")
    /\ UNCHANGED <<completed, baseline, binding, overdue, revoked, draft, audit, timeline>>
    /\ UNCHANGED <<askVars, presents, late, outcome, idem, moving>>

\* The initiator was revoked after the commit, or the process dies: the run stays
\* agent_running.
ResumedTurnLost(d) ==
    /\ decPc[d] = "resuming"
    /\ \/ revoked /\ UNCHANGED faults
       \/ faults < MaxFaults /\ faults' = faults + 1
    /\ Goes(d, "done")
    /\ UNCHANGED <<approvalVars, askPc, expects, bound, answer, closing>>
    /\ UNCHANGED <<presents, late, outcome, idem, moving>>

\* The process dies: the transaction rolls back and its locks go.
DecisionDies(d) ==
    /\ decPc[d] \in {"read", "admitted", "validated", "consumed", "promoted"}
    /\ faults < MaxFaults
    /\ faults' = faults + 1
    /\ closing' = [a \in Asks |-> IF closing[a] = d THEN NoOne ELSE closing[a]]
    /\ moving' = IF moving = d THEN NoOne ELSE moving
    /\ Replied(d, "lost", "done")
    /\ UNCHANGED <<approvalVars, askPc, expects, bound, answer, presents, late, outcome, idem>>

DecisionStep(d) ==
    \/ Admit(d)
    \/ Revalidate(d)
    \/ Consume(d)
    \/ Promote(d)
    \/ CommitPromotion(d)
    \/ Terminalize(d)
    \/ TerminalizeLost(d)
    \/ ResumedTurnEnds(d)
    \/ revoked /\ ResumedTurnLost(d)
=============================================================================
