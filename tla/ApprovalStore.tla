------------------------------ MODULE ApprovalStore ------------------------------
(***************************************************************************)
(* The tables behind baseline approval: approval_request, site_baseline,   *)
(* audit_event, the conversation timeline, agent_run and proposal, as far  *)
(* as the approval commands touch them (adapters/postgres/approval.py,     *)
(* site_baseline.py, audit.py, conversation.py, proposal.py).              *)
(*                                                                         *)
(* The variables hold COMMITTED rows.  A row lock held between two steps   *)
(* of a transaction is a variable of its own; a transaction's writes take  *)
(* effect together, in the step that commits them.                         *)
(***************************************************************************)
EXTENDS Naturals, Sequences, FiniteSets

CONSTANTS
    Candidates,     \* schedule versions, one per completed run
    Drafts,         \* the proposals the runs were computed from
    Conversations,
    Asks,           \* approval requests; an ask names the binding it creates
    AgentAsks,      \* those raised by an agent turn: one agent run for each
    CandidateOf,    \* the candidate an ask wants promoted
    DraftOf,        \* the draft a candidate was computed from
    ConversationOf, \* the conversation an ask belongs to
    EffectOf,       \* request_effect_key: a planner's retry repeats it
    NoOne,          \* no transaction
    NoBaseline      \* the site has no baseline yet

ASSUME ApprovalAssumption ==
    /\ AgentAsks \subseteq Asks
    /\ CandidateOf \in [Asks -> Candidates]
    /\ DraftOf \in [Candidates -> Drafts]
    /\ ConversationOf \in [Asks -> Conversations]
    /\ \A a, b \in Asks : EffectOf[a] = EffectOf[b] =>
           CandidateOf[a] = CandidateOf[b] /\ (a \in AgentAsks => a = b)
    /\ NoBaseline \notin Candidates

VARIABLES
    completed,      \* candidates whose run has completed
    baseline,       \* site_baseline: the schedule version and its resource version
    binding,        \* approval_request rows
    overdue,        \* bindings whose expires_at has passed
    revoked,        \* the initiator's membership has been revoked
    agent,          \* agent_run of each agent ask: status and status_reason
    draft,          \* proposal.state
    audit,          \* audit_event rows, in commit order
    timeline        \* approval activities of each conversation, by sequence

approvalVars == <<completed, baseline, binding, overdue, revoked, agent, draft,
                  audit, timeline>>

Decided   == {"consumed", "rejected", "expired", "stale"}
State     == {"none", "pending"} \cup Decided
Schedule  == Candidates \cup {NoBaseline}
Pointer   == [schedule: Schedule, version: Nat]
\* resource_version is 1 while pending and 2 after, so it is not kept apart.
Binding   == [state: State, base: Pointer]
NoPointer == [schedule |-> NoBaseline, version |-> 0]
NoBinding == [state |-> "none", base |-> NoPointer]
AgentRun  == [status: {"agent_running", "approval_required", "agent_cancelled",
                       "agent_completed", "agent_failed", "agent_timed_out"},
              reason: {"none"} \cup Decided]
Record    == [ask: Asks, outcome: State \cup {"denied"},
              before: Schedule, after: Schedule]
Activity  == [ask: Asks, state: State]

StoreType ==
    /\ completed \subseteq Candidates
    /\ baseline \in Pointer
    /\ binding \in [Asks -> Binding]
    /\ overdue \subseteq Asks
    /\ revoked \in BOOLEAN
    /\ agent \in [AgentAsks -> AgentRun]
    /\ draft \in [Drafts -> {"active", "applied", "rejected"}]
    /\ audit \in Seq(Record)
    /\ timeline \in [Conversations -> Seq(Activity)]

StoreInit ==
    /\ completed = {}
    /\ baseline = NoPointer
    /\ binding = [a \in Asks |-> NoBinding]
    /\ overdue = {}
    /\ revoked = FALSE
    /\ agent = [a \in AgentAsks |-> [status |-> "agent_running", reason |-> "none"]]
    /\ draft = [p \in Drafts |-> "active"]
    /\ audit = <<>>
    /\ timeline = [c \in Conversations |-> <<>>]
-----------------------------------------------------------------------------
\* list_for_schedule_run, and the partial unique index on pending bindings.
PendingFor(c) == {a \in Asks : CandidateOf[a] = c /\ binding[a].state = "pending"}

\* Bindings that carry an ask's effect key (uq_approval_request_effect).
SameEffect(a) == {b \in Asks : EffectOf[b] = EffectOf[a] /\ binding[b].state # "none"}

\* _append_approval_activity: the next sequence number, under the conversation's lock.
AppendActivity(a, state) ==
    timeline' = [timeline EXCEPT ![ConversationOf[a]] =
                    Append(@, [ask |-> a, state |-> state])]

\* PostgresAuditWriter.append.
AppendAudit(a, outcome, before, after) ==
    audit' = Append(audit, [ask |-> a, outcome |-> outcome,
                            before |-> before, after |-> after])

\* Mutant: the reason of a cancellation is not written.
SetAgentNoReason(a, status, reason) ==
    agent' = [x \in AgentAsks |->
                 IF x = a THEN [status |-> status, reason |-> "none"] ELSE agent[x]]

\* pause_, resume_ and cancel_agent_run_for_approval; a planner's ask has no run.
SetAgent(a, status, reason) ==
    agent' = [x \in AgentAsks |->
                 IF x = a THEN [status |-> status, reason |-> reason] ELSE agent[x]]

\* create_pending.
CreatePending(a, base) ==
    binding' = [binding EXCEPT ![a] = [state |-> "pending", base |-> base]]

\* consume and terminalize: the compare-and-set on a pending binding.
CloseBinding(a, state) == binding' = [binding EXCEPT ![a].state = state]

\* Mutant: the pointer moves and its resource version does not.
MoveBaselineNoBump(c) == baseline' = [baseline EXCEPT !.schedule = c]

\* PostgresSiteBaselineWriter.promote.
MoveBaseline(c) == baseline' = [schedule |-> c, version |-> baseline.version + 1]

\* mark_applied: only an active draft; an ended one stays as it is.
MarkApplied(c) ==
    draft' = [draft EXCEPT ![DraftOf[c]] = IF @ = "active" THEN "applied" ELSE @]
-----------------------------------------------------------------------------
(* What happens around the approvals.                                        *)

\* A run completes and its candidate becomes promotable (finalize_run); a
\* terminal run never changes again, so neither does its resource version.
RunCompletes(c) ==
    /\ c \notin completed
    /\ completed' = completed \cup {c}
    /\ UNCHANGED <<baseline, binding, overdue, revoked, agent, draft, audit, timeline>>

\* The clock passes a pending binding's expires_at; nothing is written.
Expire(a) ==
    /\ binding[a].state = "pending"
    /\ a \notin overdue
    /\ overdue' = overdue \cup {a}
    /\ UNCHANGED <<completed, baseline, binding, revoked, agent, draft, audit, timeline>>

\* The initiator loses the membership.
Revoke ==
    /\ ~revoked
    /\ revoked' = TRUE
    /\ UNCHANGED <<completed, baseline, binding, overdue, agent, draft, audit, timeline>>

\* A planner rejects the draft (manage_proposal).
RejectDraft(p) ==
    /\ draft[p] = "active"
    /\ draft' = [draft EXCEPT ![p] = "rejected"]
    /\ UNCHANGED <<completed, baseline, binding, overdue, revoked, agent, audit, timeline>>

Around ==
    \/ \E c \in Candidates : RunCompletes(c)
    \/ \E a \in Asks : Expire(a)
    \/ Revoke
    \/ \E p \in Drafts : RejectDraft(p)
=============================================================================
