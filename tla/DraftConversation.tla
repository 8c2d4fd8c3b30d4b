---------------------------- MODULE DraftConversation ----------------------------
(***************************************************************************)
(* One conversation, its agent turns and its working draft.  Turns are     *)
(* accepted, claimed, executed outside any transaction and finalized       *)
(* (api/routers/conversations.py, execute_turn.py, finalize_agent_run.py); *)
(* meanwhile planners revise and reject the draft on its card              *)
(* (manage_proposal.py), promotions apply it and the scenario is imported  *)
(* again.                                                                  *)
(*                                                                         *)
(* A turn takes these visible steps: the claim, the observation of the     *)
(* working draft, the snapshot shown to the model (a later statement of    *)
(* the same READ COMMITTED transaction), each tool call, the model's       *)
(* output, and the finalization.                                           *)
(***************************************************************************)
EXTENDS DraftStore

CONSTANTS
    KindOf,         \* "revision" or "rejection", for each command
    KeyOf,          \* the Idempotency-Key of each command
    MaxSends,       \* bound: how often a planner sends one command
    MaxScenario,    \* bound: the last scenario version imported
    Crashes         \* TRUE if the API process may die under a turn

ASSUME CommandAssumption ==
    /\ KindOf \in [Edits -> {"revision", "rejection"}]
    /\ KeyOf \in [Edits -> STRING]
    /\ MaxSends \in Nat /\ MaxScenario \in Nat \ {0} /\ Crashes \in BOOLEAN

VARIABLES
    runStatus,  \* agent_run.status of each turn
    timeline,   \* persisted_event rows of the conversation stream
    phase,      \* where the request executing each turn is
    obs,        \* DraftTurnState: {} or the working draft as first observed
    shown,      \* the version of the working draft in the model's snapshot
    writes,     \* the trusted scheduling_draft results of the turn
    discard,    \* the trusted discard result of the turn, if any
    output,     \* the turn's outcome
    scenario,   \* the current scenario version
    view,       \* what the planner of each command saw on the card
    sends,      \* how often each command was sent
    reply,      \* the last answer to each command
    idem        \* command_idempotency rows

turnVars == <<runStatus, timeline, phase, obs, shown, writes, discard, output>>
editVars == <<view, sends, reply, idem>>
vars     == <<draftVars, turnVars, editVars, scenario>>

\* The conversation is pinned to the scenario version it was created with.
Pin == 1

NotSeen    == [id |-> NoDraft, rv |-> 0, ordinal |-> 0]
Seen(p)    == IF p = NoDraft THEN NotSeen
              ELSE [id |-> p, rv |-> draft[p].rv, ordinal |-> Ordinal(p)]
Sighting   == [id: {NoDraft} \cup Drafts, rv: Nat, ordinal: Nat]

EndStatus      == {"agent_completed", "agent_failed", "agent_timed_out", "agent_cancelled"}
RunStatus   == {"absent", "agent_queued", "agent_running"} \cup EndStatus
Phase       == {"none", "claimed", "observed", "thinking", "concluded", "over",
                "stranded", "dead"}
DraftWrite  == [outcome: {"created", "updated"}, id: {NoDraft} \cup Drafts, rv: Nat,
                base: Nat]
\* What terminal_status and activity_payload make of an outcome.
Payload     == {"none", "answer", "draft", "invalid_output", "deadline_exceeded",
                "capability_error", "approval_not_grantable"}
NoOutput    == [status |-> "absent", payload |-> "none"]
Activity    == [kind: {"planner_message", "answer", "draft", "terminal"}, turn: Turns,
                id: {NoDraft} \cup Drafts, ordinal: Nat]
Refusals    == {"conflict", "rejected_proposal", "applied_proposal", "stale_proposal",
                "stale_version"}
Slot(q)     == <<view[q].id, KindOf[q], KeyOf[q]>>
Slots       == Drafts \X {"revision", "rejection"} \X {KeyOf[q] : q \in Edits}
\* The body hash: the expected version and, for a revision, the constraints.
Body(q)     == <<view[q].rv, IF KindOf[q] = "revision" THEN {q} ELSE {}>>
NoRow       == [body |-> <<0, {}>>, rv |-> 0]

TypeOK ==
    /\ DraftType
    /\ runStatus \in [Turns -> RunStatus]
    /\ timeline \in Seq(Activity)
    /\ phase \in [Turns -> Phase]
    /\ obs \in [Turns -> SUBSET Sighting]
    /\ shown \in [Turns -> Sighting]
    /\ writes \in [Turns -> SUBSET DraftWrite]
    /\ discard \in [Turns -> Sighting]
    /\ output \in [Turns -> [status: RunStatus, payload: Payload]]
    /\ scenario \in Nat
    /\ view \in [Edits -> Sighting]
    /\ sends \in [Edits -> Nat]
    /\ reply \in [Edits -> [kind: {"none", "ok"} \cup Refusals, rv: Nat]]
    /\ idem \in [Slots -> [body: Nat \X SUBSET Edits, rv: Nat]]

Init ==
    /\ DraftInit
    /\ runStatus = [t \in Turns |-> "absent"]
    /\ timeline = << >>
    /\ phase = [t \in Turns |-> "none"]
    /\ obs = [t \in Turns |-> {}]
    /\ shown = [t \in Turns |-> NotSeen]
    /\ writes = [t \in Turns |-> {}]
    /\ discard = [t \in Turns |-> NotSeen]
    /\ output = [t \in Turns |-> NoOutput]
    /\ scenario = Pin
    /\ view = [q \in Edits |-> NotSeen]
    /\ sends = [q \in Edits |-> 0]
    /\ reply = [q \in Edits |-> [kind |-> "none", rv |-> 0]]
    /\ idem = [s \in Slots |-> NoRow]

-----------------------------------------------------------------------------
(* Turns.                                                                    *)

\* DraftTurnState.observe: read once per turn, then remembered.
Observation(t) ==
    IF obs[t] = {} THEN Seen(Working) ELSE CHOOSE o \in obs[t] : TRUE

\* The outcomes of terminal_status and activity_payload that carry no draft.
PlainOutcomes ==
    {[status |-> "agent_completed", payload |-> "answer"],
     [status |-> "agent_failed", payload |-> "invalid_output"],
     [status |-> "agent_timed_out", payload |-> "deadline_exceeded"],
     [status |-> "agent_cancelled", payload |-> "approval_not_grantable"]}

Append1(kind, t, p, ordinal) ==
    timeline' = Append(timeline, [kind |-> kind, turn |-> t, id |-> p,
                                  ordinal |-> ordinal])

\* POST /messages: the message, its queued agent run and its event.
AcceptTurn(t) ==
    /\ runStatus[t] = "absent"
    /\ runStatus' = [runStatus EXCEPT ![t] = "agent_queued"]
    /\ Append1("planner_message", t, NoDraft, 0)
    /\ UNCHANGED <<draftVars, phase, obs, shown, writes, discard, output, editVars,
                   scenario>>

\* claim_queued_run, in a short transaction of its own.  A second request finds
\* the run no longer queued, is answered 409 and changes nothing.
ClaimTurn(t) ==
    /\ runStatus[t] = "agent_queued"
    /\ runStatus' = [runStatus EXCEPT ![t] = "agent_running"]
    /\ phase' = [phase EXCEPT ![t] = "claimed"]
    /\ UNCHANGED <<draftVars, timeline, obs, shown, writes, discard, output, editVars,
                   scenario>>

\* A route other than scheduling (decide_route): no snapshot, no tools, so the
\* turn can only answer, refuse or fail.
TakeSpecialRoute(t) ==
    /\ phase[t] = "claimed"
    /\ phase' = [phase EXCEPT ![t] = "concluded"]
    /\ \E out \in PlainOutcomes : output' = [output EXCEPT ![t] = out]
    /\ UNCHANGED <<draftVars, runStatus, timeline, obs, shown, writes, discard,
                   editVars, scenario>>

\* Mutant: the draft is left for the first draft tool to observe.
ObserveLate(t) ==
    /\ phase[t] = "claimed"
    /\ phase' = [phase EXCEPT ![t] = "observed"]
    /\ UNCHANGED <<draftVars, runStatus, timeline, obs, shown, writes, discard, output,
                   editVars, scenario>>

\* _workflow_context observes the working draft before it loads the snapshot.
Observe(t) ==
    /\ phase[t] = "claimed"
    /\ phase' = [phase EXCEPT ![t] = "observed"]
    /\ obs' = [obs EXCEPT ![t] = {Observation(t)}]
    /\ UNCHANGED <<draftVars, runStatus, timeline, shown, writes, discard, output,
                   editVars, scenario>>

\* load_workflow_context reads the working draft again.
ShowSnapshot(t) ==
    /\ phase[t] = "observed"
    /\ phase' = [phase EXCEPT ![t] = "thinking"]
    /\ shown' = [shown EXCEPT ![t] = Seen(Working)]
    /\ UNCHANGED <<draftVars, runStatus, timeline, obs, writes, discard, output,
                   editVars, scenario>>

\* The snapshot raised ValueError: the turn goes on without it, and what the
\* model knows of the draft is what the turn observed.
SkipSnapshot(t) ==
    /\ phase[t] = "observed"
    /\ phase' = [phase EXCEPT ![t] = "thinking"]
    /\ shown' = [shown EXCEPT ![t] = Observation(t)]
    /\ UNCHANGED <<draftVars, runStatus, timeline, obs, writes, discard, output,
                   editVars, scenario>>

\* The draft a scheduling_draft call builds on: none after a discard.
ToolBase(t) == IF discard[t] # NotSeen THEN NotSeen ELSE Observation(t)

\* scheduling_draft: a trusted result in the sink, nothing persisted.
DraftTool(t) ==
    LET base == ToolBase(t) IN
    /\ phase[t] = "thinking"
    /\ writes[t] = {}
    /\ scenario = Pin
    /\ obs' = [obs EXCEPT ![t] = {Observation(t)}]
    /\ writes' = [writes EXCEPT ![t] =
          {[outcome |-> IF base = NotSeen THEN "created" ELSE "updated",
            id |-> base.id, rv |-> base.rv, base |-> shown[t].ordinal]}]
    /\ UNCHANGED <<draftVars, runStatus, timeline, phase, shown, discard, output,
                   editVars, scenario>>

\* The overview no longer matches the pin: a capability error ends the turn.
DraftToolFails(t) ==
    /\ phase[t] = "thinking"
    /\ scenario # Pin
    /\ phase' = [phase EXCEPT ![t] = "concluded"]
    /\ output' = [output EXCEPT ![t] = [status |-> "agent_failed",
                                        payload |-> "capability_error"]]
    /\ UNCHANGED <<draftVars, runStatus, timeline, obs, shown, writes, discard,
                   editVars, scenario>>

\* scheduling_draft_discard: refused after a draft or another discard, and when
\* there is nothing to discard (a retryable error the model sees).
DiscardTool(t) ==
    /\ phase[t] = "thinking"
    /\ writes[t] = {}
    /\ discard[t] = NotSeen
    /\ Observation(t) # NotSeen
    /\ obs' = [obs EXCEPT ![t] = {Observation(t)}]
    /\ discard' = [discard EXCEPT ![t] = Observation(t)]
    /\ UNCHANGED <<draftVars, runStatus, timeline, phase, shown, writes, output,
                   editVars, scenario>>

\* A draft and a discard among the parallel calls of one response: each asks before
\* the other has left its note, so both return a result.
DraftBesideDiscard(t) ==
    LET seen == Observation(t) IN
    /\ phase[t] = "thinking"
    /\ writes[t] = {} /\ discard[t] = NotSeen
    /\ scenario = Pin /\ seen # NotSeen
    /\ obs' = [obs EXCEPT ![t] = {seen}]
    /\ writes' = [writes EXCEPT ![t] =
          {[outcome |-> "updated", id |-> seen.id, rv |-> seen.rv, base |-> shown[t].ordinal]}]
    /\ discard' = [discard EXCEPT ![t] = seen]
    /\ UNCHANGED <<draftVars, runStatus, timeline, phase, shown, output, editVars, scenario>>

\* What a turn may end with: the model's output bound by execute_turn, or the
\* outcome of failed_outcome_for_exception.  A citation of no trusted draft is
\* invalid output.
Outcomes(t) ==
    PlainOutcomes \cup
        {[status |-> "agent_completed", payload |-> "draft"] : w \in writes[t]}

Conclude(t) ==
    /\ phase[t] = "thinking"
    /\ phase' = [phase EXCEPT ![t] = "concluded"]
    /\ \E out \in Outcomes(t) : output' = [output EXCEPT ![t] = out]
    /\ UNCHANGED <<draftVars, runStatus, timeline, obs, shown, writes, discard,
                   editVars, scenario>>

\* The draft write the outcome carries into finalize_agent_run.
Write(t) == IF output[t].payload = "draft" THEN writes[t] ELSE {}
\* The discard rides only a turn that completed.
Riding(t) == IF output[t].status = "agent_completed" THEN discard[t] ELSE NotSeen

\* _working_matches.
Matches(seen) == Working # NoDraft /\ Working = seen.id /\ draft[Working].rv = seen.rv

\* An update and a discard of the same draft, which "the tools make unreachable".
Contradictory(t) == Riding(t) # NotSeen /\ \E w \in Write(t) : w.outcome = "updated"

\* The guard of finalize_agent_run, under the conversation and draft locks.
Applies(t) ==
    IF Riding(t) # NotSeen THEN Matches(Riding(t))
    ELSE \A w \in Write(t) :
            IF w.outcome = "updated" THEN Matches([id |-> w.id, rv |-> w.rv])
            ELSE Working = NoDraft

\* finish_agent_run: the run's terminal status and one activity.
Finish(t, status, kind, p, ordinal) ==
    /\ runStatus' = [runStatus EXCEPT ![t] = status]
    /\ phase' = [phase EXCEPT ![t] = "over"]
    /\ Append1(kind, t, p, ordinal)

\* Mutant: the draft reference is published before the guard has spoken.
FinishRefusedAnnounces(t) ==
    /\ phase[t] = "concluded"
    /\ runStatus[t] = "agent_running"
    /\ Write(t) # {} \/ Riding(t) # NotSeen
    /\ ~Applies(t)
    /\ \E w \in Write(t) : Finish(t, "agent_failed", "draft", w.id, w.base + 1)
    /\ UNCHANGED <<draftVars, obs, shown, writes, discard, output, editVars, scenario>>

\* Mutant: the refused write raises out of the transaction.
FinishRefusedRaises(t) ==
    /\ phase[t] = "concluded"
    /\ runStatus[t] = "agent_running"
    /\ Write(t) # {} \/ Riding(t) # NotSeen
    /\ ~Applies(t)
    /\ phase' = [phase EXCEPT ![t] = "raised"]
    /\ UNCHANGED <<draftVars, runStatus, timeline, obs, shown, writes, discard, output,
                   editVars, scenario>>

\* The ValueError for a contradictory turn leaves the transaction and the request,
\* which is answered 500; the run stays agent_running.
FinishRaises(t) ==
    /\ phase[t] = "concluded"
    /\ runStatus[t] = "agent_running"
    /\ Contradictory(t)
    /\ phase' = [phase EXCEPT ![t] = "stranded"]
    /\ UNCHANGED <<draftVars, runStatus, timeline, obs, shown, writes, discard, output,
                   editVars, scenario>>

\* The parallel calls of one response asked for more than one promotion: _finish wants
\* exactly one pending call, raises and writes nothing.  The request is answered 409
\* and the run stays agent_running.
SuspendRaises(t) ==
    /\ phase[t] = "thinking"
    /\ phase' = [phase EXCEPT ![t] = "stranded"]
    /\ UNCHANGED <<draftVars, runStatus, timeline, obs, shown, writes, discard, output,
                   editVars, scenario>>

\* The conversation moved under the turn: it ends as failed, nothing is written.
FinishRefused(t) ==
    /\ phase[t] = "concluded"
    /\ runStatus[t] = "agent_running"
    /\ ~Contradictory(t)
    /\ Write(t) # {} \/ Riding(t) # NotSeen
    /\ ~Applies(t)
    /\ Finish(t, "agent_failed", "terminal", NoDraft, 0)
    /\ UNCHANGED <<draftVars, obs, shown, writes, discard, output, editVars, scenario>>

\* No draft in the payload: the activity, and the discard if one rides.
FinishPlain(t) ==
    /\ phase[t] = "concluded"
    /\ runStatus[t] = "agent_running"
    /\ Write(t) = {}
    /\ Riding(t) # NotSeen => Applies(t)
    /\ Finish(t, output[t].status,
              IF output[t].payload = "answer" THEN "answer" ELSE "terminal", NoDraft, 0)
    /\ draft' = IF Riding(t) # NotSeen
                THEN Ended(Riding(t).id, "assistant", Riding(t).rv + 1)
                ELSE draft
    /\ UNCHANGED <<history, obs, shown, writes, discard, output, editVars, scenario>>

\* A draft that applies: the reference in the timeline, then the discarded draft
\* leaves "active", then the new version or the new draft.
FinishDraft(t) ==
    LET row == IF Riding(t) # NotSeen
               THEN Ended(Riding(t).id, "assistant", Riding(t).rv + 1)
               ELSE draft
    IN
    /\ phase[t] = "concluded"
    /\ runStatus[t] = "agent_running"
    /\ ~Contradictory(t)
    /\ Applies(t)
    /\ \E w \in Write(t) :
          IF w.outcome = "created"
          THEN /\ Finish(t, "agent_completed", "draft", Fresh, 1)
               /\ CreateDraft(row, t, Pin)
          ELSE /\ Finish(t, "agent_completed", "draft", w.id, Ordinal(w.id) + 1)
               /\ AppendVersion(w.id, t, w.base, w.rv + 1)
    /\ UNCHANGED <<obs, shown, writes, discard, output, editVars, scenario>>

\* The process dies under the request, or its database connection under the
\* finalization; nothing reclaims the running agent run.
Crash(t) ==
    /\ Crashes
    /\ phase[t] \in {"claimed", "observed", "thinking", "concluded"}
    /\ phase' = [phase EXCEPT ![t] = "dead"]
    /\ UNCHANGED <<draftVars, runStatus, timeline, obs, shown, writes, discard, output,
                   editVars, scenario>>

-----------------------------------------------------------------------------
(* Planner commands on the draft card.                                       *)

\* GET /proposals/{id}: the planner composes a command from what it shows.
EditRead(q, p) ==
    /\ view[q] = NotSeen
    /\ draft[p].state # "absent"
    /\ view' = [view EXCEPT ![q] = Seen(p)]
    /\ UNCHANGED <<draftVars, turnVars, sends, reply, idem, scenario>>

Reply(q, kind, rv) ==
    /\ reply' = [reply EXCEPT ![q] = [kind |-> kind, rv |-> rv]]
    /\ sends' = [sends EXCEPT ![q] = @ + 1]
    /\ UNCHANGED <<view, scenario>>

\* The refusal a command meets after the replay check, in the code's order:
\* ended before stale, and a rejection is allowed on a stale draft.
RefusalOf(q) ==
    LET row == draft[view[q].id] IN
    CASE row.state = "rejected" -> "rejected_proposal"
      [] row.state = "applied"  -> "applied_proposal"
      [] KindOf[q] = "revision" /\ row.scenario # scenario -> "stale_proposal"
      [] view[q].rv # row.rv    -> "stale_version"
      [] OTHER                  -> "none"

\* _replay_or_conflict.
EditReplay(q) ==
    /\ view[q] # NotSeen
    /\ sends[q] < MaxSends
    /\ idem[Slot(q)] # NoRow
    /\ IF idem[Slot(q)].body = Body(q) THEN Reply(q, "ok", idem[Slot(q)].rv)
       ELSE Reply(q, "conflict", 0)
    /\ UNCHANGED <<draftVars, turnVars, idem>>

\* Mutant: the draft's state is examined before the stored result.
EditRefusedFirst(q) ==
    /\ view[q] # NotSeen
    /\ sends[q] < MaxSends
    /\ RefusalOf(q) # "none"
    /\ Reply(q, RefusalOf(q), 0)
    /\ UNCHANGED <<draftVars, turnVars, idem>>

EditRefused(q) ==
    /\ view[q] # NotSeen
    /\ sends[q] < MaxSends
    /\ idem[Slot(q)] = NoRow
    /\ RefusalOf(q) # "none"
    /\ Reply(q, RefusalOf(q), 0)
    /\ UNCHANGED <<draftVars, turnVars, idem>>

\* revise_proposal and reject_proposal, applied, with the stored result.
EditWrites(q) ==
    LET p == view[q].id
        rv == draft[p].rv + 1
    IN
    /\ view[q] # NotSeen
    /\ sends[q] < MaxSends
    /\ idem[Slot(q)] = NoRow
    /\ RefusalOf(q) = "none"
    /\ IF KindOf[q] = "revision" THEN AppendVersion(p, q, view[q].ordinal, rv)
       ELSE draft' = Ended(p, "planner", rv) /\ UNCHANGED history
    /\ idem' = [idem EXCEPT ![Slot(q)] = [body |-> Body(q), rv |-> rv]]
    /\ Reply(q, "ok", rv)

EditApplied(q) == EditWrites(q) /\ UNCHANGED turnVars

\* A revision commits while the finalization of t waits in get_working for the row
\* of the draft.  PostgreSQL checks the locked row again, finds the new current
\* version unlike the version row it had joined, and returns the draft without a
\* version.  _read_one raises; execute_agent_turn answers 409 and the run stays
\* agent_running.
RevisionStrands(q, t) ==
    /\ KindOf[q] = "revision"
    /\ phase[t] = "concluded"
    /\ runStatus[t] = "agent_running"
    /\ Write(t) # {} \/ Riding(t) # NotSeen
    /\ ~Contradictory(t)
    /\ EditWrites(q)
    /\ phase' = [phase EXCEPT ![t] = "stranded"]
    /\ UNCHANGED <<runStatus, timeline, obs, shown, writes, discard, output>>

-----------------------------------------------------------------------------
(* The rest of the system.                                                   *)

\* A promotion of a candidate computed from version v of the draft.
Promote(p, v) ==
    /\ draft[p].state # "absent" /\ draft[p].applied = 0
    /\ v \in 1..Ordinal(p)
    /\ MarkApplied(p, v)
    /\ UNCHANGED <<turnVars, editVars, scenario>>

\* A new scenario version is imported.
Reimport ==
    /\ scenario < MaxScenario
    /\ scenario' = scenario + 1
    /\ UNCHANGED <<draftVars, turnVars, editVars>>

TurnStep(t) ==
    \/ TakeSpecialRoute(t) \/ Observe(t) \/ ShowSnapshot(t) \/ SkipSnapshot(t)
    \/ DraftTool(t) \/ DraftToolFails(t) \/ DiscardTool(t) \/ DraftBesideDiscard(t)
    \/ Conclude(t) \/ SuspendRaises(t) \/ FinishRaises(t)
    \/ FinishRefused(t) \/ FinishPlain(t) \/ FinishDraft(t)

Next ==
    \/ \E t \in Turns : AcceptTurn(t) \/ ClaimTurn(t) \/ TurnStep(t) \/ Crash(t)
    \/ \E q \in Edits : EditReplay(q) \/ EditRefused(q) \/ EditApplied(q)
    \/ \E q \in Edits, t \in Turns : RevisionStrands(q, t)
    \/ \E q \in Edits, p \in Drafts : EditRead(q, p)
    \/ \E p \in Drafts : \E v \in 1..Ordinal(p) : Promote(p, v)
    \/ Reimport

Spec == Init /\ [][Next]_vars

\* The request that claimed a turn runs to its end: the model call has a
\* deadline, and every exception of the execution still leads to _finish.
FairSpec == Spec /\ \A t \in Turns : WF_vars(TurnStep(t))

-----------------------------------------------------------------------------
(* Properties.                                                               *)

\* No version of a draft overwrites one its author had not been shown: the card
\* carries the version it displayed and the turn's guard compares the draft with
\* the observation made before the snapshot (finalize_agent_run, Decision 8).
NoLostEdit ==
    \A p \in Drafts : \A i \in 1..Ordinal(p) : history[p][i].base = i - 1

\* At most one draft of the conversation is active, by the guard alone: the
\* unique index uq_proposal_one_active_per_conversation never has to fire.
OneWorkingDraft ==
    \A p, k \in Drafts :
        draft[p].state = "active" /\ draft[k].state = "active" => p = k

\* The resource version counts every write to the draft exactly once, although
\* three writers compute it from values they read in other transactions.
VersionCountsWrites ==
    \A p \in Drafts : draft[p].state # "absent" =>
        draft[p].rv = Ordinal(p) + (IF draft[p].state = "active" THEN 0 ELSE 1)

\* The timeline and the draft agree: every draft activity names a version that
\* its turn wrote, and every version written by a turn has exactly one activity
\* (finish_agent_run and the proposal write share a transaction).
TimelineNamesVersions ==
    /\ \A i \in 1..Len(timeline) : timeline[i].kind = "draft" =>
          /\ timeline[i].id \in Drafts
          /\ timeline[i].ordinal \in 1..Ordinal(timeline[i].id)
          /\ history[timeline[i].id][timeline[i].ordinal].by = timeline[i].turn
    /\ \A p \in Drafts : \A n \in 1..Ordinal(p) : history[p][n].by \in Turns =>
          Cardinality({i \in 1..Len(timeline) :
              /\ timeline[i].kind = "draft"
              /\ timeline[i].id = p /\ timeline[i].ordinal = n}) = 1

\* A planner whose revision is in the draft is told so, with the version it
\* produced, however often the command is sent and whatever happened to the
\* draft since (the replay check comes before every refusal, AD-8).
AppliedIsAnswered ==
    \A q \in Edits : \A p \in Drafts : \A i \in 1..Ordinal(p) :
        history[p][i].by = q => reply[q] = [kind |-> "ok", rv |-> i]

\* Every turn that is claimed reaches a terminal status with its activity (the
\* comment after the claim in execute_agent_turn), with four exceptions: its process
\* dies, a revision of the draft commits in the middle of its finalization, the turn
\* both updates and discards the draft, or it asks for two promotions at once.  A turn
\* is claimed once, so it is enough that again and again no other one is running.
ClaimedTurnEnds ==
    []<>(\A t \in Turns : runStatus[t] = "agent_running" =>
            phase[t] \in {"stranded", "dead"})

\* The draft history the planner is promised.
Promised == INSTANCE DraftLedger WITH
    state <- [p \in Drafts |-> draft[p].state],
    length <- [p \in Drafts |-> Ordinal(p)]

\* Turns, commands and promotions together implement the draft lifecycle.
ImplementsLedger == Promised!LedgerSpec

\* What is recorded of the draft agrees: one draft is open, its version counts its
\* writes, and the timeline names every version a turn wrote, none a failed turn
\* would have written (finish_agent_run and the proposal write commit together).
DraftRecordsAgree == TypeOK /\ OneWorkingDraft /\ VersionCountsWrites /\ TimelineNamesVersions
=============================================================================
