----------------------------- MODULE EnqueueCompute -----------------------------
(***************************************************************************)
(* The start command, POST /schedule-runs: scheduling_optimize validates   *)
(* the request, enqueue_compute locks the proposal row, answers a replay,  *)
(* refuses what cannot be scheduled, takes the site's advisory lock,       *)
(* counts the site's active runs against the cap, pins a snapshot and      *)
(* inserts the run, its job and the replay record in one transaction.      *)
(* Planners, turns and promotions change the drafts meanwhile, runs end,   *)
(* the governed context moves, processes die and replies are lost.         *)
(*                                                                         *)
(* A command that creates a run names it: the run of command c is c.       *)
(***************************************************************************)
EXTENDS Naturals, FiniteSets

CONSTANTS
    Commands,       \* start requests; sending one again is a retry
    Drafts, Sites,
    DraftOf,        \* the proposal a command names
    KeyOf,          \* its actor and idempotency key
    ExpectedOf,     \* its expected_resource_version; 0 is refused as invalid
    SiteOf,         \* the site of a draft, and of every run of that draft
    Cap,            \* settings.site_max_concurrent_runs
    MaxSends,       \* bound: how often one command is sent
    MaxVersion,     \* bound: resource versions of a draft
    MaxContext,     \* bound: versions of the governed context of a site
    Crashes,        \* whether processes die and replies are lost
    NoOne

ASSUME EnqueueAssumption ==
    /\ DraftOf \in [Commands -> Drafts] /\ SiteOf \in [Drafts -> Sites]
    /\ ExpectedOf \in [Commands -> Nat] /\ Cap \in Nat
    /\ NoOne \notin Commands /\ IsFiniteSet(Commands)
    /\ MaxSends \in Nat /\ MaxVersion \in Nat \ {0} /\ MaxContext \in Nat \ {0}

VARIABLES
    draft,      \* proposal row: state, resource version, pinned context
    context,    \* the scenario version and baseline the catalogue shows per site
    run,        \* schedule_run of each command: status, pinned draft and context
    replay,     \* command_idempotency: slot -> the stored body and run
    draftLock, siteLock,
    pc,         \* where a command's transaction stands
    sends,      \* how often a command was sent
    reply       \* the last answer each command received

vars == <<draft, context, run, replay, draftLock, siteLock, pc, sends, reply>>

Refusals == {"invalid_query", "idempotency_key_conflict", "rejected_proposal",
             "applied_proposal", "stale_resource_version",
             "site_concurrency_exhausted", "stale_proposal",
             "scenario_unavailable"}
Phases   == {"idle", "sent", "locked", "queued", "counted", "snapped", "done"}
\* No run: the command has created none.
NoRun    == [status |-> "absent", rv |-> 0, context |-> 0]
NoReply  == [code |-> "none", run |-> NoOne]

Site(c) == SiteOf[DraftOf[c]]
\* operation, actor and key: the scope of a stored reply.
Slot(c) == <<DraftOf[c], KeyOf[c]>>
\* _body_hash covers the proposal and the expected version.
Body(c) == <<DraftOf[c], ExpectedOf[c]>>

TypeOK ==
    /\ draft \in [Drafts -> [state: {"active", "rejected", "applied"},
                             rv: 1..MaxVersion, context: 1..MaxContext]]
    /\ context \in [Sites -> 1..MaxContext]
    /\ run \in [Commands -> [status: {"absent", "active", "ended"},
                             rv: 0..MaxVersion, context: 0..MaxContext]]
    /\ \A s \in DOMAIN replay : replay[s].run \in Commands
    /\ draftLock \in [Drafts -> Commands \cup {NoOne}]
    /\ siteLock \in [Sites -> Commands \cup {NoOne}]
    /\ pc \in [Commands -> Phases]
    /\ sends \in [Commands -> 0..MaxSends]
    /\ reply \in [Commands -> [code: Refusals \cup {"none", "accepted"},
                               run: Commands \cup {NoOne}]]

Init ==
    /\ draft = [d \in Drafts |-> [state |-> "active", rv |-> 1, context |-> 1]]
    /\ context = [s \in Sites |-> 1]
    /\ run = [c \in Commands |-> NoRun]
    /\ replay = << >>
    /\ draftLock = [d \in Drafts |-> NoOne]
    /\ siteLock = [s \in Sites |-> NoOne]
    /\ pc = [c \in Commands |-> "idle"]
    /\ sends = [c \in Commands |-> 0]
    /\ reply = [c \in Commands |-> NoReply]

-----------------------------------------------------------------------------
(* Commit and rollback release whatever the transaction holds.               *)

\* pg_advisory_xact_lock and row locks both end with the transaction.
Release(c) ==
    /\ draftLock' = [d \in Drafts |-> IF draftLock[d] = c THEN NoOne ELSE draftLock[d]]
    /\ siteLock' = [s \in Sites |-> IF siteLock[s] = c THEN NoOne ELSE siteLock[s]]

\* _start_problem: the refusal becomes the answer and the transaction commits.
Refuse(c, code) ==
    /\ reply' = [reply EXCEPT ![c] = [code |-> code, run |-> NoOne]]
    /\ pc' = [pc EXCEPT ![c] = "idle"]
    /\ Release(c)
    /\ UNCHANGED <<draft, context, run, replay, sends>>

\* The capability handler runs before anything is read.
Validate(c) ==
    /\ pc[c] = "idle" /\ sends[c] < MaxSends
    /\ sends' = [sends EXCEPT ![c] = @ + 1]
    /\ IF ExpectedOf[c] < 1
       THEN /\ reply' = [reply EXCEPT ![c] = [code |-> "invalid_query", run |-> NoOne]]
            /\ UNCHANGED pc
       ELSE pc' = [pc EXCEPT ![c] = "sent"] /\ UNCHANGED reply
    /\ UNCHANGED <<draft, context, run, replay, draftLock, siteLock>>

\* Why the locked proposal row cannot be scheduled: an ended draft first, then
\* a version that is not the caller's.
EnqueueRefusal(c) ==
    LET row == draft[DraftOf[c]] IN
    IF row.state = "rejected" THEN "rejected_proposal"
    ELSE IF row.state = "applied" THEN "applied_proposal"
    ELSE IF row.rv # ExpectedOf[c] THEN "stale_resource_version"
    ELSE "none"

\* Mutant: get_current without FOR UPDATE waits for nobody and locks nothing.
LockProposalUnlocked(c) == UNCHANGED draftLock

\* get_current(for_update=True).
LockProposal(c) ==
    /\ draftLock[DraftOf[c]] = NoOne
    /\ draftLock' = [draftLock EXCEPT ![DraftOf[c]] = c]

\* The stored reply answers before anything about the draft is looked at.
AnswerReplay(c) ==
    /\ pc[c] = "sent" /\ draftLock[DraftOf[c]] = NoOne
    /\ Slot(c) \in DOMAIN replay
    /\ reply' = [reply EXCEPT ![c] =
                    IF replay[Slot(c)].body # Body(c)
                    THEN [code |-> "idempotency_key_conflict", run |-> NoOne]
                    ELSE [code |-> "accepted", run |-> replay[Slot(c)].run]]
    /\ pc' = [pc EXCEPT ![c] = "idle"]
    /\ UNCHANGED <<draft, context, run, replay, draftLock, siteLock, sends>>

\* Mutant: the ended check answers before the stored reply is looked up.
RefuseProposalFirst(c) ==
    /\ pc[c] = "sent" /\ draftLock[DraftOf[c]] = NoOne
    /\ EnqueueRefusal(c) # "none"
    /\ Refuse(c, EnqueueRefusal(c))

RefuseProposal(c) ==
    /\ pc[c] = "sent" /\ draftLock[DraftOf[c]] = NoOne
    /\ Slot(c) \notin DOMAIN replay
    /\ EnqueueRefusal(c) # "none"
    /\ Refuse(c, EnqueueRefusal(c))

\* The first half of enqueue_compute, up to the site lock.
HoldProposal(c) ==
    /\ pc[c] = "sent"
    /\ Slot(c) \notin DOMAIN replay
    /\ EnqueueRefusal(c) = "none"
    /\ LockProposal(c)
    /\ pc' = [pc EXCEPT ![c] = "locked"]
    /\ UNCHANGED <<draft, context, run, replay, siteLock, sends, reply>>

\* Mutant: the commands of a site are not serialised.
AcquireSiteEnqueueLockFree(c) ==
    /\ pc[c] = "locked"
    /\ pc' = [pc EXCEPT ![c] = "queued"]
    /\ UNCHANGED <<draft, context, run, replay, draftLock, siteLock, sends, reply>>

AcquireSiteEnqueueLock(c) ==
    /\ pc[c] = "locked"
    /\ siteLock[Site(c)] = NoOne
    /\ siteLock' = [siteLock EXCEPT ![Site(c)] = c]
    /\ pc' = [pc EXCEPT ![c] = "queued"]
    /\ UNCHANGED <<draft, context, run, replay, draftLock, sends, reply>>

\* count_runs_with_statuses(NON_TERMINAL_RUN_STATUSES).
ActiveRuns(s) == {c \in Commands : Site(c) = s /\ run[c].status = "active"}

CountRuns(c) ==
    /\ pc[c] = "queued"
    /\ IF Cardinality(ActiveRuns(Site(c))) >= Cap
       THEN Refuse(c, "site_concurrency_exhausted")
       ELSE /\ pc' = [pc EXCEPT ![c] = "counted"]
            /\ UNCHANGED <<draft, context, run, replay, draftLock, siteLock, sends, reply>>

\* create_run_snapshot: the catalogue is read without a lock; a draft pinned to
\* another context is refused, never rebased.  readable is FALSE when the
\* scenario row is not visible to the site.
Snapshot(c, readable) ==
    /\ pc[c] = "counted"
    /\ IF ~readable THEN Refuse(c, "scenario_unavailable")
       ELSE IF draft[DraftOf[c]].context # context[Site(c)] THEN Refuse(c, "stale_proposal")
       ELSE /\ pc' = [pc EXCEPT ![c] = "snapped"]
            /\ run' = [run EXCEPT ![c].rv = draft[DraftOf[c]].rv,
                                  ![c].context = context[Site(c)]]
            /\ UNCHANGED <<draft, context, replay, draftLock, siteLock, sends, reply>>

\* create_queued_run, enqueue_job and the replay record, made visible by the
\* commit; an existing record would be kept (ON CONFLICT DO NOTHING).
Insert(c) ==
    /\ pc[c] = "snapped"
    /\ run' = [run EXCEPT ![c].status = "active"]
    /\ replay' = [s \in DOMAIN replay \cup {Slot(c)} |->
                    IF s \in DOMAIN replay THEN replay[s]
                    ELSE [body |-> Body(c), run |-> c]]
    /\ pc' = [pc EXCEPT ![c] = "done"]
    /\ Release(c)
    /\ UNCHANGED <<draft, context, sends, reply>>

\* start_schedule_run reads the run back and answers.
Respond(c) ==
    /\ pc[c] = "done"
    /\ reply' = [reply EXCEPT ![c] = [code |-> "accepted", run |-> c]]
    /\ pc' = [pc EXCEPT ![c] = "idle"]
    /\ UNCHANGED <<draft, context, run, replay, draftLock, siteLock, sends>>

\* The process dies or the connection drops: an open transaction is rolled
\* back, a committed one only loses its reply.
Lose(c) ==
    /\ Crashes /\ pc[c] # "idle"
    /\ pc' = [pc EXCEPT ![c] = "idle"]
    /\ run' = IF pc[c] = "snapped" THEN [run EXCEPT ![c] = NoRun] ELSE run
    /\ Release(c)
    /\ UNCHANGED <<draft, context, replay, sends, reply>>

-----------------------------------------------------------------------------
(* What goes on beside the commands.                                         *)

\* A revision or an agent's version, which may pin the context of the day.
Revise(d) ==
    /\ draftLock[d] = NoOne /\ draft[d].state = "active" /\ draft[d].rv < MaxVersion
    /\ \E k \in {draft[d].context, context[SiteOf[d]]} :
          draft' = [draft EXCEPT ![d].rv = @ + 1, ![d].context = k]
    /\ UNCHANGED <<context, run, replay, draftLock, siteLock, pc, sends, reply>>

\* reject, end_by_assistant and mark_applied all bump the resource version.
EndDraft(d) ==
    /\ draftLock[d] = NoOne /\ draft[d].state = "active" /\ draft[d].rv < MaxVersion
    /\ \E s \in {"rejected", "applied"} :
          draft' = [draft EXCEPT ![d].state = s, ![d].rv = @ + 1]
    /\ UNCHANGED <<context, run, replay, draftLock, siteLock, pc, sends, reply>>

\* The worker finishes a run, or the run is cancelled.
EndRun(c) ==
    /\ run[c].status = "active"
    /\ run' = [run EXCEPT ![c].status = "ended"]
    /\ UNCHANGED <<draft, context, replay, draftLock, siteLock, pc, sends, reply>>

\* A promotion moves the baseline, or a scenario version is imported.
MoveContext(s) ==
    /\ context[s] < MaxContext
    /\ context' = [context EXCEPT ![s] = @ + 1]
    /\ UNCHANGED <<draft, run, replay, draftLock, siteLock, pc, sends, reply>>

Command(c) ==
    \/ Validate(c) \/ AnswerReplay(c) \/ RefuseProposal(c) \/ HoldProposal(c)
    \/ AcquireSiteEnqueueLock(c) \/ CountRuns(c)
    \/ \E b \in BOOLEAN : Snapshot(c, b)
    \/ Insert(c) \/ Respond(c)

Next ==
    \/ \E c \in Commands : Command(c) \/ Lose(c) \/ EndRun(c)
    \/ \E d \in Drafts : Revise(d) \/ EndDraft(d)
    \/ \E s \in Sites : MoveContext(s)

Spec == Init /\ [][Next]_vars

-----------------------------------------------------------------------------
\* A site never has more non-terminal runs than its cap, however many commands
\* count at once (enqueue_compute.py, the advisory lock around count and insert).
SiteCapHeld == \A s \in Sites : Cardinality(ActiveRuns(s)) <= Cap

\* One key starts one run: a command and its retries, sent concurrently, lost or
\* interrupted, never leave two runs behind one (proposal, actor, key).
OneRunPerKey ==
    \A c, k \in Commands :
        (Slot(c) = Slot(k) /\ run[c].status # "absent" /\ run[k].status # "absent"
            /\ pc[c] # "snapped" /\ pc[k] # "snapped") => c = k

\* A run starts on the version its planner named, of a draft that is still
\* active when the run becomes visible, although both were checked several
\* statements earlier.
StartsWhatWasReviewed ==
    [][\A c \in Commands :
         (run[c].status = "absent" /\ run'[c].status = "active") =>
            /\ draft[DraftOf[c]].state = "active"
            /\ draft[DraftOf[c]].rv = ExpectedOf[c]
            /\ run'[c].rv = ExpectedOf[c]
            /\ run'[c].context = draft[DraftOf[c]].context]_vars

\* A request whose run was committed is answered with that run whenever it is
\* sent again, even after the draft was revised, ended or applied; the same key
\* with another well-formed body never is.
RetryFindsItsRun ==
    [][\A c \in Commands :
         (reply'[c] # reply[c] /\ ExpectedOf[c] > 0 /\ Slot(c) \in DOMAIN replay) =>
            IF replay[Slot(c)].body = Body(c)
            THEN reply'[c] = [code |-> "accepted", run |-> replay[Slot(c)].run]
            ELSE reply'[c].code = "idempotency_key_conflict"]_vars

\* A refusal offers a recovery that can work: "stale" is said only of a draft
\* that a refresh would make schedulable, and "try again shortly" only of a
\* request that is schedulable but for the site's capacity.
RefusalOffersRecovery ==
    [][\A c \in Commands : reply'[c] # reply[c] =>
         /\ reply'[c].code = "stale_resource_version" => draft[DraftOf[c]].state = "active"
         /\ reply'[c].code = "site_concurrency_exhausted" =>
                /\ draft[DraftOf[c]].state = "active"
                /\ draft[DraftOf[c]].rv = ExpectedOf[c]]_vars

\* The holder of the lock a command waits for.
Waits(c) ==
    IF pc[c] = "sent" THEN draftLock[DraftOf[c]]
    ELSE IF pc[c] = "locked" THEN siteLock[Site(c)] ELSE NoOne

\* No command waits for ever: whoever waits does so, at most one lock further, for
\* a command that can still take a step.  A lock kept past its transaction, or
\* the two locks taken in two orders, would leave it waiting for nobody.
WaitsForTheLiving ==
    \A c \in Commands : (pc[c] # "idle" /\ Waits(c) # NoOne) =>
        LET h == Waits(c) IN
        /\ pc[h] # "idle"
        /\ Waits(h) # NoOne => (pc[Waits(h)] # "idle" /\ Waits(Waits(h)) = NoOne)

\* The site's advisory lock does its work and nothing more: the cap holds, and
\* nobody waits on a lock that nobody will release.
SiteLockWorks == TypeOK /\ SiteCapHeld /\ WaitsForTheLiving

\* The answers of the start command can be acted on: a retry finds its run, and a
\* refusal names a recovery that can work.
AnswersActionable == RetryFindsItsRun /\ RefusalOffersRecovery
=============================================================================
