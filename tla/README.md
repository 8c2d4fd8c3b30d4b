# A TLA+ development for roster-ai (ShiftMind)

ShiftMind plans shift rosters. A planner signs in and talks to an agent; the
conversation produces a *draft* (proposal); the draft is computed by a CP-SAT
solver in a separate worker process; the result is a *candidate* schedule
version; a candidate becomes the site's *baseline* only through an explicit
approval. Durable state is in PostgreSQL, and API requests, agent turns, imports
and workers are concurrent transactions over it at READ COMMITTED. Beside the
product the repository holds the machinery that decides whether a build may be
released: evidence files bound to a commit, live measurements of the agent, and
two gates that read them.

## The system

| Part | State it keeps | Operations | Hard behaviour |
| --- | --- | --- | --- |
| Run store (`adapters/postgres/schedule_run.py`, lease functions in `migrations/versions/a2b3c4d5e6f7_*`) | `schedule_run`, `workflow.job_queue`, `persisted_event`, `schedule_version` | create, lease, renew, mark running, cancel, finalize, complete and fail job | fencing epochs, compare-and-sets, lock or no lock |
| Lease worker (`worker/`, `lease_and_execute_schedule_run.py`, `execute_schedule_run.py`) | the lease it holds, its position | poll, two checkpoints, solve with a heartbeat thread, claim, finalize, fatal recovery | crashes, lapsed leases, late heartbeats, unlocked reads, an error that recurs on every attempt |
| Cancellation (`cancel_schedule_run.py`) | `command_idempotency` | read, check, apply, lost-race resolution, replay | a retry racing its original; refusals that commit |
| Start command (`enqueue_compute.py`, `create_run_snapshot.py`) | run, job, snapshot, idempotency row | enqueue | the site's cap under an advisory lock, replay before refusal, snapshot against a moving draft |
| Conversations and turns (`conversations.py`, `adapters/postgres/conversation.py`, `finalize_agent_run.py`) | conversation, message, `agent_run`, timeline | accept, claim, run, finalize, pause, resume, cancel | a draft observed before a long turn and guarded after it |
| Proposals (`manage_proposal.py`, `adapters/postgres/proposal.py`) | proposal and its versions | create, revise, reject, discard, mark applied | one active draft, lost answers, scenario drift |
| Event streams (SSE routes, `stream_cursor.py`, the frontend's `useConversationStream`) | the connection, the reader's cursor, the browser's stored cursor | present a cursor, replay in batches, follow, reconnect, give up and poll | appends behind a cursor, unreadable rows, dropped frames |
| Approvals (`request_approval.py`, `decide_approval.py`, `promote_baseline.py`, `approvals.py`) | `approval_request`, `site_baseline`, `audit_event` | TX1 (ask), TX2 (promote), TX3 (terminalize), resumed turn | two compare-and-sets; what commits on a refusal and what rolls back |
| Identity (`api/routers/auth.py`, `api/main.py`, `adapters/cognito/`, `auth.*` functions) | handshakes, sessions, CSRF secret, discovery and key caches | login, callback, resolve, sign out, exchange | crossing callbacks, revocation against use, key rotation, a lock held over HTTP |
| Agent runtime (`agent/runtime.py`, `capability_tools.py`) | one turn | ask the model, call tools, validate, retry, suspend, end | parallel calls of one response, limits and a deadline after work was done |
| Capabilities (`application/capabilities/`, `drafting/`, `clarification/`) | grants, turn flags, the draft under construction | install, grant, call, approve, resolve constraints | data that changes between pages; acting before asking |
| Grounding (`application/grounding/`, `adapters/grounding/`) | evidence registry | mint handles, check facts, calculations and claims, correct | a fact that is old when cited, a checker that answers in part |
| Scenario data (`fixture_history.py`, `scenario_projection.py`, `calculators.py`) | immutable scenario versions | import, page, resolve a citation, drain a metric | racing and dying imports, pages of different versions |
| Solver (`engine/`, `application/scheduling/`) | none | build, two rounds, extract, validate, measure, compare | two roundings of one quantity; an exhausted budget |
| Release tooling (`scripts/*_readiness.py`, `evidence_binding.py`, `evals/live_*`) | working tree, history, JUnit files, evidence, suite runs on disk | run tests, measure, resume, derive evidence, audit, decide | the tree moves under everything; kills; donors and exceptions |
| Telemetry, read models, offline reports, the rest of the user interface | | | see *Not modelled* |

Product parts interact through rows only. A turn creates or revises a draft; a
start command creates a run and its job from the draft's reviewed version; a
worker leases the job and moves the run; a cancellation moves the run under the
worker's feet; a completed run offers a candidate; an approval request binds the
candidate and the current baseline; a decision consumes the binding, moves the
baseline, resumes the agent run and ends the draft in one transaction; every
one of these appends to a timeline or a run stream that browsers follow. Inside
a turn the runtime calls capabilities, capabilities read the scenario projection
through short transactions of their own, and the grounding gate judges the
answer against what they returned. Release tools interact through files.

## Modules

| Module | Models |
| --- | --- |
| `ScheduleRunStore` | The run tables, one operator per repository method; `HoldsEpoch` is the fence, `Transition` the run row, its resource version and its event written together. |
| `LeaseWorker` | The worker, one action per transaction or unlocked read. `pc[w]` is where it is, `held[w]` the lease it believes it has, `result[w]` the outcome in its memory. |
| `ScheduleRunSystem` | Workers, start and cancellation commands over one store. |
| `RunLifecycle` | Abstract: the status history and the candidate a reader of a run may see. |
| `EnqueueCompute` | The start command: validation, replay, refusals in order, the proposal's row lock, the site's advisory lock, count, snapshot, insert; retries in other processes. |
| `DraftStore`, `DraftConversation` | Proposal rows; turns that observe and finalize against a draft, planners' revisions and rejections, promotion, scenario imports, lost answers, deaths. |
| `DraftLedger` | Abstract: what a conversation's drafts may do. |
| `ApprovalStore`, `RequestApproval`, `DecideApproval`, `BaselineApproval` | Approval rows; TX1 for both initiators; TX2, TX3 and the resumed turn; their composition. |
| `BaselineLedger` | Abstract: what governance promises about the baseline. |
| `EventStream` | Both SSE routes, writers, and a reader that is an API client or the browser's hook. |
| `AgentRuntime` | One turn: routes, requests, the parallel tool calls of a response (`batch`), retries, limits, output rules, suspension, the ways a turn ends. |
| `SignIn` | The `/auth` routes, the session and CSRF middleware, the `auth.*` functions, provisioning, the development provider. |
| `CognitoOidc` | The provider adapter's shared metadata and key caches under concurrent sign-ins. |
| `ScenarioProjection` | A payload's tables as facts, queries and citations; the metrics over them. Operators only. |
| `ScenarioData` | Imports, baselines, paged reads, citations and drained metrics as interleaved transactions. |
| `ProjectionAlgorithms` | The same operators on every payload of a bounded set, against reference definitions. |
| `Questions` | The shape of a run over a pure algorithm: a question, its answer. |
| `SolverModel`, `GovernedSolver` | The constraint model; its two rounds, extraction, validation, metrics, comparison, over every solution CP-SAT may return. |
| `Grounding` | Handles minted from two threads, claim tags, the gate, the checker's batches and deadline, the correction. |
| `Capabilities` | Manifests, registration, grants, the single call path, approval, every installed handler's guards; clarification outcomes. |
| `Drafting` | A draft resolved page by page while deadlines pass and scenarios are imported, and what the solver's adapter makes of it. |
| `EvidenceBinding` | The repository under edit, commit and amend; code bindings, freshness, audits, donors. |
| `LiveRouting`, `LiveSuite` | The golden routing measurement; the resumable live conversation suite, its reports, evidence, baseline and drop check. |
| `ReleaseGate` | Test runs, evidence files, exceptions, and the verdicts of gates A and B. |
| `ScheduleRunProofs`, `EnqueueComputeProofs`, `DraftConversationProofs`, `BaselineApprovalProofs`, `EventStreamProofs`, `ServingProofs`, `PlanningProofs`, `SolverProofs` | The theorems, each about the module it is named after; `ServingProofs` about `SignIn`, `CognitoOidc` and `AgentRuntime`, `PlanningProofs` about `Capabilities`, `ScenarioData`, `Drafting` and `Grounding`, `SolverProofs` about `SolverModel` and `GovernedSolver`. |
| `MC*` | Instances for TLC. `MCServing`, `MCPlanning` and `MCRelease` put modules that share no state, or share only definitions, into one run: a behaviour chooses one part in its first state and the others stay idle. |

The chains of EXTENDS are `ScheduleRunStore` → `LeaseWorker` →
`ScheduleRunSystem`; `ApprovalStore` → `RequestApproval` → `DecideApproval` →
`BaselineApproval`; `DraftStore` → `DraftConversation`; `ScenarioProjection` →
`ScenarioData`, `Grounding` and `Drafting`; `ScenarioProjection` → `SolverModel` →
`GovernedSolver`; `PlanningProofs` → `SolverProofs`; `EvidenceBinding` → `LiveRouting` → `LiveSuite` →
`ReleaseGate`. Definitions whose comment begins with "Mutant" are plausible
bugs, used only to show that the property named beside them in `PROJECT.json`
notices.

### How the code's transactions appear

A step is what other transactions can see as one: a whole transaction when it
takes its row lock first, otherwise each unlocked read and the locked rest. A
`SELECT ... FOR UPDATE` is a read of the committed rows as they are when the
lock is granted. Variables hold committed rows. A row or advisory lock that
outlives a step is a variable (`lock` on jobs, `closing` on bindings, `moving`
on the baseline row, the proposal and site locks of a start command, the
writer's lock on a stream; an ask at `"inserted"` holds the share lock of its
conversation). A transaction that rolls back simply has none of its writes.

The request dependency (`get_site_context`, `api/deps.py`) commits when the
endpoint returns, *also with a problem document*, and rolls back only when an
exception leaves the endpoint. Both halves matter: the cancellation's refusals
commit the flag written before them; TX2's refusals raise on purpose.

In-process concurrency appears the same way: a coroutine of `CognitoOidc` runs
from one `await` to the next, a thread of `Grounding` from one registry call to
the next. Release tools are separate processes over files, so one step is one
write, and a kill may come after any of them.

### Abstractions

* **Runs.** The lease clock is the Boolean `expired`. `LeaseLapses` expires a
  lease nobody renews any more; `LateRenewal` expires one whose owner is alive (a
  pause, a slow database) and costs one of `MaxFaults`. `SKIP LOCKED` is the guard
  on `lock`. A heartbeat thread may outlive its solve (its join is bounded), so
  `Heartbeat` does not depend on the worker's position. A solver exception becomes
  an UNKNOWN outcome inside the solve, so transient failures come from the
  transactions around it. The metrics are calculated after it: for an `Unmeasurable`
  run they raise whenever the solver finds a schedule (`MetricsRaise`), at most
  `MaxAttempts` times in an instance. A missing run or snapshot is excluded by foreign
  keys.
* **Approvals.** A binding's resource version is 1 while pending and 2 after, so
  the compare-and-set on it compares its state. Hashes, summaries, evidence
  references and the policy version do not change between request and decision
  within one process's configuration, and are left out. The terminal run behind a
  candidate never changes (`Refinement` below), which is why the parameter digest
  cannot differ at decision time. One initiator per instance may lose the
  membership. A process that dies after TX2 and before the resumed turn is
  finalized leaves the run `agent_running`: `ResumedTurnLost` is an action, and no
  property forbids it because the route's docstring accepts it.
* **Drafts and starts.** A version's content is who wrote it and against what. An
  agent turn is nondeterministic input to the conversation modules. A snapshot is
  the draft version and scenario it was built from. A locking read of a draft joins its
  current version and checks only the locked row again, so one that waited for a
  revision raises (`proposal.py:118`): under a turn's finalization that is
  `RevisionStrands`; under a planner's command it is a 500 that changes nothing, a
  stutter. Row-level security filters by site and not by member
  (`api/deps.py:255`), conversations are not deleted, and membership is joined when a run
  is claimed and not when it is finished, so the other cause that
  `conversations.py:588` names for the same handler does not arise. A turn suspended with
  one pending call goes on in `RequestApproval`; with more it is `SuspendRaises`.
* **Streams.** An event is its sequence number and whether its payload parses. The
  browser refetches its timeline on mount, as React Query does; `Window` is the
  timeline page. The display merge is not modelled. Run streams have no browser
  consumer, so they have API clients only.
* **Sign-in.** State, nonce and verifier are one fresh login name; tokens are named
  by the callback that minted them; a cache's hour is the action that ends it. A key has
  a number and a `kid`; `Rotate` adds one under a new `kid`, `Replace` one under the old.
* **Agent runtime.** An answer is the set of marks its text carries. The framework's
  request loop, threads, retry counters and usage limits are external. The tools of one
  response run beside one another: what each leaves in the turn's flags and counters is
  one step, in any order, and the model hears of all of them together (`ToolsAnswer`). A
  declared failure, and a tool out of retries, ends the run in whatever the others have
  got to.
* **Scenario data.** Times are minutes of a short day, volumes are in `Scale`-ths so
  that pro-rating stays exact. Record ids keep the order of their strings.
* **Solver.** Members are the rows of the payload's worker table, one each, so a worker in
  two rows is two members that share windows, qualifications and rates. A selection is
  the set of task variables at 1; slacks are the least a selection needs. Time units are scaled. Function coverage, preserved locks and the
  legacy `CpSatEngine` entry point are left out. CP-SAT is any solution that satisfies
  the constraints, optimal where it says so.
* **Grounding.** One field per record; assignments are content-addressed, which makes
  `unauthorized_evidence` unreachable; one piece of the answer is grounded per step.
* **Capabilities and drafting.** A handler is atomic, and its deciding argument is one
  number; parallel handlers are `AgentRuntime`'s and `DraftBesideDiscard`'s. A person may
  approve any suspended call here; the routes offer it for the baseline only
  (`conversations.py:472-491`), so the demonstration's approval is more than the product
  does. The baseline capability's approved re-invocation is `DecideApproval`'s. A
  draft's id is its content; the HTTP revision uses the same resolver.
* **Release.** History is linear, with amends. An edit makes a new version of the code or
  brings back that of a commit, by hand or by `git checkout`. A commit is one tick of the
  clock. Vitest is handled as pytest is. The live suite records the code in one step and
  builds and reads its images in a later one. A scenario is its index and an isolation id
  its conversation. The registries keep one check for each kind of source in each row.

## Runs

Bounds are the `CONSTANTS` of each cfg.

| Run | Instance | Shows |
| --- | --- | --- |
| `run_fencing` | one run, two workers, one cancellation, two faults: up to three attempts; or a run whose metrics raise on every attempt and one fault; fair | `FencingInvariant` (types, the stream mirrors the run, ended jobs have ended runs, one owner per epoch, what a worker's position implies), `OneCandidate`, `AttemptsInOrder`, refinement of `RunLifecycle`, `EveryRunEnds` |
| `run_retries` | one run, two workers, a cancellation, its retry and a rival under another key | `AcceptedOnce`: accepted cancellations are recorded and a key has one answer; `RetryNeverRefused` |
| `run_poison` | one run whose metrics raise, no fault, nobody cancels | Violation of `ReleasedOnlyAfterFault`: the job is leased and solved again although nothing failed that may not recur |
| `starts_sessions` | two copies of one start, a start of another draft, a reused key, a malformed command; cap 1; three sends each; deaths. Or two sign-ins crossing in one browser, or two requests of one session, a changed secret | `SiteLockWorks`, `OneRunPerKey`, `StartsWhatWasReviewed`, `AnswersActionable`; `SessionIsEarned`, `SessionEndsForAll` |
| `draft_turns` | two turns, also with a draft and a discard or two promotion requests in parallel; a revision and a rejection under one key, each sent twice; the scenario moves; deaths; fair | `NoLostEdit`, `DraftRecordsAgree`, `AppliedIsAnswered`, refinement of `DraftLedger`, `ClaimedTurnEnds` |
| `approval_promotion` | an agent's and a planner's approval of two candidates, an approval sent twice, one death | `GovernanceInvariant`, `BaselineExplained`, `RecordsAgree`, refinement of `BaselineLedger` |
| `approval_requests` | a planner's request, its retry and an agent's for one candidate, decided meanwhile, one death; fair | `OneBinding`, `AgentFollowsBinding`, `EveryoneAnswered` |
| `approval_turn` | two asks for one candidate | Violation of `RefusedTurnEnds`: an agent turn whose request loses the unique index stays `agent_running` |
| `stream_delivery` | either stream, two writers, four events, batches and window of two; an API client or a browser that loses three connections; fair | `GapFree`: no gap, repeat or inversion, and the frames join the window; `EverythingDelivered` |
| `serving` | one turn with four tools over every route, up to two calls in a response, 3 requests, 2 calls, 1 retry; or two sign-ins over two new keys, added or replaced, and a lapse; fair | `TurnDeliversItsWork`, `TurnEndIsHonest`, `TurnEnds`; `CacheFollowsProvider`, `ExchangeEnds` |
| `planning` | four importers, a reader and a metric; governed solves; 900 payloads; two threads of grounding; two tool calls; drafts of three candidates | `ImportsAreExact`, `ReadsAreHonest`, `SolveIsSound`, `ProjectionIsExact`, `AnswersAreGrounded`, `CallsAreGoverned`, `DraftsAreSolvable` |
| `release` | three commits, two edits, two measurements, two reports, two repetitions, from four starts | `ReleaseIsEarned`: a gate passes only a release whose routing, conversations and exceptions were measured on it and met their floors, and whose stamped tests saw no other code unless the tree has strayed from the release since it was committed; all counted conversations ran the same images, those of the bound code unless the tree moved under the build |

Why the bounds are enough for the cases to happen:

* Three attempts are the least at which the newest has an older and a much older one
  to be protected from; two faults produce them. In `run_fencing` the cancellation
  arrives after the run's creation and presents the version it finds; `run_retries`
  has the other cases.
* Two candidates give a promotion that goes stale under another one; two decisions on
  one binding plus one on the other give every order of the two compare-and-sets. Two
  asks in one conversation are enough for the lock-upgrade deadlock.
* With a cap of one, two starts of different drafts compete for the last slot, and a
  third command is the retry that finds it taken. `FocusSpec` explores either the
  commands that compete or those that disagree about one draft.
* Four events against batches and a window of two give a second batch, a replay inside
  the window and a continuation beyond it; three failures reach the hook's fallback.
* Three requests reach the limit with a tool call and a retry before it. Two calls in a
  response are the least that can run beside each other: a draft beside a baseline
  request, two pending calls, a failure beside a success. The fourth tool, inspection,
  differs from computation only in which mark it licenses, and a second mark only in
  which rule is named first; the theorems have every set of tools, any number of calls
  and any marks. Two new keys are the least after which a cached set is twice out of date,
  and one lapse the least that makes both sign-ins wait for one fetch.
* The four importers have three payloads of one version between them (equal and
  different) and one next version, so that every race of insert, conflict and re-read
  happens and a citation can outlive its version.
* The release instance has two edits, so that one can be taken back, and one commit more
  than a donor needs. In it the tree changes during test runs and measurements and while
  the live suite builds its images, but not between two executions of that suite, which
  run the images already built; a gate's run ends the behaviour, journeys evidence is
  generated once, and Gate A's donors are not held against it (see divergences).

Symmetry is used over workers in `run_retries` only, where no liveness is checked. Deadlock checking is off where
requests are finite and the system stops when all are answered; that nobody is *stuck*
is `EveryoneAnswered`, `ClaimedTurnEnds`, `ExchangeEnds`, `EverythingDelivered`. It is
on for the run system, whose workers poll for ever.

### Fairness

* Worker steps are weakly fair: the poll loop never ends on its own, each transaction
  is bounded and the solver has a wall-time limit. Taking a fault is never required.
* `LeaseLapses` is weakly fair: a lease nobody renews runs out.
* Ask and decision steps are weakly fair: a transaction whose lock is granted goes on,
  and PostgreSQL aborts one party to a deadlock. Requests need never arrive.
* The steps of a claimed turn are weakly fair (`draft_turns`, `serving`): the route runs
  it to its end in one call. The optional deadline is never relied upon.
* Serving, receiving, connecting and resuming are weakly fair: the poll loop of a
  connection runs, an `EventSource` reconnects, an API client retries. A browser's
  refetch is weakly fair once it has given the stream up (it polls) or its timeline
  read failed (React Query reads again when the window gets the focus). A writer that
  holds the stream's lock commits or rolls back.
* Each coroutine of an exchange is strongly fair: asyncio wakes lock waiters in order
  and the HTTP client times out, so a coroutine that can go on again and again does.

## Proofs

Every theorem below holds for all values of the constants that satisfy the named
`ASSUME`s; TLC evaluates those on every run. They state the types of the constants and
that a placeholder (`None`, `NoOne`) is not one of the values it stands in for, that
effect keys determine candidates, and, for the start command, that the commands are
finite (runs are counted). Those of the planning modules also say what the constants
stand for: a payload is made of tables, in `ScenarioData` of at most `MaxTable` rows (up
to there the numbers that stand for record ids are distinct and ordered as their
strings), in `GovernedSolver` of any length, with whole minutes and amounts and with
interval lengths that divide `Scale` (a volume is split by the hour without rounding); two
schedules of one version agree on an assignment's record id because the id is a digest
of the assignment (`governed_adapter.py`), a draft's proposals are what its parser lets
through, and an answer is a sequence of tokens of the five kinds the tag expressions
know. No theorem uses a `FocusSpec` or an MC module.

None of the properties is inductive alone. Each module names the invariant that is, as
a conjunction of parts, and proves it action by action; frame lemmas say what a step of
one actor may change, and the other actors' parts follow from the frame alone.

| Module | Inductive invariant | Properties proved from it |
| --- | --- | --- |
| `ScheduleRunProofs` | `FencingInvariant`, `CancelTruth` | `TypeOK`, `StreamMirrorsRun`, `OneCandidate`, `AttemptsInOrder`, `EndedJobEndedRun`, `OwnerFindsLease`, refinement of `RunLifecycle`; `AcceptedOnce`, `RetryNeverRefused` |
| `EnqueueComputeProofs` | `StartInvariant` | `SiteLockWorks`, `OneRunPerKey`, `StartsWhatWasReviewed`, `AnswersActionable` |
| `DraftConversationProofs` | `DraftInvariant` | `NoLostEdit`, `DraftRecordsAgree`, `AppliedIsAnswered`, refinement of `DraftLedger` |
| `BaselineApprovalProofs` | `GovernanceInvariant`, `LogInvariant` | `TypeOK`, `OneBinding`, `AgentFollowsBinding`, the truth of replies, the draft's fate, refinement of `BaselineLedger`; `BaselineExplained`, `RecordsAgree` |
| `EventStreamProofs` | `StreamInvariant` | `GapFree` |
| `ServingProofs` | `SignInInvariant`; `OidcInvariant`; `TurnInvariant` | `SessionIsEarned`, `SessionEndsForAll`; `CacheFollowsProvider`; `TurnDeliversItsWork`, `TurnEndIsHonest` |
| `PlanningProofs` | `ToolsInv`; `DataInv`; `DraftInv`; `GroundInv` | `CallsAreGoverned`; `ImportsAreExact`, `ReadsAreHonest`; `DraftsAreSolvable`; `AnswersAreGrounded` |
| `SolverProofs` | `SolveInv` | `SolveIsSound` |

Runs (`ScheduleRunProofs`). The invariant adds what a worker's position says about its
lease and its run (`Control`): the facts that survive although the reads behind them
have gone stale. Every step makes at most one legal write to a run (`StepRuns`), and
statuses only move forward, so a run found past `solver_queued`, or terminal, stays so.
Every step is one of four moves of the queue (`StepQueue`): keep, lease, end, create;
epochs only grow, and a write under the epoch fence is by the owner of the newest one.
The refinement follows because each legal write is a step of the lifecycle.
Cancellation rests on the same layer. What a cancellation read is still in the stream
when it acts (an event once published stays), a run's cancellation is requested once,
and a stored answer was true of the run at the version it names. So an answer stays
true, and a retry that loses its compare-and-set finds it.

Starts (`EnqueueComputeProofs`). What a transaction read before its locks is still true
under them: `Locks` says who holds what at which position, `Reviewed` and `Snapped` that
the draft cannot have moved since it was checked, `Counted` that no run of the site
became active since the count. The cap then follows by counting: an insert adds one run
to a set that was below the cap. `Recorded` ties a committed run to the stored reply of
its key, which makes a second run for the key impossible.

Drafts (`DraftConversationProofs`). The core is what a stale sighting is worth: a
resource version seen earlier that still matches an active draft vouches that nothing
was written since (`Sound`). So a turn that passes the guard of `finalize_agent_run`,
and a command that passes the version check, write on top of what they had been shown.
The rest orders the steps of a turn against the versions (`TurnOrder`), ties versions to
their authors and stored answers to versions.

Approvals (`BaselineApprovalProofs`). The invariant adds what an ask's position says
(`AskControl`) and what a decision's position says (`DecisionControl`), that is, what
the row locks and the unique indexes protect. A decision between consume and commit
holds its binding's lock and the binding is pending; one past the baseline's
compare-and-set holds that row's lock and the version is still the one its binding
names; a stored idempotency row belongs to a decided binding and carries its outcome
(without it not even the types are inductive: a replay could answer "pending"). An ask
that has not committed has no binding, has read a version not newer than the current
one, leaves its agent run running, and, once it has inserted, is the only one inserted
for its candidate and collides with nothing. In the refinement TX1's commit is the
ledger's `Ask`, TX2's its `Promote`, TX3 its `Close`, and every other step leaves the
ledger alone. The logs need one more fact, `PointerTruth`: a version names one baseline,
so a promotion that passes the compare-and-set replaces the schedule its approval was
asked against, and the audit row it writes says so.

Streams (`EventStreamProofs`). The writer's lock makes commit order the order of
numbers (`Written`), so a poll never passes over an event that commits later. Reader by
reader, received, travelling and polled frames join up (`Delivery`, `Received`), and the
hook's first cursor is no later than the end of the timeline it shows (`Shown`). A
dropped connection forgets what travelled and keeps the cursor.

Sign-in (`ServingProofs`). `Spent` follows a callback from the handshake it consumed
to the session it earned; `Tokens` and `Requested` follow a request
from the page that sent it to its answer through every change of the session between.

The rest of the API process (`ServingProofs`). In the key cache, fetches exclude each other, and
a withdrawn or replaced key never comes back. So a coroutine on its second attempt holds
keys served after its token was signed, also when another coroutine has stored a newer set
in between, and a set that lacks a published key holds only keys older than it (`Served`).
In a turn, drafts are counted with the tool calls, a special route runs no tool, and each
of the ways out of the loop (`EndFrame`) agrees with the work of the answered responses.
`BatchInBounds` says what the parallel calls of a response may still do: they were counted
before they started, and one waits for approval only when nothing was drafted or discarded
in an earlier response.

Planning (`PlanningProofs`). What the code computes from data is reasoned about
without folds: the library's induction rules take an operator and are
of no use, but well-foundedness of `<` gives a rule about *sets* of numbers (`NatMin`,
`NatClosed`) and of sequences (`SeqClosed`), and every loop of the code is an
induction over the set of its counterexamples.
* Tool calls: what a call has done and said is a function of its position (`CallOK`), and
  the sink holds each finished call once (`CapturedOnce`).
* Scenario data: a committed version row is there for good, whoever died after writing
  it, and its digest is that of one payload (`ImportsInv`). A reader's citation names the
  version it was shown in, and within one version a record id names one record: this needs
  that ids of distinct rows are distinct, in every table (`ReadsInv`). A drain has
  taken exactly the rows before its cursor, in the order of the query, of the version it
  pinned at its first page (`ComputeOK`).
* Drafts: each lock found so far is one of the pinned version's, in its order and without
  a gap (`DraftOK`), and what the resolver accepts is what the solver's adapter can read
  (`ResolvedIsGood`).
* Answers: what was read and minted (`ReadsOK`: a handle names one record, and a page being handed out or captured says what
  its records held in the version the turn is pinned to), what was grounded
  (`AnswerOK`), what the wording check was sent (`CheckerOK`), what was asked of the parser
  alone (`AskedOK`). The parser (`claim_tags.py`) is proved by an induction over the
  tokens of the answer: `Worded` says the wording kept so far is the wording read so far,
  `OpenedAt` which tag is open and where; so no wording is lost and the facts are the
  complete tags and nothing else. The batches of the wording check (`jev_checker.py`) are
  proved by another: each request is within the token budget, and unless a piece was
  skipped as too long none is missing from them.

Solver (`SolverProofs`). The theorem is about every payload and set of drafted constraints,
and every solution CP-SAT may return for them. Sums over finite sets come first: an element
more, a sum of sums in either order, a sum along a renaming without collisions, a sum of
differences that telescopes; each an induction over a set of sets (`SetClosed`). Then, from
the rows up, what the builder makes of a payload: windows and bands clipped to the horizon,
candidate starts, slots, task variables, the objective.
* The re-check passes (`SelectionPasses`): the builder counts variables of windows and
  slots, the validator minutes of assignments and shift *names*. Shifts of one worker that
  overlap break the gap, the slots of one shift split its minutes, and among selected shifts,
  one per window, a name determines its shift, so no cap is counted twice.
* No round is infeasible: selecting nothing satisfies every constraint (`IdleIsSolution`),
  soft caps included (`SoftCapHolds`), and the first round's schedule is in the second's
  locked space. Without `scale_demand` the model does not depend on the drafted constraints
  (`SameModel`), so the least unmet demand does not either.
* A band's minutes per hour telescope to its length (`BandConserved`), and the sum over
  hours of sums over bands is the sum over bands (`HoursConserve`).
* A payload is clean when each worker the solver can schedule has one row and no row was
  dropped or clipped on the way. The projection then has the same rows (`CleanRows`) and its
  workers are the solver's members in another order, so rates add up alike (`CleanRates`).
`SolveInv` carries them through a solve: what is read, from either round or the snapshot, is
a member of the solution space that covers what was reported.

Only model-checked:
* liveness (`EveryRunEnds`, `ClaimedTurnEnds`, `EveryoneAnswered`,
  `EverythingDelivered`, `TurnEnds`, `ExchangeEnds`), which is out of this prover's
  reach;
* `ProjectionIsExact`, whose reference definitions are RECURSIVE operators, in a module
  the provers cannot use;
* `ReleaseIsEarned`, which puts four modules over files side by side and is stated where
  they are instantiated.

## Where the code and its words part

Two runs show a violation. `approval_turn`: the handler at `conversations.py:528` covers
refusals of one class, and a request refused by the pending index, or aborted as a deadlock
victim, escapes it and leaves its run `agent_running`. `run_poison`: the comment at
`lease_and_execute_schedule_run.py:32` says that deterministic causes end the attempt
rather than being leased again for ever, and the `ValueError` of `candidate_metrics.py:64`
(a volume demand nobody is qualified for; `:140` likewise) is not among the fatal ones, so
such a run is solved again until somebody cancels it and meanwhile counts against its
site's cap. `EveryRunEnds` excepts exactly these runs. The following were read off the
models or met while writing them; the properties are stated so that what the code does
satisfies them.

Runs, streams and approvals
* The flag of a refused cancellation stays set (`cancel_schedule_run.py:184`): the
  refusal is answered, not raised, so the transaction commits.
* The acknowledgement that `lease_and_execute_schedule_run.py:195` promises holds only
  if nothing happens between an unlocked read and its write.
* A client that reconnects to a finished run with a cursor at the terminal event is
  polled for ever (`conversations.py:680-720`): nothing is left to end the stream.
* An unreadable event inside a batch makes the browser open and close for ever, because
  opening resets its failure count; after the fallback to polling, the merge
  (`useConversationStream.ts:303-315`) puts live frames that fell out of the window
  behind newer ones; one failed background read of the timeline closes a healthy stream
  without a banner.

Scenario data, solver, agent
* The baseline may move between two pages of its assignments; they carry the scenario
  version and no baseline version (`scheduling_compute.py:230`, `266`, `352`), so a
  metric can mix two baselines.
* The last page of an inspection reports `truncated` with no next cursor
  (`scheduling_inspect.py:287`).
* Comparison reads facts again and compares values as multisets
  (`comparison.py:117-119`, `234`), so an exchange of values between rows is not seen.
* A placeholder inside a fact tag's wording stays raw (`gate.py:276`).
* A locked worker's window is reduced to one day by the solver's adapter
  (`governed_adapter.py:103`) and not by the resolver.
* A worker in two rows of the payload is two solver members and one projected worker
  (`input_adapter.py:115`, `scenario_projection.py:223`). The reference rates of the solve
  count both, so the comparison's metrics differ and it raises (`comparison.py:234`). The
  last clause of `SolveIsSound` is about payloads without such rows.
* The tools of one response run in parallel threads, and each looks at the turn's flags
  before a sibling has set them. A draft or a discard beside a baseline request is lost
  when the turn is suspended. Two baseline requests leave two pending calls, which
  `conversations.py:469` refuses with an error that leaves the run `agent_running`; two
  discards meet the assertion at `execute_turn.py:109`, and the turn fails. A draft beside a
  discard of one draft is the turn "the tools make unreachable"
  (`finalize_agent_run.py:81`): the `ValueError` leaves the run `agent_running`.
* A revision that commits while a finalization waits for the draft's row makes
  `proposal.py:118` raise; the request answers 409 and the run stays `agent_running`
  (`conversations.py:587`).

Identity
* `exchange_code` means to survive a rotation ("refresh once and retry", `oidc.py:156`). Keys are
  passed to authlib as a plain set, and a `kid` the set lacks is a `ValueError` there and no
  `JoseError`: a rotation to a new `kid` refuses sign-ins until the cache is an hour old.
  Only a key replaced under its `kid` is refreshed. `NotFoundOnlyInOlderKeys` and
  `ReplacementRejectsNobody` say what remains true.

Release
* `--allow-dirty` says a dirty tree is "recorded, and blocks"; with `--code-from` and a
  clean donor it does not block. Gate A's `--code-from` does not compare the donor with
  HEAD.
* The audit of a migration chain ends at a merge migration, and an amend can remove the
  commit that evidence names; a binding override passes the audit.
* Tests of edits that were then taken back, and any JUnit file without a timestamp, pass for
  tests of the release (`gate_a_readiness.py:215-226`): a stamp is compared with the commit's
  date, and nothing records what code ran.
* The live suite records its code (`suite.py:124`) before it builds its images (`:149`) and does
  not compare them, so an edit in between gives images of other code under a clean
  binding. What is compared is the image ids of the executions that are counted together.
* JUnit provenance is checked in one direction: tests of the source must be in the file,
  cases of the file need not be in the source.
* Faults of starting the stack are not retried, although `--execution-retries` reads as
  if they were. `--resume` keeps passed executions only, so a failed one is run again and
  vanishes. A suite killed in its last turn leaves a repetition that counts as complete.
  A judge call out of budget leaves only its own turn ungraded.
* The schema version and the dataset digests are read after the last pass of a
  measurement; regenerating evidence without a log binds old measurements to HEAD
  (documented); the repair-journey evidence records staleness and never blocks on it, and
  journeys evidence has no ancestor check. Deriving the suite's baseline writes under
  `backend/evals/`, which makes earlier routing evidence stale.

## Plan

Done: run execution, cancellation, the start command, drafts and turns, baseline
governance, streams with the browser's hook, sign-in, provider caches and the agent's
turn, scenario data, grounding, capabilities and drafting, the solver, each with proofs;
calculators, evidence, live evaluation and release gates, model-checked.

Next, in this order:
1. Proofs: the parts of `ReleaseIsEarned`.
2. One composition of runs, drafts and approvals: a promoted candidate belongs to a
   completed run whose draft ended with it.
3. Two runs sharing a queue under fairness, and a site cap above one.

## Not modelled

Telemetry (output only, every emit is guarded so that it cannot affect a command);
decision provenance and the other read models (queries over rows that modelled
commands write); evaluation cases, test doubles and offline reports (data and
formatting); anonymisation, calibration, exports and deployment scripts (one-shot file
transformations run by hand); the user interface beyond the stream hook; row-level
security, connection pools and problem rendering; and third-party software: CP-SAT, the
model provider, the agent framework, the identity provider and PostgreSQL itself beyond
row locks, unique indexes and deadlock detection, each of which appears only as what the
code relies on. `PROJECT.json` lists every part with its status.
